------------------------- MODULE ExtensionHostProofs -------------------------
(***************************************************************************)
(* The safety properties of ExtensionHost, for any number of sockets and   *)
(* any trouble: nothing that the client writes is lost in a hand-over, the *)
(* disconnect runners run exactly while the socket is lost, and a client   *)
(* is refused only when its extension host has ended.                      *)
(*                                                                         *)
(* The invariant follows a socket on its way from the last message of its  *)
(* handshake to the process: it is in one place at a time and never comes  *)
(* back, and until it has arrived its client is paused.                    *)
(***************************************************************************)
EXTENDS ExtensionHost, SequenceTheorems, TLAPS

Has(pipe, s, msg) == \E i \in DOMAIN pipe[s] : pipe[s][i] = msg

(* A socket is in one of the places at most, and once.                     *)
InIpc(s) == \E i \in DOMAIN ipc : ipc[i].socket = s
Message == {m \in IpcMessage : m.handle => m.socket \in Socket}
Places ==
    /\ ipc \in Seq(Message)
    /\ server.port \cap server.draining = {}
    /\ server.first \notin server.port \cup server.draining
    /\ \A s \in Socket : InIpc(s) => s \notin server.port \cup server.draining \cup {server.first}
    /\ \A i, j \in DOMAIN ipc :
          i # j /\ ipc[i].socket \in Socket => ipc[i].socket # ipc[j].socket

(* The last message of a handshake comes once, before a socket goes on its *)
(* way, and not over a socket that the client has not opened.              *)
RequestFirst(d) == \A i \in DOMAIN d : d[i] = "connectionType" => i = 1
Requests ==
    \A s \in Socket :
        /\ RequestFirst(up[s])
        /\ Has(up, s, "connectionType") => ~OnItsWay(s)
        /\ s > client.socket => up[s] = <<>> /\ down[s] = <<>> /\ ~OnItsWay(s)

(* A socket that has arrived, for good.                                    *)
Handed(s) == ~OnItsWay(s) /\ ~Has(up, s, "connectionType")
PauseFirst(d) == \A i \in DOMAIN d : d[i] = "ok" => \E j \in 1 .. i - 1 : d[j] = "pause"

Talk ==
    /\ \A s \in Socket : Has(up, s, "data") \/ Has(down, s, "resume") => Handed(s)
    /\ client.at = "connected" /\ ~client.paused => Handed(client.socket)
    /\ client.at = "handshake" =>
          client.paused \/ Handed(client.socket) \/ PauseFirst(down[client.socket])

Over ==
    /\ ~server.open \/ client.at = "failed" => process.at = "exited"
    /\ \A s \in Socket : Has(down, s, "error") => process.at = "exited"

(* What the process has and may do in the phases of its life.              *)
Phases ==
    /\ (server.process = "forked") <=> (process.at # "none")
    /\ process.ready => process.at \in {"waiting", "connected"}
    /\ process.at = "connected" => process.socket \in Socket
    /\ process.runner1 \/ process.runner2 => process.at = "connected"

IInv == TypeOK /\ Places /\ Requests /\ Talk /\ Over /\ Phases /\ GraceRunsIffLost

-----------------------------------------------------------------------------
(* Sequences and pipes.                                                    *)

LEMMA Added ==
  ASSUME NEW S, NEW s \in Seq(S), NEW e \in S
  PROVE  /\ Append(s, e) \in Seq(S) /\ Len(s) \in Nat /\ DOMAIN s = 1 .. Len(s)
         /\ DOMAIN Append(s, e) = 1 .. Len(s) + 1
         /\ \A k \in DOMAIN s : Append(s, e)[k] = s[k]
         /\ Append(s, e)[Len(s) + 1] = e
  BY AppendProperties, LenProperties

LEMMA Removed ==
  ASSUME NEW S, NEW s \in Seq(S), s # <<>>
  PROVE  /\ Tail(s) \in Seq(S) /\ Len(s) \in Nat /\ Len(s) >= 1 /\ DOMAIN s = 1 .. Len(s)
         /\ DOMAIN Tail(s) = 1 .. Len(s) - 1
         /\ \A k \in DOMAIN Tail(s) : Tail(s)[k] = s[k + 1]
         /\ Head(s) \in S /\ Head(s) = s[1]
  BY HeadTailProperties, LenProperties, EmptySeq

LEMMA Send1 ==
  ASSUME NEW T, NEW pipe \in [Socket -> Seq(T)], NEW s \in Socket, NEW m \in T
  PROVE  LET p == Send(pipe, s, m)
         IN  /\ p \in [Socket -> Seq(T)]
             /\ \A t \in Socket : t # s => p[t] = pipe[t]
             /\ \A t \in Socket : \A x : Has(p, t, x) => Has(pipe, t, x) \/ (t = s /\ x = m)
             /\ m # "connectionType" => \A t \in Socket : RequestFirst(pipe[t]) => RequestFirst(p[t])
             /\ m # "ok" => \A t \in Socket : PauseFirst(pipe[t]) => PauseFirst(p[t])
  <1> DEFINE q == Append(pipe[s], m)
             p == [pipe EXCEPT ![s] = q]
  <1>1. CASE s \in closed
    BY <1>1 DEF Send
  <1>2. CASE s \notin closed
    <2>1. Send(pipe, s, m) = p
      BY <1>2 DEF Send
    <2>2. PICK l \in Nat : /\ DOMAIN pipe[s] = 1 .. l /\ q \in Seq(T) /\ DOMAIN q = 1 .. l + 1
                           /\ \A k \in 1 .. l : q[k] = pipe[s][k]
                           /\ q[l + 1] = m
      BY Added
    <2> HIDE DEF q
    <2>3. p \in [Socket -> Seq(T)] /\ p[s] = q /\ \A t \in Socket : t # s => p[t] = pipe[t]
      BY <2>2
    <2> HIDE DEF p
    <2>4. ASSUME NEW t \in Socket, NEW x, Has(p, t, x)
          PROVE  Has(pipe, t, x) \/ (t = s /\ x = m)
      <3>1. CASE t # s
        BY <2>3, <2>4, <3>1 DEF Has
      <3>2. CASE t = s
        <4>1. PICK i \in 1 .. l + 1 : q[i] = x
          BY <2>2, <2>3, <2>4, <3>2 DEF Has
        <4>2. i \in 1 .. l \/ i = l + 1
          OBVIOUS
        <4> QED BY <2>2, <3>2, <4>1, <4>2 DEF Has
      <3> QED BY <3>1, <3>2
    <2>5. ASSUME m # "connectionType", NEW t \in Socket, RequestFirst(pipe[t])
          PROVE  RequestFirst(p[t])
      <3>1. CASE t # s
        BY <2>3, <2>5, <3>1
      <3>2. CASE t = s
        <4>1. \A i \in 1 .. l + 1 : i \in 1 .. l \/ i = l + 1
          OBVIOUS
        <4> QED BY <2>2, <2>3, <2>5, <3>2, <4>1 DEF RequestFirst
      <3> QED BY <3>1, <3>2
    <2>6. ASSUME m # "ok", NEW t \in Socket, PauseFirst(pipe[t])
          PROVE  PauseFirst(p[t])
      <3>1. CASE t # s
        BY <2>3, <2>6, <3>1
      <3>2. CASE t = s
        <4> SUFFICES ASSUME NEW i \in 1 .. l + 1, q[i] = "ok"
                     PROVE  \E j \in 1 .. i - 1 : q[j] = "pause"
          BY <2>2, <2>3, <3>2 DEF PauseFirst
        <4>1. i \in 1 .. l
          BY <2>2, <2>6
        <4>2. PICK j \in 1 .. i - 1 : pipe[s][j] = "pause"
          BY <2>2, <2>6, <3>2, <4>1 DEF PauseFirst
        <4>3. j \in 1 .. l
          BY <4>1
        <4> QED BY <2>2, <4>2, <4>3
      <3> QED BY <3>1, <3>2
    <2> QED BY <2>1, <2>3, <2>4, <2>5, <2>6
  <1> QED BY <1>1, <1>2

(* The two answers of HandOver.                                            *)
LEMMA SendPauseOk ==
  ASSUME NEW pipe \in [Socket -> Seq(DownType)], NEW s \in Socket
  PROVE  LET p == Send(Send(pipe, s, "pause"), s, "ok")
         IN  \A t \in Socket : PauseFirst(pipe[t]) => PauseFirst(p[t])
  <1> DEFINE p1 == Send(pipe, s, "pause")
             p == Send(p1, s, "ok")
  <1>1. "pause" \in DownType /\ "ok" \in DownType /\ "pause" # "ok"
    BY DEF DownType
  <1>2. p1 \in [Socket -> Seq(DownType)] /\ \A t \in Socket : PauseFirst(pipe[t]) => PauseFirst(p1[t])
    BY <1>1, Send1
  <1> SUFFICES ASSUME NEW t \in Socket, PauseFirst(pipe[t])
               PROVE  PauseFirst(p[t])
    OBVIOUS
  <1>3. CASE t # s \/ s \in closed
    <2>1. p[t] = p1[t]
      BY <1>2, <1>3 DEF Send
    <2> QED BY <1>2, <2>1
  <1>4. CASE t = s /\ s \notin closed
    <2>1. p1 = [pipe EXCEPT ![s] = Append(pipe[s], "pause")]
      BY <1>4 DEF Send
    <2>2. PICK l \in Nat : DOMAIN p1[s] = 1 .. l + 1 /\ p1[s][l + 1] = "pause"
      <3>1. p1[s] = Append(pipe[s], "pause")
        BY <2>1
      <3> QED BY <1>1, <3>1, Added
    <2>3. p = [p1 EXCEPT ![s] = Append(p1[s], "ok")]
      BY <1>4 DEF Send
    <2> HIDE DEF p1
    <2>4. /\ DOMAIN p[s] = 1 .. l + 2 /\ p[s][l + 2] = "ok"
          /\ \A i \in 1 .. l + 1 : p[s][i] = p1[s][i]
      <3>1. p[s] = Append(p1[s], "ok") /\ p1[s] \in Seq(DownType)
        BY <1>2, <2>3
      <3>2. PICK k \in Nat : /\ DOMAIN p1[s] = 1 .. k /\ DOMAIN p[s] = 1 .. k + 1
                             /\ \A i \in 1 .. k : p[s][i] = p1[s][i]
                             /\ p[s][k + 1] = "ok"
        <4>1. ASSUME NEW d \in Seq(DownType), NEW e, e = Append(d, "ok")
              PROVE  \E k \in Nat : /\ DOMAIN d = 1 .. k /\ DOMAIN e = 1 .. k + 1
                                    /\ \A i \in 1 .. k : e[i] = d[i]
                                    /\ e[k + 1] = "ok"
          <5>1. "ok" \in DownType
            BY <1>1
          <5>2. /\ Len(d) \in Nat /\ DOMAIN d = 1 .. Len(d)
                /\ DOMAIN Append(d, "ok") = 1 .. Len(d) + 1
                /\ \A i \in DOMAIN d : Append(d, "ok")[i] = d[i]
                /\ Append(d, "ok")[Len(d) + 1] = "ok"
            BY <5>1, Added
          <5> QED BY <4>1, <5>2
        <4> HIDE DEF p
        <4> QED BY <3>1, <4>1
      <3>3. k = l + 1
        BY <2>2, <3>2
      <3> QED BY <3>2, <3>3
    <2> HIDE DEF p
    <2> SUFFICES ASSUME NEW i \in 1 .. l + 2, p[s][i] = "ok"
                 PROVE  \E j \in 1 .. i - 1 : p[s][j] = "pause"
      BY <1>4, <2>4 DEF PauseFirst
    <2>5. CASE i = l + 2
      <3>1. l + 1 \in 1 .. i - 1 /\ l + 1 \in 1 .. l + 1
        BY <2>5
      <3> QED BY <2>2, <2>4, <3>1
    <2>6. CASE i # l + 2
      <3>1. i \in 1 .. l + 1
        BY <2>6
      <3>2. PICK j \in 1 .. i - 1 : p1[s][j] = "pause"
        BY <1>2, <1>4, <2>2, <2>4, <3>1 DEF PauseFirst
      <3>3. j \in 1 .. l + 1
        BY <3>1
      <3> QED BY <2>4, <3>2, <3>3
    <2> QED BY <2>5, <2>6
  <1> QED BY <1>3, <1>4

LEMMA Drop1 ==
  ASSUME NEW T, NEW pipe \in [Socket -> Seq(T)], NEW s \in Socket, pipe[s] # <<>>
  PROVE  LET p == Drop(pipe, s)
         IN  /\ p \in [Socket -> Seq(T)] /\ Head(pipe[s]) \in T
             /\ Has(pipe, s, Head(pipe[s]))
             /\ \A t \in Socket : t # s => p[t] = pipe[t]
             /\ \A t \in Socket : \A x : Has(p, t, x) => Has(pipe, t, x)
             /\ \A t \in Socket : RequestFirst(pipe[t]) => RequestFirst(p[t])
             /\ RequestFirst(pipe[s]) => ~Has(p, s, "connectionType")
             /\ PauseFirst(pipe[s]) => /\ Head(pipe[s]) # "ok"
                                       /\ Head(pipe[s]) # "pause" => PauseFirst(p[s])
  <1> DEFINE q == Tail(pipe[s])
             p == [pipe EXCEPT ![s] = q]
             d == pipe[s]
  <1>1. Drop(pipe, s) = p
    BY DEF Drop
  <1>2. PICK l \in Nat : /\ l >= 1 /\ DOMAIN d = 1 .. l /\ q \in Seq(T) /\ DOMAIN q = 1 .. l - 1
                         /\ \A k \in 1 .. l - 1 : q[k] = d[k + 1]
                         /\ Head(d) \in T /\ Head(d) = d[1]
    BY Removed
  <1> HIDE DEF q
  <1>3. p \in [Socket -> Seq(T)] /\ p[s] = q /\ \A t \in Socket : t # s => p[t] = pipe[t]
    BY <1>2
  <1> HIDE DEF p
  <1>4. \A k \in 1 .. l - 1 : k + 1 \in 1 .. l /\ k + 1 # 1
    BY <1>2
  <1>5. Has(pipe, s, Head(d))
    <2>1. 1 \in 1 .. l
      BY <1>2
    <2> QED BY <1>2, <2>1 DEF Has
  <1>6. ASSUME NEW t \in Socket, NEW x, Has(p, t, x)
        PROVE  Has(pipe, t, x)
    <2>1. CASE t # s
      BY <1>3, <1>6, <2>1 DEF Has
    <2>2. CASE t = s
      <3>1. PICK i \in 1 .. l - 1 : q[i] = x
        BY <1>2, <1>3, <1>6, <2>2 DEF Has
      <3> QED BY <1>2, <1>4, <2>2, <3>1 DEF Has
    <2> QED BY <2>1, <2>2
  <1>7. RequestFirst(d) => ~Has(p, s, "connectionType")
    <2> SUFFICES ASSUME RequestFirst(d), NEW i \in 1 .. l - 1, q[i] = "connectionType"
                 PROVE  FALSE
      BY <1>2, <1>3 DEF Has
    <2> QED BY <1>2, <1>4 DEF RequestFirst
  <1>8. ASSUME NEW t \in Socket, RequestFirst(pipe[t])
        PROVE  RequestFirst(p[t])
    <2>1. CASE t # s
      BY <1>3, <1>8, <2>1
    <2>2. CASE t = s
      BY <1>7, <1>8, <2>2 DEF Has, RequestFirst
    <2> QED BY <2>1, <2>2
  <1>9. ASSUME PauseFirst(d)
        PROVE  Head(d) # "ok"
    <2>1. 1 \in 1 .. l /\ ~\E j \in 1 .. 1 - 1 : TRUE
      BY <1>2
    <2> QED BY <1>2, <1>9, <2>1 DEF PauseFirst
  <1>10. ASSUME PauseFirst(d), Head(d) # "pause"
         PROVE  PauseFirst(p[s])
    <2> SUFFICES ASSUME NEW i \in 1 .. l - 1, q[i] = "ok"
                 PROVE  \E j \in 1 .. i - 1 : q[j] = "pause"
      BY <1>2, <1>3 DEF PauseFirst
    <2>1. PICK j \in 1 .. (i + 1) - 1 : d[j] = "pause"
      BY <1>2, <1>4, <1>10 DEF PauseFirst
    <2>2. j # 1
      BY <1>2, <1>10, <2>1
    <2>3. j - 1 \in 1 .. i - 1 /\ j - 1 \in 1 .. l - 1 /\ (j - 1) + 1 = j
      BY <1>2, <2>1, <2>2
    <2> QED BY <1>2, <2>1, <2>3
  <1> QED BY <1>1, <1>2, <1>3, <1>5, <1>6, <1>7, <1>8, <1>9, <1>10

LEMMA IpcAppend ==
  ASSUME ipc \in Seq(Message), NEW m \in Message, ipc' = Append(ipc, m)
  PROVE  /\ ipc' \in Seq(Message)
         /\ \A s : InIpc(s)' => InIpc(s) \/ s = m.socket
         /\ (\A i, j \in DOMAIN ipc :
                i # j /\ ipc[i].socket \in Socket => ipc[i].socket # ipc[j].socket)
            /\ (m.socket \in Socket => ~InIpc(m.socket))
            => \A i, j \in DOMAIN ipc' :
                  i # j /\ ipc'[i].socket \in Socket => ipc'[i].socket # ipc'[j].socket
  <1>1. PICK l \in Nat : /\ DOMAIN ipc = 1 .. l /\ ipc' \in Seq(Message)
                         /\ DOMAIN ipc' = 1 .. l + 1
                         /\ \A k \in 1 .. l : ipc'[k] = ipc[k]
                         /\ ipc'[l + 1] = m
    BY Added
  <1>2. \A i \in 1 .. l + 1 : i \in 1 .. l \/ i = l + 1
    OBVIOUS
  <1>3. \A s : InIpc(s)' => InIpc(s) \/ s = m.socket
    BY <1>1, <1>2 DEF InIpc
  <1>4. ASSUME \A i, j \in DOMAIN ipc :
                  i # j /\ ipc[i].socket \in Socket => ipc[i].socket # ipc[j].socket,
               m.socket \in Socket => ~InIpc(m.socket),
               NEW i \in DOMAIN ipc', NEW j \in DOMAIN ipc', i # j, ipc'[i].socket \in Socket
        PROVE  ipc'[i].socket # ipc'[j].socket
    <2>1. CASE i \in 1 .. l /\ j \in 1 .. l
      BY <1>1, <1>4, <2>1
    <2>2. CASE i = l + 1 /\ j \in 1 .. l
      BY <1>1, <1>4, <2>2 DEF InIpc
    <2>3. CASE i \in 1 .. l /\ j = l + 1
      BY <1>1, <1>4, <2>3 DEF InIpc
    <2> QED BY <1>1, <1>2, <1>4, <2>1, <2>2, <2>3
  <1> QED BY <1>1, <1>3, <1>4

LEMMA IpcTail ==
  ASSUME ipc \in Seq(Message), ipc # <<>>, ipc' = Tail(ipc)
  PROVE  /\ ipc' \in Seq(Message) /\ Head(ipc) \in Message /\ InIpc(Head(ipc).socket)
         /\ \A s : InIpc(s)' => InIpc(s)
         /\ (\A i, j \in DOMAIN ipc :
                i # j /\ ipc[i].socket \in Socket => ipc[i].socket # ipc[j].socket)
            => /\ \A i, j \in DOMAIN ipc' :
                     i # j /\ ipc'[i].socket \in Socket => ipc'[i].socket # ipc'[j].socket
               /\ \A s \in Socket : s = Head(ipc).socket => ~InIpc(s)'
  <1>1. PICK l \in Nat : /\ l >= 1 /\ DOMAIN ipc = 1 .. l /\ ipc' \in Seq(Message)
                         /\ DOMAIN ipc' = 1 .. l - 1
                         /\ \A k \in 1 .. l - 1 : ipc'[k] = ipc[k + 1]
                         /\ Head(ipc) \in Message /\ Head(ipc) = ipc[1]
    BY Removed
  <1>2. /\ 1 \in 1 .. l
        /\ \A k \in 1 .. l - 1 : k + 1 \in 1 .. l /\ k + 1 # 1
        /\ \A k, j \in 1 .. l - 1 : k # j => k + 1 # j + 1
    BY <1>1
  <1>3. InIpc(Head(ipc).socket)
    BY <1>1, <1>2 DEF InIpc
  <1>4. \A s : InIpc(s)' => InIpc(s)
    BY <1>1, <1>2 DEF InIpc
  <1>5. ASSUME \A i, j \in DOMAIN ipc :
                  i # j /\ ipc[i].socket \in Socket => ipc[i].socket # ipc[j].socket
        PROVE  /\ \A i, j \in DOMAIN ipc' :
                     i # j /\ ipc'[i].socket \in Socket => ipc'[i].socket # ipc'[j].socket
               /\ \A s \in Socket : s = Head(ipc).socket => ~InIpc(s)'
    <2>1. \A i, j \in DOMAIN ipc' :
             i # j /\ ipc'[i].socket \in Socket => ipc'[i].socket # ipc'[j].socket
      BY <1>1, <1>2, <1>5
    <2>2. ASSUME NEW s \in Socket, s = Head(ipc).socket, NEW i \in DOMAIN ipc',
                 ipc'[i].socket = s
          PROVE  FALSE
      BY <1>1, <1>2, <1>5, <2>2
    <2> QED BY <2>1, <2>2 DEF InIpc
  <1> QED BY <1>1, <1>3, <1>4, <1>5

-----------------------------------------------------------------------------
(* Steps that put no socket on its way.                                    *)

LEMMA Steady ==
  ASSUME TypeOK, Requests, Talk,
         client'.socket = client.socket,
         \A s \in Socket : OnItsWay(s)' => OnItsWay(s),
         \A s \in Socket :
            /\ RequestFirst(up'[s])
            /\ Has(up', s, "connectionType") => Has(up, s, "connectionType")
            /\ s > client.socket => up'[s] = up[s] /\ down'[s] = down[s]
            /\ Has(up', s, "data") => Has(up, s, "data") \/ Handed(s)
            /\ Has(down', s, "resume") => Has(down, s, "resume") \/ Handed(s)',
         client'.at = "connected" /\ ~client'.paused => Handed(client.socket),
         client'.at = "handshake" =>
            client'.paused \/ Handed(client.socket) \/ PauseFirst(down'[client.socket])
  PROVE  Requests' /\ Talk'
  <1>1. \A s \in Socket : Handed(s) => Handed(s)'
    BY DEF Handed, Has
  <1>2. client.socket \in Socket
    BY DEF TypeOK, Client
  <1>3. Requests'
    <2> SUFFICES ASSUME NEW s \in Socket
                 PROVE  /\ RequestFirst(up'[s])
                        /\ Has(up', s, "connectionType") => ~OnItsWay(s)'
                        /\ s > client'.socket =>
                              up'[s] = <<>> /\ down'[s] = <<>> /\ ~OnItsWay(s)'
      BY DEF Requests, Has
    <2> QED BY DEF Requests
  <1>4. Talk'
    <2>1. ASSUME NEW s \in Socket, Has(up', s, "data") \/ Has(down', s, "resume")
          PROVE  Handed(s)'
      BY <1>1, <2>1 DEF Talk
    <2>2. client'.at = "connected" /\ ~client'.paused => Handed(client.socket)'
      <3> SUFFICES ASSUME Handed(client.socket) PROVE Handed(client.socket)'
        OBVIOUS
      <3>1. \A s \in Socket : s = client'.socket /\ Handed(s) => Handed(s)'
        BY <1>1
      <3>2. \A s \in Socket : s = client'.socket /\ Handed(s)' => Handed(client.socket)'
        BY DEF Handed, OnItsWay, Has
      <3> QED BY <1>2, <3>1, <3>2
    <2>3. client'.at = "handshake" =>
             client'.paused \/ Handed(client.socket)' \/ PauseFirst(down'[client'.socket])
      <3>1. \A s \in Socket : s = client'.socket /\ Handed(s) => Handed(s)'
        BY <1>1
      <3>2. \A s \in Socket : s = client'.socket /\ Handed(s)' => Handed(client.socket)'
        BY DEF Handed, OnItsWay, Has
      <3> QED BY <1>2, <3>1, <3>2
    <2> QED BY <2>1, <2>2, <2>3 DEF Talk, Has
  <1> QED BY <1>3, <1>4

LEMMA IpcType == ipc' \in Seq(Message) => ipc' \in Seq(IpcMessage)
  <1> SUFFICES ASSUME NEW s \in Seq(Message) PROVE s \in Seq(IpcMessage)
    OBVIOUS
  <1>1. PICK n \in Nat : s \in [1 .. n -> Message]
    BY SeqDef
  <1>2. s \in [1 .. n -> IpcMessage]
    BY <1>1 DEF Message
  <1> QED BY <1>2, SeqDef

LEMMA Elsewhere ==
  ASSUME Places, UNCHANGED <<server, ipc>>
  PROVE  Places' /\ \A s : OnItsWay(s)' = OnItsWay(s)
  BY DEF Places, InIpc, OnItsWay

(* A step of the client or of the network.                                 *)
LEMMA Outside ==
  ASSUME IInv, UNCHANGED <<server, process, ipc>>,
         client' \in Client, client'.socket = client.socket, closed' \subseteq Socket,
         up' \in [Socket -> Seq(UpType)], down' \in [Socket -> Seq(DownType)],
         \A s \in Socket :
            /\ RequestFirst(up'[s])
            /\ Has(up', s, "connectionType") => Has(up, s, "connectionType")
            /\ s > client.socket => up'[s] = up[s] /\ down'[s] = down[s]
            /\ Has(up', s, "data") => Has(up, s, "data") \/ Handed(s)
            /\ Has(down', s, "resume") => Has(down, s, "resume")
            /\ Has(down', s, "error") => Has(down, s, "error"),
         client'.at = "connected" /\ ~client'.paused => Handed(client.socket),
         client'.at = "handshake" =>
            client'.paused \/ Handed(client.socket) \/ PauseFirst(down'[client.socket]),
         client'.at = "failed" => process.at = "exited"
  PROVE  IInv'
  <1>0. TypeOK /\ Places /\ Requests /\ Talk /\ Over /\ Phases /\ GraceRunsIffLost
    BY DEF IInv
  <1>1. Places' /\ \A s \in Socket : OnItsWay(s)' => OnItsWay(s)
    BY <1>0, Elsewhere
  <1>2. TypeOK'
    BY <1>0 DEF TypeOK
  <1>3. Requests' /\ Talk'
    BY <1>0, <1>1, Steady
  <1>4. Over'
    <2>1. ~server'.open \/ client'.at = "failed" => process'.at = "exited"
      BY <1>0 DEF Over
    <2>2. \A s \in Socket : Has(down', s, "error") => process'.at = "exited"
      BY <1>0 DEF Over
    <2> QED BY <1>0, <2>1, <2>2 DEF Over, Has
  <1>5. GraceRunsIffLost' /\ Phases'
    BY <1>0 DEF GraceRunsIffLost, Phases
  <1> QED BY <1>1, <1>2, <1>3, <1>4, <1>5 DEF IInv

LEMMA Constants ==
  /\ {"connectionType", "data", "disconnect"} \subseteq UpType
  /\ {"pause", "ok", "error", "resume", "ack"} \subseteq DownType
  /\ "data" # "connectionType" /\ "disconnect" # "connectionType" /\ "disconnect" # "data"
  /\ NoSocket \notin Socket
  BY DEF UpType, DownType, NoSocket, Socket

-----------------------------------------------------------------------------
(* The client.                                                             *)

(* What the client writes, over a socket that has arrived.                 *)
LEMMA SendUp ==
  ASSUME TypeOK, Requests, NEW c \in Socket, ~(c > client.socket), Handed(c),
         NEW m \in {"data", "disconnect"}, up' = Send(up, c, m)
  PROVE  /\ up' \in [Socket -> Seq(UpType)]
         /\ \A s \in Socket :
               /\ RequestFirst(up'[s])
               /\ Has(up', s, "connectionType") => Has(up, s, "connectionType")
               /\ s > client.socket => up'[s] = up[s]
               /\ Has(up', s, "data") => Has(up, s, "data") \/ Handed(s)
  <1>0. /\ up \in [Socket -> Seq(UpType)] /\ \A s \in Socket : RequestFirst(up[s])
        /\ m \in UpType /\ m # "connectionType"
    BY Constants DEF TypeOK, Requests
  <1> DEFINE p == Send(up, c, m)
  <1>1. /\ p \in [Socket -> Seq(UpType)]
        /\ \A t \in Socket : t # c => p[t] = up[t]
        /\ \A t \in Socket : \A x : Has(p, t, x) => Has(up, t, x) \/ (t = c /\ x = m)
        /\ m # "connectionType" => \A t \in Socket : RequestFirst(up[t]) => RequestFirst(p[t])
    <2> DEFINE T == UpType
    <2>1. up \in [Socket -> Seq(T)] /\ m \in T
      BY <1>0
    <2> HIDE DEF T
    <2>2. /\ p \in [Socket -> Seq(T)]
          /\ \A t \in Socket : t # c => p[t] = up[t]
      BY <2>1, Send1
    <2>3. \A t \in Socket : \A x : Has(p, t, x) => Has(up, t, x) \/ (t = c /\ x = m)
      BY <2>1, Send1
    <2>4. m # "connectionType" => \A t \in Socket : RequestFirst(up[t]) => RequestFirst(p[t])
      BY <2>1, Send1
    <2> HIDE DEF p
    <2> QED BY <2>2, <2>3, <2>4 DEF T
  <1>2. up' = p
    OBVIOUS
  <1> HIDE DEF p
  <1> QED BY <1>0, <1>1, <1>2

LEMMA ClientSendsKeeps == IInv /\ ClientSends => IInv'
  <1> SUFFICES ASSUME IInv, ClientSends PROVE IInv'
    OBVIOUS
  <1> DEFINE c == client.socket
  <1>0. /\ TypeOK /\ Requests /\ Talk /\ Over /\ client \in Client /\ c \in Socket
        /\ UNCHANGED <<server, process, ipc, down, closed>>
    BY DEF IInv, TypeOK, Client, ClientSends
  <1>1. /\ client' \in Client /\ client'.socket = c /\ client'.at = client.at
        /\ client'.paused = client.paused
    BY <1>0 DEF ClientSends, Client
  <1>2. /\ up' \in [Socket -> Seq(UpType)]
        /\ \A s \in Socket :
              /\ RequestFirst(up'[s])
              /\ Has(up', s, "connectionType") => Has(up, s, "connectionType")
              /\ s > c => up'[s] = up[s]
              /\ Has(up', s, "data") => Has(up, s, "data") \/ Handed(s)
    <2>1. CASE up' = up
      BY <1>0, <2>1 DEF Requests, TypeOK
    <2>2. CASE client.at = "connected" /\ ~client.paused /\ up' = Send(up, c, "data")
      <3>1. Handed(c)
        BY <1>0, <2>2 DEF Talk
      <3>2. ~(c > c)
        BY <1>0 DEF Socket
      <3> QED BY <1>0, <2>2, <3>1, <3>2, SendUp
    <2> QED BY <2>1, <2>2 DEF ClientSends
  <1>3. down' \in [Socket -> Seq(DownType)] /\ closed' \subseteq Socket
    BY <1>0 DEF TypeOK
  <1> QED BY <1>0, <1>1, <1>2, <1>3, Outside DEF Talk, Over

LEMMA ClientReceivesKeeps == IInv /\ ClientReceives => IInv'
  <1> SUFFICES ASSUME IInv, ClientReceives PROVE IInv'
    OBVIOUS
  <1> DEFINE c == client.socket
             head == Head(down[c])
             unacknowledged == client.sent /\ ~client.acked
  <1>0. /\ TypeOK /\ Requests /\ Talk /\ Over /\ client \in Client /\ c \in Socket
        /\ up \in [Socket -> Seq(UpType)] /\ down \in [Socket -> Seq(DownType)]
        /\ closed \subseteq Socket /\ down[c] # <<>>
        /\ client.at \in {"handshake", "connected"}
        /\ \A s \in Socket : RequestFirst(up[s])
        /\ ~(c > c)
        /\ down' = Drop(down, c) /\ UNCHANGED <<server, process, ipc, closed>>
    BY DEF IInv, TypeOK, Client, ClientReceives, Requests, Socket
  <1>1. /\ down' \in [Socket -> Seq(DownType)] /\ Has(down, c, head)
        /\ \A t \in Socket : t # c => down'[t] = down[t]
        /\ \A t \in Socket : \A x : Has(down', t, x) => Has(down, t, x)
        /\ PauseFirst(down[c]) => /\ head # "ok"
                                  /\ head # "pause" => PauseFirst(down'[c])
    BY <1>0, Drop1
  <1>2. /\ client.at = "handshake" => client.paused \/ Handed(c) \/ PauseFirst(down[c])
        /\ client.at = "connected" /\ ~client.paused => Handed(c)
        /\ head = "resume" => Handed(c)
        /\ head = "error" => process.at = "exited"
    BY <1>0, <1>1 DEF Talk, Over
  <1> HIDE DEF head
  <1>3. ASSUME client' \in Client, client'.socket = c, up' = up \/ (up' = Send(up, c, "data") /\ Handed(c)),
               client'.at = "connected" /\ ~client'.paused => Handed(c),
               client'.at = "handshake" => client'.paused \/ Handed(c) \/ PauseFirst(down'[c]),
               client'.at = "failed" => process.at = "exited"
        PROVE  IInv'
    <2>1. /\ up' \in [Socket -> Seq(UpType)]
          /\ \A s \in Socket :
                /\ RequestFirst(up'[s])
                /\ Has(up', s, "connectionType") => Has(up, s, "connectionType")
                /\ s > c => up'[s] = up[s]
                /\ Has(up', s, "data") => Has(up, s, "data") \/ Handed(s)
      <3>1. CASE up' = up
        BY <1>0, <3>1
      <3>2. CASE up' = Send(up, c, "data") /\ Handed(c)
        BY <1>0, <3>2, SendUp
      <3> QED BY <1>3, <3>1, <3>2
    <2>2. \A s \in Socket : s > c => down'[s] = down[s]
      BY <1>0, <1>1
    <2> QED BY <1>0, <1>1, <1>3, <2>1, <2>2, Outside
  <1>4. CASE head = "pause" /\ client' = [client EXCEPT !.paused = TRUE] /\ UNCHANGED up
    <2>1. client' \in Client /\ client'.socket = c /\ client'.paused /\ client'.at # "failed"
      BY <1>0, <1>4 DEF Client
    <2> QED BY <1>3, <1>4, <2>1
  <1>5. CASE /\ head = "ok"
             /\ client' = [client EXCEPT !.at = "connected", !.held = client.paused /\ unacknowledged]
             /\ up' = IF unacknowledged /\ ~client.paused THEN Send(up, c, "data") ELSE up
    <2>1. (client.paused /\ unacknowledged) \in BOOLEAN
      BY <1>0 DEF Client
    <2>2. /\ client' \in Client /\ client'.socket = c /\ client'.at = "connected"
          /\ client'.paused = client.paused
      <3> HIDE DEF unacknowledged
      <3> QED BY <1>0, <1>5, <2>1 DEF Client
    <2>3. ~client.paused => Handed(c)
      BY <1>0, <1>1, <1>2, <1>5
    <2>4. up' = up \/ (up' = Send(up, c, "data") /\ Handed(c))
      BY <1>5, <2>3
    <2> QED BY <1>3, <2>2, <2>3, <2>4
  <1>6. CASE head = "error" /\ client' = [client EXCEPT !.at = "failed"] /\ UNCHANGED up
    <2>1. client' \in Client /\ client'.socket = c /\ client'.at = "failed"
      BY <1>0, <1>6 DEF Client
    <2> QED BY <1>2, <1>3, <1>6, <2>1
  <1>7. CASE /\ head = "resume"
             /\ client' = [client EXCEPT !.paused = FALSE, !.held = FALSE]
             /\ up' = IF client.held THEN Send(up, c, "data") ELSE up
    <2>1. client' \in Client /\ client'.socket = c /\ client'.at # "failed"
      BY <1>0, <1>7 DEF Client
    <2> QED BY <1>2, <1>3, <1>7, <2>1
  <1>8. CASE head = "ack" /\ client' = [client EXCEPT !.acked = TRUE] /\ UNCHANGED up
    <2>1. /\ client' \in Client /\ client'.socket = c /\ client'.at = client.at
          /\ client'.paused = client.paused
      BY <1>0, <1>8 DEF Client
    <2>2. client'.at = "handshake" => client'.paused \/ Handed(c) \/ PauseFirst(down'[c])
      BY <1>1, <1>2, <1>8, <2>1
    <2> QED BY <1>0, <1>2, <1>3, <1>8, <2>1, <2>2
  <1> QED BY <1>4, <1>5, <1>6, <1>7, <1>8 DEF ClientReceives, head


LEMMA ClientLosesKeeps == IInv /\ (ClientSeesClose \/ ClientTimesOut) => IInv'
  <1> SUFFICES ASSUME IInv, ClientSeesClose \/ ClientTimesOut PROVE IInv'
    OBVIOUS
  <1>1. /\ TypeOK /\ Requests /\ client \in Client
        /\ client' = [client EXCEPT !.at = "lost"]
        /\ UNCHANGED <<server, process, ipc, up, down, closed>>
    BY DEF IInv, TypeOK, ClientSeesClose, ClientTimesOut
  <1>2. client' \in Client /\ client'.socket = client.socket /\ client'.at = "lost"
    BY <1>1 DEF Client
  <1>3. /\ up' \in [Socket -> Seq(UpType)] /\ down' \in [Socket -> Seq(DownType)]
        /\ closed' \subseteq Socket
    BY <1>1 DEF TypeOK
  <1>4. \A s \in Socket : RequestFirst(up'[s])
    BY <1>1 DEF Requests
  <1> QED BY <1>1, <1>2, <1>3, <1>4, Outside

LEMMA LeaveKeeps == IInv /\ Leave => IInv'
  <1> SUFFICES ASSUME IInv, Leave PROVE IInv'
    OBVIOUS
  <1> DEFINE c == client.socket
  <1>0. /\ TypeOK /\ Requests /\ Talk /\ client \in Client /\ c \in Socket /\ ~(c > c)
        /\ client' = [client EXCEPT !.at = "gone"] /\ closed' = closed \cup {c}
        /\ UNCHANGED <<server, process, ipc, down>>
    BY DEF IInv, TypeOK, Client, Leave, Socket
  <1>1. client' \in Client /\ client'.socket = c /\ client'.at = "gone"
    BY <1>0 DEF Client
  <1>2. /\ up' \in [Socket -> Seq(UpType)]
        /\ \A s \in Socket :
              /\ RequestFirst(up'[s])
              /\ Has(up', s, "connectionType") => Has(up, s, "connectionType")
              /\ s > c => up'[s] = up[s]
              /\ Has(up', s, "data") => Has(up, s, "data") \/ Handed(s)
    <2>1. CASE up' = up
      BY <1>0, <2>1 DEF Requests, TypeOK
    <2>2. CASE client.at = "connected" /\ ~client.paused /\ up' = Send(up, c, "disconnect")
      <3>1. Handed(c)
        BY <1>0, <2>2 DEF Talk
      <3> QED BY <1>0, <2>2, <3>1, SendUp
    <2> QED BY <2>1, <2>2 DEF Leave
  <1>3. down' \in [Socket -> Seq(DownType)] /\ closed' \subseteq Socket
    BY <1>0 DEF TypeOK
  <1> QED BY <1>0, <1>1, <1>2, <1>3, Outside

LEMMA CloseSocketKeeps ==
  ASSUME IInv, NEW s \in Socket, CloseSocket(s)
  PROVE  IInv'
  <1>0. /\ TypeOK /\ Requests /\ Talk /\ Over /\ client \in Client /\ client.socket \in Socket
        /\ UNCHANGED <<client, server, process, ipc>> /\ closed' = closed \cup {s}
    BY DEF IInv, TypeOK, Client, CloseSocket
  <1>1. DOMAIN <<>> = {} /\ <<>> \in Seq(UpType) /\ <<>> \in Seq(DownType)
    BY EmptySeq
  <1>2. /\ up' \in [Socket -> Seq(UpType)] /\ down' \in [Socket -> Seq(DownType)]
        /\ \A t \in Socket : /\ up'[t] = up[t] \/ up'[t] = <<>>
                             /\ down'[t] = down[t] \/ down'[t] = <<>>
    BY <1>0, <1>1 DEF TypeOK, CloseSocket
  <1>3. \A t \in Socket :
           /\ RequestFirst(up'[t])
           /\ Has(up', t, "connectionType") => Has(up, t, "connectionType")
           /\ t > client.socket => up'[t] = up[t] /\ down'[t] = down[t]
           /\ Has(up', t, "data") => Has(up, t, "data")
           /\ Has(down', t, "resume") => Has(down, t, "resume")
           /\ Has(down', t, "error") => Has(down, t, "error")
           /\ PauseFirst(down[t]) => PauseFirst(down'[t])
    BY <1>0, <1>1, <1>2 DEF Requests, RequestFirst, PauseFirst, Has
  <1>4. closed' \subseteq Socket
    BY <1>0 DEF TypeOK
  <1> QED BY <1>0, <1>2, <1>3, <1>4, Outside DEF Talk, Over

(* A new socket: nothing is known of it yet.                               *)
LEMMA ReconnectKeeps == IInv /\ Reconnect => IInv'
  <1> SUFFICES ASSUME IInv, Reconnect PROVE IInv'
    OBVIOUS
  <1> DEFINE c == client.socket
             n == c + 1
             request == <<"connectionType">>
  <1>0. /\ TypeOK /\ Places /\ Requests /\ Talk /\ Over /\ Phases /\ GraceRunsIffLost
        /\ client \in Client /\ c \in Socket /\ c < MaxSocket /\ client.at = "lost"
        /\ UNCHANGED <<server, process, ipc>>
    BY DEF IInv, TypeOK, Client, Reconnect
  <1>1. /\ n \in Socket /\ n > c
        /\ \A s \in Socket : s > n => s > c /\ s # n
        /\ \A s \in Socket : s # n => (s > n => s > c)
    BY <1>0, SocketAssumption DEF Socket
  <1>2. /\ client' \in Client /\ client'.socket = n /\ client'.at = "handshake"
    BY <1>0, <1>1 DEF Client, Reconnect
  <1>3. /\ request \in Seq(UpType) /\ DOMAIN request = {1} /\ request[1] = "connectionType"
        /\ <<>> \in Seq(DownType) /\ DOMAIN <<>> = {}
    BY DEF UpType
  <1>4. /\ up' \in [Socket -> Seq(UpType)] /\ down' \in [Socket -> Seq(DownType)]
        /\ closed' \subseteq Socket
        /\ up'[n] = request /\ down'[n] = <<>> /\ down[n] = <<>> /\ ~OnItsWay(n)
        /\ \A s \in Socket : s # n => up'[s] = up[s]
        /\ \A s \in Socket : down'[s] = down[s] \/ down'[s] = <<>>
    <2> HIDE DEF request
    <2>1. down[n] = <<>> /\ ~OnItsWay(n)
      BY <1>0, <1>1 DEF Requests
    <2>2. n # c
      BY <1>1, <1>0 DEF Socket
    <2>3. up' = [up EXCEPT ![n] = request]
      BY DEF Reconnect, request
    <2>4. down' = [down EXCEPT ![c] = <<>>] /\ closed' = closed \cup {c}
      BY DEF Reconnect
    <2> HIDE DEF n, c
    <2> QED BY <1>0, <1>1, <1>3, <2>1, <2>2, <2>3, <2>4 DEF TypeOK
  <1> HIDE DEF request
  <1>5. \A s \in Socket : OnItsWay(s)' = OnItsWay(s)
    BY <1>0 DEF OnItsWay
  <1>6. /\ \A s \in Socket : \A x : s # n => Has(up', s, x) = Has(up, s, x)
        /\ \A s \in Socket : \A x : Has(down', s, x) => Has(down, s, x)
        /\ ~Has(up', n, "data") /\ ~Has(down', n, "resume")
    <2> HIDE DEF n, c
    <2> QED BY <1>1, <1>3, <1>4 DEF Has
  <1>7. TypeOK'
    BY <1>0, <1>2, <1>4 DEF TypeOK
  <1>8. Requests'
    <2> SUFFICES ASSUME NEW s \in Socket
                 PROVE  /\ RequestFirst(up'[s])
                        /\ Has(up', s, "connectionType") => ~OnItsWay(s)
                        /\ s > n => up'[s] = <<>> /\ down'[s] = <<>> /\ ~OnItsWay(s)
      BY <1>2, <1>5 DEF Requests, Has
    <2>1. CASE s = n
      BY <1>0, <1>1, <1>3, <1>4, <2>1 DEF RequestFirst, Socket
    <2>2. CASE s # n
      <3> HIDE DEF n
      <3> QED BY <1>0, <1>1, <1>4, <1>6, <2>2 DEF Requests
    <2> QED BY <2>1, <2>2
  <1>9. Talk'
    <2>1. ASSUME NEW s \in Socket, Has(up', s, "data") \/ Has(down', s, "resume")
          PROVE  Handed(s)'
      <3>1. s # n
        BY <1>6, <2>1
      <3>2. Handed(s)
        BY <1>0, <1>6, <2>1, <3>1 DEF Talk
      <3>3. ~Has(up', s, "connectionType")
        BY <1>6, <3>1, <3>2 DEF Handed
      <3> QED BY <1>5, <3>2, <3>3 DEF Handed, Has
    <2>2. PauseFirst(down'[client'.socket])
      BY <1>1, <1>2, <1>3, <1>4 DEF PauseFirst
    <2> QED BY <1>2, <2>1, <2>2 DEF Talk, Has
  <1>10. Over'
    BY <1>0, <1>2, <1>6 DEF Over, Has
  <1>11. Places' /\ Phases' /\ GraceRunsIffLost'
    BY <1>0, Elsewhere DEF Phases, GraceRunsIffLost
  <1> QED BY <1>7, <1>8, <1>9, <1>10, <1>11 DEF IInv


-----------------------------------------------------------------------------
(* The server.                                                             *)

LEMMA Parts ==
  ASSUME IInv
  PROVE  /\ TypeOK /\ Places /\ Requests /\ Talk /\ Over /\ Phases /\ GraceRunsIffLost
         /\ client \in Client /\ client.socket \in Socket /\ server \in Server /\ process \in Process
         /\ up \in [Socket -> Seq(UpType)] /\ down \in [Socket -> Seq(DownType)]
         /\ closed \subseteq Socket
         /\ \A s \in Socket : RequestFirst(up[s])
  BY DEF IInv, TypeOK, Client, Requests

LEMMA ReadConnectionTypeKeeps ==
  ASSUME IInv, NEW s \in Socket, ReadConnectionType(s)
  PROVE  IInv'
  <1>0. /\ TypeOK /\ Places /\ Requests /\ Talk /\ Over /\ Phases /\ GraceRunsIffLost
        /\ client.socket \in Socket /\ server \in Server
        /\ up \in [Socket -> Seq(UpType)] /\ \A t \in Socket : RequestFirst(up[t])
    BY Parts
  <1>1. /\ up[s] # <<>> /\ Head(up[s]) = "connectionType" /\ up' = Drop(up, s)
        /\ server' = [server EXCEPT !.port = @ \cup {s}]
        /\ UNCHANGED <<client, process, ipc, down, closed>>
    BY DEF ReadConnectionType
  <1>2. /\ up' \in [Socket -> Seq(UpType)]
        /\ Has(up, s, "connectionType") /\ ~Has(up', s, "connectionType")
        /\ \A t \in Socket : RequestFirst(up'[t])
        /\ \A t \in Socket : t # s => up'[t] = up[t]
        /\ \A t \in Socket : \A x : Has(up', t, x) => Has(up, t, x)
    <2>1. /\ up \in [Socket -> Seq(UpType)] /\ up[s] # <<>> /\ up' = Drop(up, s)
          /\ Head(up[s]) = "connectionType" /\ \A t \in Socket : RequestFirst(up[t])
      BY <1>0, <1>1
    <2>2. up' \in [Socket -> Seq(UpType)] /\ \A t \in Socket : t # s => up'[t] = up[t]
      BY <2>1, Drop1
    <2>3. Has(up, s, "connectionType") /\ ~Has(up', s, "connectionType")
      BY <2>1, Drop1
    <2>4. \A t \in Socket : \A x : Has(up', t, x) => Has(up, t, x)
      BY <2>1, Drop1
    <2>5. \A t \in Socket : RequestFirst(up'[t])
      BY <2>1, Drop1
    <2> QED BY <2>2, <2>3, <2>4, <2>5
  <1>3. /\ ~OnItsWay(s) /\ ~(s > client.socket) /\ ~Has(up, s, "data")
        /\ ~Has(down, s, "resume") /\ ~Handed(s)
    BY <1>0, <1>1, <1>2 DEF Requests, Talk, Handed
  <1>4. /\ server' \in Server /\ server'.port = server.port \cup {s}
        /\ server'.open = server.open /\ server'.process = server.process
        /\ server'.first = server.first /\ server'.draining = server.draining
    BY <1>0, <1>1 DEF Server
  <1>5. \A t \in Socket : /\ OnItsWay(t)' => OnItsWay(t) \/ t = s
                          /\ t # s => (Handed(t) => Handed(t)')
    BY <1>1, <1>2, <1>4 DEF OnItsWay, Handed, Has
  <1>6. Places'
    BY <1>0, <1>1, <1>3, <1>4 DEF Places, InIpc, OnItsWay
  <1>7. TypeOK'
    BY <1>0, <1>1, <1>2, <1>4 DEF TypeOK
  <1>8. Requests'
    <2> SUFFICES ASSUME NEW t \in Socket
                 PROVE  /\ RequestFirst(up'[t])
                        /\ Has(up', t, "connectionType") => ~OnItsWay(t)'
                        /\ t > client.socket => up'[t] = <<>> /\ down[t] = <<>> /\ ~OnItsWay(t)'
      BY <1>1 DEF Requests, Has
    <2> QED BY <1>0, <1>2, <1>3, <1>5 DEF Requests
  <1>9. Talk'
    <2>1. ASSUME NEW t \in Socket, Has(up', t, "data") \/ Has(down', t, "resume")
          PROVE  Handed(t)'
      <3>1. Has(up, t, "data") \/ Has(down, t, "resume")
        BY <1>1, <1>2, <2>1
      <3>2. t # s /\ Handed(t)
        BY <1>0, <1>3, <3>1 DEF Talk
      <3> QED BY <1>5, <3>2
    <2>2. \A t \in Socket : t = client.socket /\ Handed(t) => Handed(client.socket)'
      <3> SUFFICES ASSUME NEW t \in Socket, t = client.socket, Handed(t)
                   PROVE  Handed(client.socket)'
        OBVIOUS
      <3>1. Handed(t)'
        BY <1>3, <1>5
      <3>2. t = client'.socket
        BY <1>1
      <3> QED BY <3>1, <3>2 DEF Handed, OnItsWay, Has
    <2> QED BY <1>0, <1>1, <2>1, <2>2 DEF Talk, Has
  <1>10. Over' /\ Phases' /\ GraceRunsIffLost'
    BY <1>0, <1>1, <1>4 DEF Over, Phases, GraceRunsIffLost, Has
  <1> QED BY <1>6, <1>7, <1>8, <1>9, <1>10 DEF IInv

(* What the client may be told.                                            *)
LEMMA SendDown ==
  ASSUME NEW pipe \in [Socket -> Seq(DownType)], NEW s \in Socket,
         NEW m \in {"pause", "ok", "error", "resume", "ack"}, NEW p, p = Send(pipe, s, m)
  PROVE  /\ p \in [Socket -> Seq(DownType)]
         /\ \A t \in Socket : t # s => p[t] = pipe[t]
         /\ \A t \in Socket : \A x : Has(p, t, x) => Has(pipe, t, x) \/ (t = s /\ x = m)
         /\ m # "ok" => \A t \in Socket : PauseFirst(pipe[t]) => PauseFirst(p[t])
  <1> DEFINE T == DownType
             q == Send(pipe, s, m)
  <1>1. pipe \in [Socket -> Seq(T)] /\ m \in T
    BY Constants
  <1> HIDE DEF T
  <1>2. /\ q \in [Socket -> Seq(T)]
        /\ \A t \in Socket : t # s => q[t] = pipe[t]
    BY <1>1, Send1
  <1>3. \A t \in Socket : \A x : Has(q, t, x) => Has(pipe, t, x) \/ (t = s /\ x = m)
    BY <1>1, Send1
  <1>4. m # "ok" => \A t \in Socket : PauseFirst(pipe[t]) => PauseFirst(q[t])
    BY <1>1, Send1
  <1>5. p = q
    OBVIOUS
  <1> HIDE DEF q
  <1> QED BY <1>2, <1>3, <1>4, <1>5 DEF T

(* A step of the server or of the process that puts no socket on its way   *)
(* and sends nothing but what the client may hear.                         *)
LEMMA Inside ==
  ASSUME IInv, UNCHANGED client, TypeOK', Places', Phases', GraceRunsIffLost',
         \A s \in Socket : OnItsWay(s)' => OnItsWay(s),
         \A s \in Socket :
            /\ RequestFirst(up'[s])
            /\ Has(up', s, "connectionType") => Has(up, s, "connectionType")
            /\ s > client.socket => up'[s] = up[s] /\ down'[s] = down[s]
            /\ Has(up', s, "data") => Has(up, s, "data")
            /\ Has(down', s, "resume") => Has(down, s, "resume") \/ Handed(s)'
            /\ PauseFirst(down[s]) => PauseFirst(down'[s]),
         \A s \in Socket : Has(down', s, "error") => Has(down, s, "error") \/ process.at = "exited",
         server'.open = server.open \/ process.at = "exited",
         process.at = "exited" => process'.at = "exited"
  PROVE  IInv'
  <1>0. TypeOK /\ Requests /\ Talk /\ Over /\ client.socket \in Socket
    BY Parts
  <1>1. client.at = "handshake" =>
           client.paused \/ Handed(client.socket) \/ PauseFirst(down'[client.socket])
    BY <1>0 DEF Talk
  <1>2. client.at = "connected" /\ ~client.paused => Handed(client.socket)
    BY <1>0 DEF Talk
  <1>3. Requests' /\ Talk'
    BY <1>0, <1>1, <1>2, Steady
  <1>4. Over'
    BY <1>0 DEF Over, Has
  <1> QED BY <1>3, <1>4 DEF IInv

(* A step that leaves the pipes alone.                                     *)
LEMMA InsideSilent ==
  ASSUME IInv, UNCHANGED <<client, up, down>>, TypeOK', Places', Phases', GraceRunsIffLost',
         \A s \in Socket : OnItsWay(s)' => OnItsWay(s),
         server'.open = server.open \/ process.at = "exited",
         process.at = "exited" => process'.at = "exited"
  PROVE  IInv'
  <1>1. \A s \in Socket : RequestFirst(up[s])
    BY Parts
  <1> QED BY <1>1, Inside

(* acceptReconnection: out of one place and into another.                  *)
LEMMA Accepted ==
  ASSUME IInv, NEW s \in server.port, server.open, server' = Accept(s),
         UNCHANGED <<client, process, ipc, up, closed>>,
         down' \in [Socket -> Seq(DownType)]
  PROVE  /\ TypeOK' /\ Places' /\ Phases' /\ \A t \in Socket : OnItsWay(t)' => OnItsWay(t)
         /\ server'.open = server.open
  <1>0. TypeOK /\ Places /\ Phases /\ server \in Server /\ s \in Socket /\ OnItsWay(s)
    BY Parts DEF TypeOK, Server, OnItsWay
  <1>1. CASE /\ server.process = "forked"
             /\ server' = [server EXCEPT !.port = @ \ {s}, !.draining = @ \cup {s}]
    <2>1. /\ server' \in Server /\ server'.port = server.port \ {s}
          /\ server'.draining = server.draining \cup {s} /\ server'.first = server.first
          /\ server'.open = server.open /\ server'.process = server.process
      BY ZenonT(30), <1>0, <1>1 DEF Server
    <2>2. TypeOK'
      BY <1>0, <2>1 DEF TypeOK
    <2>3. Places'
      BY <1>0, <2>1 DEF Places, InIpc
    <2>4. Phases' /\ \A t \in Socket : OnItsWay(t)' => OnItsWay(t)
      BY <1>0, <2>1 DEF Phases, OnItsWay
    <2> QED BY <2>1, <2>2, <2>3, <2>4
  <1>2. CASE /\ server.process # "forked"
             /\ server' = [server EXCEPT !.port = @ \ {s}, !.first = s]
    <2>1. /\ server' \in Server /\ server'.port = server.port \ {s}
          /\ server'.draining = server.draining /\ server'.first = s
          /\ server'.open = server.open /\ server'.process = server.process
      BY <1>0, <1>2 DEF Server
    <2>2. process.at = "none" /\ s # NoSocket
      BY <1>0, <1>2, Constants DEF Phases
    <2>3. TypeOK'
      BY <1>0, <2>1, <2>2 DEF TypeOK
    <2>4. Places'
      BY <1>0, <2>1 DEF Places, InIpc
    <2>5. Phases' /\ \A t \in Socket : OnItsWay(t)' => OnItsWay(t)
      BY <1>0, <2>1 DEF Phases, OnItsWay
    <2> QED BY <2>1, <2>3, <2>4, <2>5
  <1> QED BY <1>1, <1>2 DEF Accept

LEMMA HandOverKeeps ==
  ASSUME IInv, NEW s \in Socket, HandOver(s)
  PROVE  IInv'
  <1>0. /\ TypeOK /\ Places /\ Requests /\ Over /\ Phases /\ GraceRunsIffLost /\ server \in Server
        /\ client.socket \in Socket
        /\ down \in [Socket -> Seq(DownType)] /\ \A t \in Socket : RequestFirst(up[t])
        /\ UNCHANGED <<client, process, ipc, up, closed>> /\ s \in server.port
    BY Parts DEF HandOver
  <1>1. OnItsWay(s) /\ ~(s > client.socket) /\ \A t \in Socket : t > client.socket => t # s
    BY <1>0 DEF OnItsWay, Requests
  <1>5. down \in [Socket -> Seq(DownType)]
    BY <1>0
  <1>2. GraceRunsIffLost'
    BY <1>0 DEF GraceRunsIffLost
  <1>3. CASE server.open
    <2>0. PICK p : p = Send(down, s, "pause")
      OBVIOUS
    <2>1. down' = Send(p, s, "ok") /\ server' = Accept(s)
      BY <1>3, <2>0 DEF HandOver
    <2>2. \A t \in Socket : PauseFirst(down[t]) => PauseFirst(down'[t])
      BY <1>0, <2>0, <2>1, SendPauseOk
    <2>3. /\ p \in [Socket -> Seq(DownType)]
          /\ \A t \in Socket : t # s => p[t] = down[t]
          /\ \A t \in Socket : \A x : Has(p, t, x) => Has(down, t, x) \/ x = "pause"
      <3>1. s \in Socket /\ "pause" \in {"pause", "ok", "error", "resume", "ack"}
        OBVIOUS
      <3>2. p \in [Socket -> Seq(DownType)]
        BY <1>5, <2>0, <3>1, SendDown
      <3>3. \A t \in Socket : t # s => p[t] = down[t]
        BY <1>5, <2>0, <3>1, SendDown
      <3>4. \A t \in Socket : \A x : Has(p, t, x) => Has(down, t, x) \/ x = "pause"
        BY <1>5, <2>0, <3>1, SendDown
      <3> QED BY <3>2, <3>3, <3>4
    <2>4. /\ down' \in [Socket -> Seq(DownType)]
          /\ \A t \in Socket : t # s => down'[t] = p[t]
          /\ \A t \in Socket : \A x : Has(down', t, x) => Has(p, t, x) \/ x = "ok"
      BY <2>1, <2>3, SendDown
    <2>5. \A t \in Socket : /\ t > client.socket => down'[t] = down[t]
                            /\ Has(down', t, "resume") => Has(down, t, "resume")
                            /\ Has(down', t, "error") => Has(down, t, "error")
      BY <1>1, <2>3, <2>4
    <2>6. /\ TypeOK' /\ Places' /\ Phases' /\ \A t \in Socket : OnItsWay(t)' => OnItsWay(t)
          /\ server'.open = server.open
      BY <1>0, <1>3, <2>1, <2>4, Accepted
    <2> QED BY <1>0, <1>2, <2>2, <2>5, <2>6, Inside
  <1>4. CASE ~server.open
    <2>0. PICK p : p = Send(down, s, "error")
      OBVIOUS
    <2>1. down' = p /\ server' = [server EXCEPT !.port = @ \ {s}]
      BY <1>4, <2>0 DEF HandOver
    <2>2. /\ p \in [Socket -> Seq(DownType)]
          /\ \A t \in Socket : t # s => p[t] = down[t]
          /\ \A t \in Socket : \A x : Has(p, t, x) => Has(down, t, x) \/ x = "error"
          /\ \A t \in Socket : PauseFirst(down[t]) => PauseFirst(p[t])
      <3>1. s \in Socket /\ "error" \in {"pause", "ok", "error", "resume", "ack"}
        OBVIOUS
      <3>2. p \in [Socket -> Seq(DownType)]
        BY <1>5, <2>0, <3>1, SendDown
      <3>3. \A t \in Socket : t # s => p[t] = down[t]
        BY <1>5, <2>0, <3>1, SendDown
      <3>4. \A t \in Socket : \A x : Has(p, t, x) => Has(down, t, x) \/ x = "error"
        BY <1>5, <2>0, <3>1, SendDown
      <3>5. \A t \in Socket : PauseFirst(down[t]) => PauseFirst(p[t])
        BY <1>5, <2>0, <3>1, SendDown
      <3> QED BY <3>2, <3>3, <3>4, <3>5
    <2>3. process.at = "exited"
      BY <1>0, <1>4 DEF Over
    <2>4. /\ server' \in Server /\ server'.port = server.port \ {s}
          /\ server'.draining = server.draining /\ server'.first = server.first
          /\ server'.open = server.open /\ server'.process = server.process
      BY <1>0, <2>1 DEF Server
    <2>5. TypeOK' /\ Places'
      BY <1>0, <2>1, <2>2, <2>4 DEF TypeOK, Places, InIpc
    <2>6. Phases' /\ \A t \in Socket : OnItsWay(t)' => OnItsWay(t)
      BY <1>0, <2>4 DEF Phases, OnItsWay
    <2>7. \A t \in Socket : /\ t > client.socket => down'[t] = down[t]
                            /\ Has(down', t, "resume") => Has(down, t, "resume")
                            /\ PauseFirst(down[t]) => PauseFirst(down'[t])
      BY <1>1, <2>1, <2>2
    <2> QED BY <1>0, <1>2, <2>3, <2>4, <2>5, <2>6, <2>7, Inside
  <1> QED BY <1>3, <1>4


LEMMA SendSocketKeeps ==
  ASSUME IInv, NEW s \in Socket, SendSocket(s)
  PROVE  IInv'
  <1>0. /\ TypeOK /\ Places /\ Over /\ Phases /\ GraceRunsIffLost /\ server \in Server
        /\ s \in server.draining /\ server' = [server EXCEPT !.draining = @ \ {s}]
        /\ UNCHANGED <<client, process, up, down, closed>>
    BY Parts DEF SendSocket
  <1>1. /\ server' \in Server /\ server'.port = server.port
        /\ server'.draining = server.draining \ {s} /\ server'.first = server.first
        /\ server'.open = server.open /\ server'.process = server.process
    BY <1>0 DEF Server
  <1>2. s \notin server.port /\ s # server.first /\ ~InIpc(s)
    BY <1>0 DEF Places
  <1>3. /\ ipc' \in Seq(Message) /\ \A t : InIpc(t)' => InIpc(t) \/ t = s
        /\ \A i, j \in DOMAIN ipc' :
              i # j /\ ipc'[i].socket \in Socket => ipc'[i].socket # ipc'[j].socket
    <2>1. CASE ipc' = ipc
      BY <1>0, <2>1 DEF Places, InIpc
    <2>2. ASSUME NEW handle \in BOOLEAN, ipc' = Append(ipc, [socket |-> s, handle |-> handle])
          PROVE  <1>3!:
      <3> DEFINE m == [socket |-> s, handle |-> handle]
      <3>1. m \in Message /\ m.socket = s
        BY DEF Message, IpcMessage
      <3>2. /\ ipc \in Seq(Message)
            /\ \A i, j \in DOMAIN ipc :
                  i # j /\ ipc[i].socket \in Socket => ipc[i].socket # ipc[j].socket
        BY <1>0 DEF Places
      <3> HIDE DEF m
      <3> QED BY <1>2, <2>2, <3>1, <3>2, IpcAppend DEF m
    <2> QED BY <2>1, <2>2 DEF SendSocket
  <1>4. TypeOK'
    BY <1>0, <1>1, <1>3, IpcType DEF TypeOK
  <1>5. Places'
    BY <1>0, <1>1, <1>2, <1>3 DEF Places
  <1>6. Phases' /\ GraceRunsIffLost'
    BY <1>0, <1>1 DEF Phases, GraceRunsIffLost
  <1>7. \A t \in Socket : OnItsWay(t)' => OnItsWay(t)
    BY <1>0, <1>1, <1>3 DEF OnItsWay, InIpc
  <1> QED BY <1>0, <1>1, <1>4, <1>5, <1>6, <1>7, InsideSilent

LEMMA StartKeeps == IInv /\ (Fork \/ StartFails) => IInv'
  <1> SUFFICES ASSUME IInv, Fork \/ StartFails PROVE IInv'
    OBVIOUS
  <1>0. /\ TypeOK /\ Places /\ Over /\ Phases /\ GraceRunsIffLost
        /\ server \in Server /\ process \in Process
        /\ server.process = "starting" /\ UNCHANGED <<client, ipc, up, down, closed>>
    BY Parts DEF Fork, StartFails
  <1>1. PICK phase \in {"failed", "forked"} :
           /\ server' = [server EXCEPT !.process = phase]
           /\ process' = IF phase = "forked" THEN [process EXCEPT !.at = "loading"] ELSE process
    BY DEF Fork, StartFails
  <1>2. /\ server' \in Server /\ server'.port = server.port
        /\ server'.draining = server.draining /\ server'.first = server.first
        /\ server'.open = server.open /\ server'.process = phase
    BY <1>0, <1>1 DEF Server
  <1>3. /\ process.at = "none" /\ server.open /\ ~process.ready
        /\ ~process.runner1 /\ ~process.runner2
    BY <1>0 DEF Phases, Over
  <1>4. /\ process' \in Process /\ process'.ready = process.ready
        /\ process'.runner1 = process.runner1 /\ process'.runner2 = process.runner2
        /\ process'.at = IF phase = "forked" THEN "loading" ELSE "none"
    BY <1>0, <1>1, <1>3 DEF Process
  <1>5. TypeOK'
    BY <1>0, <1>2, <1>3, <1>4 DEF TypeOK
  <1>6. Places' /\ \A t \in Socket : OnItsWay(t)' => OnItsWay(t)
    BY <1>0, <1>2 DEF Places, InIpc, OnItsWay
  <1>7. Phases' /\ GraceRunsIffLost'
    BY <1>0, <1>2, <1>3, <1>4 DEF Phases, GraceRunsIffLost
  <1> QED BY <1>0, <1>2, <1>3, <1>5, <1>6, <1>7, InsideSilent

LEMMA ReceiveReadyKeeps == IInv /\ ReceiveReady => IInv'
  <1> SUFFICES ASSUME IInv, ReceiveReady PROVE IInv'
    OBVIOUS
  <1>0. /\ TypeOK /\ Places /\ Over /\ Phases /\ GraceRunsIffLost
        /\ server \in Server /\ process \in Process
        /\ process.ready /\ server.open /\ UNCHANGED <<client, ipc, up, down, closed>>
    BY Parts DEF ReceiveReady
  <1>1. server.first \in Socket /\ process.at \in {"waiting", "connected"}
    BY <1>0 DEF TypeOK, Server, Phases
  <1>2. /\ server' \in Server /\ server'.port = server.port /\ server'.first = NoSocket
        /\ server'.draining = server.draining \cup {server.first}
        /\ server'.open = server.open /\ server'.process = server.process
    BY <1>0, <1>1 DEF Server, ReceiveReady
  <1>3. /\ process' \in Process /\ process'.ready = FALSE /\ process'.at = process.at
        /\ process'.runner1 = process.runner1 /\ process'.runner2 = process.runner2
        /\ process'.socket = process.socket /\ process'.lost = process.lost
    BY <1>0 DEF Process, ReceiveReady
  <1>4. TypeOK'
    BY <1>0, <1>1, <1>2, <1>3 DEF TypeOK
  <1>5. NoSocket \notin server.port \cup server.draining /\ NoSocket # server.first
    BY <1>0, <1>1, Constants DEF Server
  <1>6. Places' /\ \A t \in Socket : OnItsWay(t)' => OnItsWay(t)
    BY <1>0, <1>2, <1>5, Constants DEF Places, InIpc, OnItsWay
  <1>7. Phases' /\ GraceRunsIffLost'
    BY <1>0, <1>2, <1>3 DEF Phases, GraceRunsIffLost
  <1> QED BY <1>0, <1>2, <1>3, <1>4, <1>6, <1>7, InsideSilent

LEMMA OtherClientConnectsKeeps == IInv /\ OtherClientConnects => IInv'
  <1> SUFFICES ASSUME IInv, OtherClientConnects PROVE IInv'
    OBVIOUS
  <1>0. /\ TypeOK /\ Places /\ Phases /\ GraceRunsIffLost
        /\ ipc' = Append(ipc, Reduce) /\ UNCHANGED <<client, server, process, up, down, closed>>
    BY Parts DEF OtherClientConnects
  <1>1. Reduce \in Message /\ Reduce.socket = NoSocket /\ NoSocket \notin Socket
    BY Constants DEF Reduce, Message, IpcMessage
  <1>2. ipc \in Seq(Message) /\ \A i, j \in DOMAIN ipc :
           i # j /\ ipc[i].socket \in Socket => ipc[i].socket # ipc[j].socket
    BY <1>0 DEF Places
  <1>3. /\ ipc' \in Seq(Message) /\ \A t : InIpc(t)' => InIpc(t) \/ t = NoSocket
        /\ \A i, j \in DOMAIN ipc' :
              i # j /\ ipc'[i].socket \in Socket => ipc'[i].socket # ipc'[j].socket
    BY <1>0, <1>1, <1>2, IpcAppend
  <1>4. TypeOK'
    BY <1>0, <1>3, IpcType DEF TypeOK
  <1>5. Places' /\ \A t \in Socket : OnItsWay(t)' => OnItsWay(t)
    BY <1>0, <1>1, <1>3 DEF Places, OnItsWay, InIpc
  <1>6. Phases' /\ GraceRunsIffLost'
    BY <1>0 DEF Phases, GraceRunsIffLost
  <1> QED BY <1>0, <1>4, <1>5, <1>6, InsideSilent

LEMMA ProcessExitSeenKeeps == IInv /\ ProcessExitSeen => IInv'
  <1> SUFFICES ASSUME IInv, ProcessExitSeen PROVE IInv'
    OBVIOUS
  <1>0. /\ TypeOK /\ Places /\ Phases /\ GraceRunsIffLost /\ server \in Server
        /\ process.at = "exited" /\ UNCHANGED <<client, process, ipc, up, down>>
        /\ closed' = closed \cup ({server.first} \ {NoSocket})
    BY Parts DEF ProcessExitSeen
  <1>1. /\ server' \in Server /\ server'.port = server.port /\ server'.first = NoSocket
        /\ server'.draining = server.draining /\ server'.process = server.process
    BY <1>0 DEF Server, ProcessExitSeen
  <1>2. TypeOK'
    BY <1>0, <1>1 DEF TypeOK, Server
  <1>3. NoSocket \notin server.port \cup server.draining
    BY <1>0, Constants DEF Server
  <1>4. Places' /\ \A t \in Socket : OnItsWay(t)' => OnItsWay(t)
    BY <1>0, <1>1, <1>3, Constants DEF Places, InIpc, OnItsWay
  <1>5. Phases' /\ GraceRunsIffLost'
    BY <1>0, <1>1 DEF Phases, GraceRunsIffLost
  <1> QED BY <1>0, <1>2, <1>4, <1>5, InsideSilent


-----------------------------------------------------------------------------
(* The process.                                                            *)

LEMMA ReadyKeeps == IInv /\ Ready => IInv'
  <1> SUFFICES ASSUME IInv, Ready PROVE IInv'
    OBVIOUS
  <1>0. /\ TypeOK /\ Places /\ Phases /\ process \in Process /\ process.at = "loading"
        /\ UNCHANGED <<client, server, ipc, up, down, closed>>
    BY Parts DEF Ready
  <1>1. /\ process' \in Process /\ process'.ready = TRUE /\ process'.at = "waiting"
        /\ process'.runner1 = process.runner1 /\ process'.runner2 = process.runner2
    BY <1>0 DEF Process, Ready
  <1>2. TypeOK'
    BY <1>0, <1>1 DEF TypeOK
  <1>3. Places' /\ \A t \in Socket : OnItsWay(t)' => OnItsWay(t)
    BY <1>0, Elsewhere
  <1>4. Phases' /\ GraceRunsIffLost'
    BY <1>0, <1>1 DEF Phases, GraceRunsIffLost
  <1> QED BY <1>0, <1>2, <1>3, <1>4, InsideSilent

LEMMA SocketClosedKeeps == IInv /\ SocketClosed => IInv'
  <1> SUFFICES ASSUME IInv, SocketClosed PROVE IInv'
    OBVIOUS
  <1>0. /\ TypeOK /\ Places /\ Phases /\ process \in Process /\ process.at = "connected"
        /\ UNCHANGED <<client, server, ipc, up, down, closed>>
    BY Parts DEF SocketClosed
  <1>1. /\ process' \in Process /\ process'.ready = process.ready /\ process'.at = process.at
        /\ process'.runner1 /\ process'.lost /\ process'.socket = process.socket
    BY <1>0 DEF Process, SocketClosed
  <1>2. TypeOK'
    BY <1>0, <1>1 DEF TypeOK
  <1>3. Places' /\ \A t \in Socket : OnItsWay(t)' => OnItsWay(t)
    BY <1>0, Elsewhere
  <1>4. Phases' /\ GraceRunsIffLost'
    BY <1>0, <1>1 DEF Phases, GraceRunsIffLost
  <1> QED BY <1>0, <1>2, <1>3, <1>4, InsideSilent

LEMMA ExitKeeps ==
  IInv /\ Exit /\ process.at \in {"loading", "waiting", "connected"} => IInv'
  <1> SUFFICES ASSUME IInv, Exit, process.at \in {"loading", "waiting", "connected"}
               PROVE  IInv'
    OBVIOUS
  <1>0. /\ TypeOK /\ Places /\ Phases /\ process \in Process /\ closed \subseteq Socket
        /\ closed' = closed \cup ({process.socket} \ {NoSocket})
        /\ UNCHANGED <<client, server, ipc, up, down>>
    BY Parts DEF Exit
  <1>1. /\ process' \in Process /\ process'.ready = FALSE /\ process'.at = "exited"
        /\ process'.runner1 = FALSE /\ process'.runner2 = FALSE
    BY <1>0 DEF Process, Exit
  <1>2. closed' \subseteq Socket
    BY <1>0 DEF Process
  <1>3. TypeOK'
    BY <1>0, <1>1, <1>2 DEF TypeOK
  <1>4. Places' /\ \A t \in Socket : OnItsWay(t)' => OnItsWay(t)
    BY <1>0, Elsewhere
  <1>5. Phases' /\ GraceRunsIffLost'
    BY <1>0, <1>1 DEF Phases, GraceRunsIffLost
  <1> QED BY <1>0, <1>1, <1>3, <1>4, <1>5, InsideSilent

LEMMA EndsKeep == IInv /\ (SocketTimeout \/ GraceExpires \/ ExitsByItself) => IInv'
  <1> SUFFICES ASSUME IInv, SocketTimeout \/ GraceExpires \/ ExitsByItself PROVE IInv'
    OBVIOUS
  <1>1. Exit /\ process.at \in {"loading", "waiting", "connected"}
    BY Parts DEF SocketTimeout, GraceExpires, ExitsByItself, Phases
  <1> QED BY <1>1, ExitKeeps

LEMMA ProcessReceivesKeeps == IInv /\ ProcessReceives => IInv'
  <1> SUFFICES ASSUME IInv, ProcessReceives PROVE IInv'
    OBVIOUS
  <1> DEFINE s == process.socket
  <1>1. CASE Exit
    BY <1>1, ExitKeeps DEF ProcessReceives
  <1>2. CASE /\ process' = [process EXCEPT !.delivered = TRUE]
             /\ up' = Drop(up, s)
             /\ down' = Send(down, s, "ack")
             /\ UNCHANGED <<client, server, ipc, closed>>
    <2>0. /\ TypeOK /\ Places /\ Requests /\ Phases /\ GraceRunsIffLost /\ process \in Process
          /\ up \in [Socket -> Seq(UpType)] /\ down \in [Socket -> Seq(DownType)]
          /\ \A t \in Socket : RequestFirst(up[t])
          /\ process.at = "connected" /\ up[s] # <<>> /\ s \in Socket
      BY Parts DEF ProcessReceives, Phases
    <2>1. /\ process' \in Process /\ process'.ready = process.ready /\ process'.at = process.at
          /\ process'.runner1 = process.runner1 /\ process'.runner2 = process.runner2
          /\ process'.socket = process.socket /\ process'.lost = process.lost
      BY <1>2, <2>0 DEF Process
    <2>2. \A t \in Socket : t > client.socket => t # s
      BY <2>0 DEF Requests
    <2>3. PICK k \in Socket : k = s
      BY <2>0
    <2>4. /\ up' \in [Socket -> Seq(UpType)]
          /\ \A t \in Socket : t # k => up'[t] = up[t]
          /\ \A t \in Socket : \A x : Has(up', t, x) => Has(up, t, x)
          /\ \A t \in Socket : RequestFirst(up'[t])
      <3>1. up[k] # <<>> /\ up' = Drop(up, k)
        BY <1>2, <2>0, <2>3
      <3> HIDE DEF s
      <3> QED BY <2>0, <3>1, Drop1
    <2>5. /\ down' \in [Socket -> Seq(DownType)]
          /\ \A t \in Socket : t # k => down'[t] = down[t]
          /\ \A t \in Socket : Has(down', t, "resume") => Has(down, t, "resume")
          /\ \A t \in Socket : Has(down', t, "error") => Has(down, t, "error")
          /\ \A t \in Socket : PauseFirst(down[t]) => PauseFirst(down'[t])
      <3>1. down' = Send(down, k, "ack") /\ down \in [Socket -> Seq(DownType)]
        BY <1>2, <2>0, <2>3
      <3>2. k \in Socket /\ "ack" \in {"pause", "ok", "error", "resume", "ack"} /\ "ack" # "ok"
        BY <2>3
      <3> HIDE DEF s
      <3>3. down' \in [Socket -> Seq(DownType)]
        BY <3>1, <3>2, SendDown
      <3>4. \A t \in Socket : t # k => down'[t] = down[t]
        BY <3>1, <3>2, SendDown
      <3>5. \A t \in Socket : \A x : Has(down', t, x) => Has(down, t, x) \/ (t = k /\ x = "ack")
        BY <3>1, <3>2, SendDown
      <3>6. \A t \in Socket : PauseFirst(down[t]) => PauseFirst(down'[t])
        BY <3>1, <3>2, SendDown
      <3> QED BY <3>3, <3>4, <3>5, <3>6
    <2>6. \A t \in Socket : t > client.socket => up'[t] = up[t] /\ down'[t] = down[t]
      BY <2>2, <2>3, <2>4, <2>5
    <2>7. TypeOK'
      BY <1>2, <2>0, <2>1, <2>4, <2>5 DEF TypeOK
    <2>8. Places' /\ \A t \in Socket : OnItsWay(t)' => OnItsWay(t)
      BY <1>2, <2>0, Elsewhere
    <2>9. Phases' /\ GraceRunsIffLost'
      BY <1>2, <2>0, <2>1 DEF Phases, GraceRunsIffLost
    <2> QED BY <1>2, <2>1, <2>4, <2>5, <2>6, <2>7, <2>8, <2>9, Inside
  <1> QED BY <1>1, <1>2 DEF ProcessReceives

(* A socket that arrives has left every place on its way.                  *)
LEMMA ReceiveIpcKeeps == IInv /\ ReceiveIpc => IInv'
  <1> SUFFICES ASSUME IInv, ReceiveIpc PROVE IInv'
    OBVIOUS
  <1> DEFINE m == Head(ipc)
  <1>0. /\ TypeOK /\ Places /\ Requests /\ Over /\ Phases /\ GraceRunsIffLost
        /\ process \in Process /\ closed \subseteq Socket
        /\ up \in [Socket -> Seq(UpType)] /\ down \in [Socket -> Seq(DownType)]
        /\ \A t \in Socket : RequestFirst(up[t])
        /\ process.at \in {"waiting", "connected"} /\ ipc # <<>> /\ ipc' = Tail(ipc)
        /\ UNCHANGED <<client, server, up>>
    BY Parts DEF ReceiveIpc
  <1>1. /\ ipc \in Seq(Message)
        /\ \A i, j \in DOMAIN ipc :
              i # j /\ ipc[i].socket \in Socket => ipc[i].socket # ipc[j].socket
    BY <1>0 DEF Places
  <1>2. /\ ipc' \in Seq(Message) /\ m \in Message /\ InIpc(m.socket)
        /\ \A t : InIpc(t)' => InIpc(t)
        /\ \A i, j \in DOMAIN ipc' :
              i # j /\ ipc'[i].socket \in Socket => ipc'[i].socket # ipc'[j].socket
        /\ \A t \in Socket : t = m.socket => ~InIpc(t)'
    BY <1>0, <1>1, IpcTail
  <1> HIDE DEF m
  <1>3. Places' /\ \A t \in Socket : OnItsWay(t)' => OnItsWay(t)
    BY <1>0, <1>2 DEF Places, OnItsWay, InIpc
  <1>4. ipc' \in Seq(IpcMessage)
    BY <1>2, IpcType
  <1>5. CASE UNCHANGED <<process, closed, down>>
    <2>1. TypeOK' /\ Phases' /\ GraceRunsIffLost'
      BY <1>0, <1>4, <1>5 DEF TypeOK, Phases, GraceRunsIffLost
    <2> QED BY <1>0, <1>3, <1>5, <2>1, InsideSilent
  <1>6. CASE ReduceGraceTime
    <2>0. UNCHANGED <<closed, down>>
      BY <1>6 DEF ReduceGraceTime
    <2>1. /\ process' \in Process /\ process'.ready = process.ready /\ process'.at = process.at
          /\ process'.runner1 = process.runner1
          /\ process'.runner2 = (process.runner2 \/ process.runner1)
          /\ process'.socket = process.socket /\ process'.lost = process.lost
      <3>1. (process.runner2 \/ process.runner1) \in BOOLEAN
        BY <1>0 DEF Process
      <3>2. PICK r \in BOOLEAN : r = (process.runner2 \/ process.runner1)
        BY <3>1
      <3>3. process' = [process EXCEPT !.runner2 = r]
        BY <1>6, <3>2 DEF ReduceGraceTime
      <3>4. /\ process' \in Process /\ process'.ready = process.ready /\ process'.at = process.at
            /\ process'.runner1 = process.runner1 /\ process'.runner2 = r
            /\ process'.socket = process.socket /\ process'.lost = process.lost
        BY <1>0, <3>3 DEF Process
      <3> QED BY <3>2, <3>4
    <2>2. TypeOK'
      BY <1>0, <1>4, <2>0, <2>1 DEF TypeOK
    <2>3. Phases' /\ GraceRunsIffLost'
      BY <1>0, <2>1 DEF Phases, GraceRunsIffLost
    <2> QED BY <1>0, <1>3, <2>0, <2>1, <2>2, <2>3, InsideSilent
  <1>7. CASE m.handle /\ TakeSocket(m.socket)
    <2>0. PICK s \in Socket : s = m.socket
      BY <1>2, <1>7 DEF Message
    <2>1. OnItsWay(s) /\ ~OnItsWay(s)' /\ Handed(s)'
      <3>1. InIpc(s) /\ ~InIpc(s)'
        BY <1>2, <2>0
      <3>2. s \notin server.port \cup server.draining \cup {server.first}
        BY <1>0, <3>1 DEF Places
      <3>3. OnItsWay(s) /\ ~OnItsWay(s)'
        BY <1>0, <3>1, <3>2 DEF OnItsWay, InIpc
      <3>4. ~Has(up, s, "connectionType")
        BY <1>0, <3>3 DEF Requests
      <3> QED BY <1>0, <3>3, <3>4 DEF Handed, Has
    <2>2. \A t \in Socket : t > client.socket => t # s
      BY <1>0, <2>1 DEF Requests
    <2>3. /\ process' \in Process /\ process'.ready = process.ready /\ process'.at = "connected"
          /\ ~process'.runner1 /\ ~process'.runner2 /\ ~process'.lost /\ process'.socket = s
      BY <1>0, <1>7, <2>0 DEF TakeSocket, Process
    <2>4. closed' \subseteq Socket
      BY <1>0, <1>7 DEF TakeSocket, Process
    <2>5. /\ down' \in [Socket -> Seq(DownType)]
          /\ \A t \in Socket : t # s => down'[t] = down[t]
          /\ \A t \in Socket : Has(down', t, "resume") => Has(down, t, "resume") \/ t = s
          /\ \A t \in Socket : Has(down', t, "error") => Has(down, t, "error")
          /\ \A t \in Socket : PauseFirst(down[t]) => PauseFirst(down'[t])
      <3>1. down' = Send(down, s, "resume") /\ down \in [Socket -> Seq(DownType)]
        BY <1>0, <1>7, <2>0 DEF TakeSocket
      <3>2. "resume" \in {"pause", "ok", "error", "resume", "ack"} /\ "resume" # "ok"
        OBVIOUS
      <3>3. down' \in [Socket -> Seq(DownType)]
        BY <3>1, <3>2, SendDown
      <3>4. \A t \in Socket : t # s => down'[t] = down[t]
        BY <3>1, <3>2, SendDown
      <3>5. \A t \in Socket : \A x : Has(down', t, x) => Has(down, t, x) \/ (t = s /\ x = "resume")
        BY <3>1, <3>2, SendDown
      <3>6. \A t \in Socket : PauseFirst(down[t]) => PauseFirst(down'[t])
        BY <3>1, <3>2, SendDown
      <3> QED BY <3>3, <3>4, <3>5, <3>6
    <2>6. \A t \in Socket : Has(down', t, "resume") => Has(down, t, "resume") \/ Handed(t)'
      <3> SUFFICES ASSUME NEW t \in Socket, t = s PROVE Handed(t)'
        BY <2>5
      <3> QED BY <2>1
    <2>7. TypeOK'
      BY <1>0, <1>4, <2>3, <2>4, <2>5 DEF TypeOK
    <2>8. Phases' /\ GraceRunsIffLost'
      BY <1>0, <2>3 DEF Phases, GraceRunsIffLost
    <2> QED BY <1>0, <1>3, <2>2, <2>5, <2>6, <2>7, <2>8, Inside
  <1> QED BY <1>5, <1>6, <1>7 DEF ReceiveIpc, m

-----------------------------------------------------------------------------
LEMMA InitIInv == Init => IInv
  <1> SUFFICES ASSUME Init PROVE IInv
    OBVIOUS
  <1>0. DOMAIN <<>> = {} /\ <<>> \in Seq(UpType) /\ <<>> \in Seq(DownType)
        /\ <<>> \in Seq(IpcMessage) /\ <<>> \in Seq(Message) /\ 1 \in Socket
    BY EmptySeq, SocketAssumption DEF Socket
  <1>1. \A s \in Socket : s > client.socket => ~OnItsWay(s)
    BY <1>0 DEF Init, OnItsWay, Socket, NoSocket
  <1>2. TypeOK
    <2>1. client \in Client /\ server \in Server /\ process \in Process
      BY <1>0 DEF Init, Client, Server, Process
    <2>2. /\ up \in [Socket -> Seq(UpType)] /\ down \in [Socket -> Seq(DownType)]
          /\ ipc \in Seq(IpcMessage) /\ closed \subseteq Socket
      BY <1>0 DEF Init
    <2>3. server.open /\ process.at = "none" /\ server.first = 1 /\ 1 # NoSocket
      BY DEF Init, NoSocket
    <2> QED BY <2>1, <2>2, <2>3 DEF TypeOK
  <1>3. Places
    BY <1>0 DEF Init, Places, InIpc
  <1>4. Requests
    BY <1>0, <1>1 DEF Init, Requests, RequestFirst, Has
  <1>5. Talk
    BY <1>0 DEF Init, Talk, Has
  <1>6. Over /\ Phases /\ GraceRunsIffLost
    BY <1>0 DEF Init, Over, Phases, GraceRunsIffLost, Has
  <1> QED BY <1>2, <1>3, <1>4, <1>5, <1>6 DEF IInv

LEMMA NextIInv == IInv /\ [Next]_vars => IInv'
  <1> SUFFICES ASSUME IInv, [Next]_vars PROVE IInv'
    OBVIOUS
  <1>1. CASE UNCHANGED vars
    <2>1. UNCHANGED client /\ UNCHANGED server /\ UNCHANGED process /\ UNCHANGED ipc
          /\ UNCHANGED up /\ UNCHANGED down /\ UNCHANGED closed
      BY <1>1 DEF vars
    <2>2. TypeOK' /\ Places' /\ Phases' /\ GraceRunsIffLost'
      BY <2>1, Parts DEF TypeOK, Places, Phases, GraceRunsIffLost, InIpc
    <2> QED BY <2>1, <2>2, InsideSilent DEF OnItsWay
  <1>2. CASE ClientSends
    BY <1>2, ClientSendsKeeps
  <1>3. CASE ClientReceives
    BY <1>3, ClientReceivesKeeps
  <1>4. CASE ClientSeesClose \/ ClientTimesOut
    BY <1>4, ClientLosesKeeps
  <1>5. CASE Reconnect
    BY <1>5, ReconnectKeeps
  <1>6. CASE Leave
    BY <1>6, LeaveKeeps
  <1>7. ASSUME NEW s \in Socket,
               ReadConnectionType(s) \/ HandOver(s) \/ SendSocket(s) \/ CloseSocket(s)
        PROVE  IInv'
    BY <1>7, ReadConnectionTypeKeeps, HandOverKeeps, SendSocketKeeps, CloseSocketKeeps
  <1>8. CASE Fork \/ StartFails
    BY <1>8, StartKeeps
  <1>9. CASE ReceiveReady
    BY <1>9, ReceiveReadyKeeps
  <1>10. CASE OtherClientConnects
    BY <1>10, OtherClientConnectsKeeps
  <1>11. CASE ProcessExitSeen
    BY <1>11, ProcessExitSeenKeeps
  <1>12. CASE Ready
    BY <1>12, ReadyKeeps
  <1>13. CASE ReceiveIpc
    BY <1>13, ReceiveIpcKeeps
  <1>14. CASE SocketClosed
    BY <1>14, SocketClosedKeeps
  <1>15. CASE ProcessReceives
    BY <1>15, ProcessReceivesKeeps
  <1>16. CASE SocketTimeout \/ GraceExpires \/ ExitsByItself
    BY <1>16, EndsKeep
  <1> QED BY <1>1, <1>2, <1>3, <1>4, <1>5, <1>6, <1>7, <1>8, <1>9, <1>10, <1>11, <1>12,
             <1>13, <1>14, <1>15, <1>16 DEF Next

(* The inductive invariant: where each socket is, what was said over it    *)
(* and what phase the process is in.                                       *)
THEOREM Invariance == Spec => []IInv
  <1> QED BY InitIInv, NextIInv, PTL DEF Spec

(* The variables keep their types, and _connectionData is there exactly    *)
(* until READY is received or the process is over.                         *)
THEOREM TypeCorrect == Spec => []TypeOK
  <1>1. IInv => TypeOK
    BY DEF IInv
  <1> QED BY <1>1, Invariance, PTL

(* However sockets are handed over, early or late, while the process       *)
(* starts, runs or ends: no message of the client reaches a socket that    *)
(* the server still reads.                                                 *)
THEOREM LosesNothing == Spec => []HandoffLosesNothing
  <1>1. IInv => HandoffLosesNothing
    BY DEF IInv, Talk, HandoffLosesNothing, Handed, Has
  <1> QED BY <1>1, Invariance, PTL

(* The disconnect runners run exactly while the process knows that its     *)
(* socket has closed.                                                      *)
THEOREM GraceTime == Spec => []GraceRunsIffLost
  <1>1. IInv => GraceRunsIffLost
    BY DEF IInv
  <1> QED BY <1>1, Invariance, PTL

(* Only a client whose extension host has ended is told that it is         *)
(* unknown.                                                                *)
THEOREM Refuses == Spec => []RefusedOnlyWhenOver
  <1>1. IInv => RefusedOnlyWhenOver
    BY DEF IInv, Over, RefusedOnlyWhenOver
  <1> QED BY <1>1, Invariance, PTL

=============================================================================
