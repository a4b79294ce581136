------------------------ MODULE RemoteConnectionProofs ------------------------
(***************************************************************************)
(* The safety properties of RemoteConnection, for any number of sockets,   *)
(* attempts and messages and any trouble.  Only the one about the server's *)
(* grace timers asks that no close event comes to the server before the    *)
(* last data of its socket.                                                *)
(*                                                                         *)
(* The invariant says of each socket how far its handshake has come, from  *)
(* what is on its way over it and from what the client has done with it.   *)
(***************************************************************************)
EXTENDS RemoteConnection, SequenceTheorems, TLAPS

In(q, type) == \E i \in DOMAIN q : q[i].type = type
Once(q) == \A i, j \in DOMAIN q : q[i].type = "sign" /\ q[j].type = "sign" => i = j

Up(s) == pipe[s].up
Down(s) == pipe[s].down

(* The control messages the client has buffered.                           *)
Buffered(type) == \E i \in DOMAIN client.control : client.control[i] = type
OnceBuffered ==
    \A i, j \in DOMAIN client.control :
        client.control[i] = "sign" /\ client.control[j] = "sign" => i = j

(* What is on its way over a socket, given its handshake.                  *)
Carried ==
    \A s \in Socket :
        /\ state[s] = "none" => Up(s) = <<>> /\ Down(s) = <<>>
        /\ In(Up(s), "data") => state[s] = "Done"
        /\ ~In(Up(s), "ack")
        /\ In(Down(s), "sign") => state[s] \notin {"none", "WaitingForAuth"}
        /\ In(Down(s), "ok") => state[s] = "Done"
        /\ ~In(Down(s), "auth") /\ ~In(Down(s), "connectionType")
        /\ Once(Down(s))

(* The same of what has come to the client.                                *)
Came ==
    /\ Buffered("sign") =>
          state[client.socket] # "WaitingForAuth" /\ ~In(Down(client.socket), "sign")
    /\ Buffered("ok") => state[client.socket] = "Done"
    /\ ~Buffered("auth") /\ ~Buffered("connectionType")
    /\ OnceBuffered

(* What the client has done with its socket.                               *)
Attempt ==
    /\ state[client.socket] # "none"
    /\ client.at \in {"creating", "waitSign", "proving"} =>
          state[client.socket] # "Done" /\ ~In(Up(client.socket), "connectionType")
    /\ client.at \in {"proving", "waitFirst"} =>
          /\ state[client.socket] # "WaitingForAuth"
          /\ ~Buffered("sign") /\ ~In(Down(client.socket), "sign")
    /\ ~client.isReconnecting => state[client.socket] = "Done"
    /\ client.at = "idle" /\ ~permanentFailure => ~client.isReconnecting

(* A connection is where its last handshake ended.                         *)
Moved ==
    /\ state[server.socket] = "Done"
    /\ \A s \in Socket : state[s] = "Done" /\ s \notin closed => server.open /\ server.socket = s

(* Close events that keep their place.                                     *)
ServerSees ==
    /\ \A s \in noticed["server"] : Up(s) = <<>>
    /\ GraceRunsIffLost

Live == {"creating", "waitSign", "proving", "waitFirst"}

Talks == Carried /\ Came /\ Attempt

IInv ==
    /\ TypeOK /\ Talks /\ Moved
    /\ "server" \notin Eager => ServerSees

-----------------------------------------------------------------------------
(* Sequences.                                                              *)

LEMMA Prefixes ==
  ASSUME NEW q \in Seq(Message), NEW n \in 0 .. Len(q)
  PROVE  LET r == SubSeq(q, 1, n)
         IN  /\ r \in Seq(Message)
             /\ \A type : In(r, type) => In(q, type)
             /\ Once(q) => Once(r)
  <1> DEFINE r == SubSeq(q, 1, n)
  <1>1. PICK l \in Nat : Len(q) = l /\ DOMAIN q = 1 .. l /\ \A i \in 1 .. l : q[i] \in Message
    BY LenProperties
  <1>2. n \in 0 .. l
    BY <1>1
  <1>3. r \in Seq(Message) /\ Len(r) = n /\ \A i \in 1 .. n : r[i] = q[i]
    <2>1. \A i \in 1 .. n : q[i] \in Message
      BY <1>1, <1>2
    <2>2. /\ SubSeq(q, 1, n) \in Seq(Message)
          /\ Len(SubSeq(q, 1, n)) = IF 1 <= n THEN n - 1 + 1 ELSE 0
          /\ \A i \in 1 .. n - 1 + 1 : SubSeq(q, 1, n)[i] = q[1 + i - 1]
      BY <1>2, <2>1, SubSeqProperties
    <2> QED BY <1>2, <2>2
  <1>4. DOMAIN r = 1 .. n /\ \A i \in 1 .. n : i \in 1 .. l
    BY <1>2, <1>3, LenProperties
  <1> HIDE DEF r
  <1> QED BY <1>1, <1>3, <1>4 DEF In, Once

LEMMA Popped ==
  ASSUME NEW q \in Seq(Message), q # <<>>
  PROVE  /\ Tail(q) \in Seq(Message) /\ Head(q) \in Message
         /\ \A type : In(Tail(q), type) => In(q, type)
         /\ Once(q) => Once(Tail(q)) /\ (Head(q).type = "sign" => ~In(Tail(q), "sign"))
         /\ In(q, Head(q).type)
  <1> DEFINE r == Tail(q)
  <1>1. PICK l \in Nat : /\ Len(q) = l /\ l >= 1 /\ DOMAIN q = 1 .. l /\ Head(q) \in Message
                         /\ r \in Seq(Message) /\ Len(r) = l - 1
                         /\ \A i \in 1 .. l - 1 : r[i] = q[i + 1]
    BY HeadTailProperties, LenProperties, EmptySeq
  <1>2. Head(q) = q[1] /\ DOMAIN r = 1 .. l - 1
    BY <1>1, LenProperties
  <1>3. /\ 1 \in 1 .. l
        /\ \A i \in 1 .. l - 1 : i + 1 \in 1 .. l /\ i + 1 # 1
        /\ \A i, j \in 1 .. l - 1 : i + 1 = j + 1 => i = j
    BY <1>1
  <1> HIDE DEF r
  <1>4. ASSUME NEW type, In(r, type)
        PROVE  In(q, type)
    <2>1. PICK i \in 1 .. l - 1 : r[i].type = type
      BY <1>2, <1>4 DEF In
    <2>2. i + 1 \in DOMAIN q /\ q[i + 1] = r[i]
      BY <1>1, <1>3
    <2> QED BY <2>1, <2>2 DEF In
  <1>5. ASSUME Once(q), NEW i \in 1 .. l - 1, NEW j \in 1 .. l - 1,
               r[i].type = "sign", r[j].type = "sign"
        PROVE  i = j
    <2>1. q[i + 1].type = "sign" /\ q[j + 1].type = "sign"
      BY <1>1, <1>5
    <2>2. i + 1 \in DOMAIN q /\ j + 1 \in DOMAIN q
      BY <1>1, <1>3
    <2> QED BY <1>3, <1>5, <2>1, <2>2 DEF Once
  <1>6. Once(q) /\ Head(q).type = "sign" => ~In(r, "sign")
    BY SMTT(20), <1>1, <1>2, <1>3 DEF Once, In
  <1>7. In(q, Head(q).type)
    BY <1>1, <1>2, <1>3 DEF In
  <1>8. Once(q) => Once(r)
    BY <1>2, <1>5 DEF Once
  <1> QED BY <1>1, <1>4, <1>6, <1>7, <1>8 DEF r

LEMMA Joined ==
  ASSUME NEW q \in Seq(Message), NEW r \in Seq(Message)
  PROVE  /\ q \o r \in Seq(Message)
         /\ \A type : In(q \o r, type) => In(q, type) \/ In(r, type)
         /\ ~In(r, "sign") /\ Once(q) => Once(q \o r)
         /\ ~In(q, "sign") /\ Once(r) => Once(q \o r)
  <1> DEFINE t == q \o r
  <1>1. PICK l \in Nat, k \in Nat :
            /\ Len(q) = l /\ DOMAIN q = 1 .. l /\ Len(r) = k /\ DOMAIN r = 1 .. k
            /\ t \in Seq(Message) /\ Len(t) = l + k
            /\ \A i \in 1 .. l + k : t[i] = IF i <= l THEN q[i] ELSE r[i - l]
    BY ConcatProperties, LenProperties
  <1>2. DOMAIN t = 1 .. l + k
    BY <1>1, LenProperties
  <1> HIDE DEF t
  <1>3. \A i \in 1 .. l + k : \/ i \in 1 .. l /\ t[i] = q[i]
                              \/ i - l \in 1 .. k /\ t[i] = r[i - l]
    BY <1>1
  <1>4. \A i, j \in 1 .. l + k : i - l = j - l => i = j
    BY <1>1
  <1>5. ASSUME NEW type, In(t, type)
        PROVE  In(q, type) \/ In(r, type)
    <2>1. PICK i \in 1 .. l + k : t[i].type = type
      BY <1>2, <1>5 DEF In
    <2>2. \/ i \in DOMAIN q /\ q[i].type = type
          \/ i - l \in DOMAIN r /\ r[i - l].type = type
      BY <1>1, <1>3, <2>1
    <2> QED BY <2>2 DEF In
  <1>6. ASSUME ~In(r, "sign"), Once(q), NEW i \in 1 .. l + k, NEW j \in 1 .. l + k,
               t[i].type = "sign", t[j].type = "sign"
        PROVE  i = j
    <2>1. i \in 1 .. l /\ t[i] = q[i] /\ j \in 1 .. l /\ t[j] = q[j]
      BY <1>1, <1>3, <1>6 DEF In
    <2> QED BY <1>1, <1>6, <2>1 DEF Once
  <1>7. ASSUME ~In(q, "sign"), Once(r), NEW i \in 1 .. l + k, NEW j \in 1 .. l + k,
               t[i].type = "sign", t[j].type = "sign"
        PROVE  i = j
    <2>1. i - l \in 1 .. k /\ t[i] = r[i - l] /\ j - l \in 1 .. k /\ t[j] = r[j - l]
      BY <1>1, <1>3, <1>7 DEF In
    <2>2. i - l = j - l
      BY <1>1, <1>7, <2>1 DEF Once
    <2> QED BY <1>4, <2>2
  <1>8. /\ ~In(r, "sign") /\ Once(q) => Once(t)
        /\ ~In(q, "sign") /\ Once(r) => Once(t)
    BY <1>2, <1>6, <1>7 DEF Once
  <1> QED BY <1>1, <1>5, <1>8 DEF t

LEMMA EmptyIn ==
  ASSUME NEW q \in Seq(Message)
  PROVE  /\ q = <<>> => \A type : ~In(q, type)
         /\ (\A type \in MessageType : ~In(q, type)) => q = <<>>
  <1>1. ASSUME q # <<>>
        PROVE  \E type \in MessageType : In(q, type)
    <2>1. Head(q) \in Message /\ In(q, Head(q).type)
      BY <1>1, Popped
    <2>2. Head(q).type \in MessageType
      BY <2>1 DEF Message
    <2> QED BY <2>1, <2>2
  <1>2. q = <<>> => DOMAIN q = {}
    BY EmptySeq, LenProperties
  <1> QED BY <1>1, <1>2 DEF In

LEMMA One ==
  ASSUME NEW m \in Message
  PROVE  /\ <<m>> \in Seq(Message) /\ Once(<<m>>)
         /\ \A type : In(<<m>>, type) => type = m.type
  BY DEF In, Once

LEMMA Two ==
  ASSUME NEW m \in Message, NEW n \in Message, m.type # "sign", n.type # "sign"
  PROVE  /\ <<m, n>> \in Seq(Message) /\ Once(<<m, n>>)
         /\ \A type : In(<<m, n>>, type) => type \in {m.type, n.type}
  <1>1. DOMAIN <<m, n>> = {1, 2} /\ <<m, n>>[1] = m /\ <<m, n>>[2] = n
    OBVIOUS
  <1> QED BY <1>1 DEF In, Once

-----------------------------------------------------------------------------
(* What a step writes to the sockets.                                      *)

Pipe == [Socket -> [up : Seq(Message), down : Seq(Message)]]

(* Some of what was on its way may be gone; the client has written only    *)
(* types of U to its socket, and the server only types of D to its own.    *)
Talk(p, U, D) ==
    /\ p \in Pipe
    /\ \A s \in Socket :
          /\ \A type : In(p[s].up, type) =>
                 In(Up(s), type) \/ (s = client.socket /\ s \notin closed /\ type \in U)
          /\ \A type : In(p[s].down, type) =>
                 In(Down(s), type) \/ (s = server.socket /\ s \notin closed /\ type \in D)
          /\ Once(Down(s)) => Once(p[s].down)

LEMMA TypeFacts ==
  ASSUME TypeOK
  PROVE  /\ pipe \in Pipe /\ client.socket \in Socket /\ server.socket \in Socket
         /\ \A s \in Socket : Up(s) \in Seq(Message) /\ Down(s) \in Seq(Message)
         /\ noticed["client"] \subseteq closed /\ noticed["server"] \subseteq closed
         /\ closed \subseteq Socket
  BY DEF TypeOK, Pipe, Client, Server, Up, Down

LEMMA SetUp ==
  ASSUME NEW p \in Pipe, NEW s \in Socket, NEW q \in Seq(Message)
  PROVE  LET n == [p EXCEPT ![s].up = q]
         IN  /\ n \in Pipe /\ n[s].up = q
             /\ \A t \in Socket : n[t].down = p[t].down /\ (t # s => n[t].up = p[t].up)
  BY DEF Pipe

LEMMA SetDown ==
  ASSUME NEW p \in Pipe, NEW s \in Socket, NEW q \in Seq(Message)
  PROVE  LET n == [p EXCEPT ![s].down = q]
         IN  /\ n \in Pipe /\ n[s].down = q
             /\ \A t \in Socket : n[t].up = p[t].up /\ (t # s => n[t].down = p[t].down)
  BY DEF Pipe

LEMMA TalkNothing ==
  ASSUME TypeOK
  PROVE  Talk(pipe, {}, {})
  BY TypeFacts DEF Talk, Up, Down

LEMMA TalkMore ==
  ASSUME NEW p, NEW U, NEW D, NEW V, NEW E, U \subseteq V, D \subseteq E, Talk(p, U, D)
  PROVE  Talk(p, V, E)
  BY DEF Talk

LEMMA TalkWrites ==
  ASSUME TypeOK, NEW ms \in Seq(Message), NEW U, \A type : In(ms, type) => type \in U
  PROVE  Talk(ClientWrites(ms), U, {})
  <1> DEFINE s == client.socket
             q == Up(s) \o ms
             n == [pipe EXCEPT ![s].up = q]
  <1>1. CASE client.disposed \/ s \in closed
    <2>1. ClientWrites(ms) = pipe
      BY <1>1 DEF ClientWrites
    <2> QED BY <2>1, TalkNothing, TalkMore
  <1>2. CASE ~(client.disposed \/ s \in closed)
    <2>1. ClientWrites(ms) = n
      BY <1>2 DEF ClientWrites, Up
    <2>2. pipe \in Pipe /\ s \in Socket /\ Up(s) \in Seq(Message)
      BY TypeFacts
    <2>3. q \in Seq(Message) /\ \A type : In(q, type) => In(Up(s), type) \/ type \in U
      BY <2>2, Joined
    <2> HIDE DEF q, s
    <2>4. /\ n \in Pipe /\ n[s].up = q
          /\ \A t \in Socket : n[t].down = pipe[t].down /\ (t # s => n[t].up = pipe[t].up)
      BY <2>2, <2>3, SetUp
    <2> HIDE DEF n
    <2> QED BY <1>2, <2>1, <2>3, <2>4 DEF Talk, Up, Down, s
  <1> QED BY <1>1, <1>2

LEMMA TalkDestroys ==
  ASSUME TypeOK, NEW s \in Socket, ClientDestroys(s)
  PROVE  /\ Talk(pipe', {}, {}) /\ closed' = closed \cup {s}
         /\ \A t \in Socket : t # s => pipe'[t] = pipe[t]
  <1>1. PICK n \in 0 .. Len(pipe[s].up) :
             pipe' = [pipe EXCEPT ![s].up = SubSeq(@, 1, n), ![s].down = <<>>]
    BY DEF ClientDestroys
  <1> DEFINE q == SubSeq(Up(s), 1, n)
  <1>2. /\ pipe \in Pipe /\ Up(s) \in Seq(Message) /\ <<>> \in Seq(Message)
        /\ n \in 0 .. Len(Up(s))
    BY <1>1, TypeFacts, EmptySeq DEF Up
  <1>3. q \in Seq(Message) /\ \A type : In(q, type) => In(Up(s), type)
    BY <1>2, Prefixes
  <1>4. pipe' = [[pipe EXCEPT ![s].up = q] EXCEPT ![s].down = <<>>]
    BY <1>1, <1>2 DEF Pipe, Up
  <1> HIDE DEF q
  <1>5. /\ pipe' \in Pipe /\ pipe'[s].up = q /\ pipe'[s].down = <<>>
        /\ \A t \in Socket : t # s => pipe'[t] = pipe[t]
    BY <1>2, <1>3, <1>4 DEF Pipe
  <1>6. Once(<<>>) /\ \A type : ~In(<<>>, type)
    BY DEF Once, In
  <1> QED BY <1>3, <1>5, <1>6 DEF Talk, Up, Down, ClientDestroys

LEMMA TalkPops ==
  ASSUME TypeOK, NEW s \in Socket, Up(s) # <<>>
  PROVE  LET p == [pipe EXCEPT ![s].up = Tail(@)]
         IN  Talk(p, {}, {}) /\ Head(Up(s)) \in Message /\ In(Up(s), Head(Up(s)).type)
  <1> DEFINE q == Tail(Up(s))
             n == [pipe EXCEPT ![s].up = q]
  <1>1. pipe \in Pipe /\ Up(s) \in Seq(Message)
    BY TypeFacts
  <1>2. /\ q \in Seq(Message) /\ \A type : In(q, type) => In(Up(s), type)
        /\ Head(Up(s)) \in Message /\ In(Up(s), Head(Up(s)).type)
    BY <1>1, Popped
  <1>3. n = [pipe EXCEPT ![s].up = Tail(@)]
    BY DEF Up
  <1> HIDE DEF q
  <1>4. /\ n \in Pipe /\ n[s].up = q
        /\ \A t \in Socket : n[t].down = pipe[t].down /\ (t # s => n[t].up = pipe[t].up)
    BY <1>1, <1>2, SetUp
  <1> HIDE DEF n
  <1>5. Talk(n, {}, {})
    BY <1>2, <1>4 DEF Talk, Up, Down
  <1> QED BY <1>2, <1>3, <1>5

LEMMA TalkSays ==
  ASSUME TypeOK, NEW p, Talk(p, {}, {}), NEW m \in Message, m.type # "sign"
  PROVE  Talk(ServerWrites(p, server.socket, <<m>>), {}, {m.type})
  <1> DEFINE s == server.socket
             q == p[s].down \o <<m>>
             n == [p EXCEPT ![s].down = q]
  <1>1. CASE s \in closed
    <2>1. ServerWrites(p, s, <<m>>) = p
      BY <1>1 DEF ServerWrites
    <2> QED BY <2>1, TalkMore
  <1>2. CASE s \notin closed
    <2>1. ServerWrites(p, s, <<m>>) = n
      BY <1>2 DEF ServerWrites
    <2>2. p \in Pipe /\ s \in Socket
      BY TypeFacts DEF Talk
    <2>3. p[s].down \in Seq(Message) /\ <<m>> \in Seq(Message) /\ ~In(<<m>>, "sign")
      BY <2>2, One DEF Pipe
    <2>4. /\ q \in Seq(Message)
          /\ Once(p[s].down) => Once(q)
          /\ \A type : In(q, type) => In(p[s].down, type) \/ type = m.type
      <3>1. \A type : In(<<m>>, type) => type = m.type
        BY One
      <3> QED BY <2>3, <3>1, Joined
    <2> HIDE DEF q, s
    <2>5. /\ n \in Pipe /\ n[s].down = q
          /\ \A t \in Socket : n[t].up = p[t].up /\ (t # s => n[t].down = p[t].down)
      BY <2>2, <2>4, SetDown
    <2> HIDE DEF n
    <2>6. \A t \in Socket :
             /\ \A type : In(p[t].up, type) => In(Up(t), type)
             /\ \A type : In(p[t].down, type) => In(Down(t), type)
             /\ Once(Down(t)) => Once(p[t].down)
      BY DEF Talk
    <2>7. ASSUME NEW t \in Socket
          PROVE  /\ \A type : In(n[t].up, type) => In(Up(t), type)
                 /\ \A type : In(n[t].down, type) =>
                        In(Down(t), type) \/ (t = s /\ type = m.type)
                 /\ Once(Down(t)) => Once(n[t].down)
      <3>1. CASE t = s
        <4>1. n[s].up = p[s].up /\ n[s].down = q
          BY <2>2, <2>5
        <4>2. /\ \A type : In(q, type) => In(Down(s), type) \/ type = m.type
              /\ Once(Down(s)) => Once(q)
          BY <2>2, <2>4, <2>6
        <4> QED BY <2>2, <2>6, <3>1, <4>1, <4>2
      <3>2. CASE t # s
        BY <2>5, <2>6, <3>2
      <3> QED BY <3>1, <3>2
    <2>8. Talk(n, {}, {m.type})
      BY <1>2, <2>5, <2>7 DEF Talk, s
    <2> QED BY <2>1, <2>8 DEF s
  <1> QED BY <1>1, <1>2

(* On a closed socket, or one with no handshake, nothing is written.       *)
LEMMA TalkEmpty ==
  ASSUME TypeOK, NEW U, NEW D, Talk(pipe', U, D), NEW s \in Socket
  PROVE  /\ (s \in closed \/ s # client.socket \/ U = {}) /\ Up(s) = <<>> => pipe'[s].up = <<>>
         /\ (s \in closed \/ s # server.socket \/ D = {}) /\ Down(s) = <<>> => pipe'[s].down = <<>>
  <1>1. /\ pipe'[s].up \in Seq(Message) /\ pipe'[s].down \in Seq(Message)
        /\ Up(s) \in Seq(Message) /\ Down(s) \in Seq(Message)
    BY TypeFacts DEF Talk, Pipe
  <1>2. ASSUME s \in closed \/ s # client.socket \/ U = {}, Up(s) = <<>>
        PROVE  pipe'[s].up = <<>>
    <2>1. \A type : ~In(Up(s), type)
      BY <1>1, <1>2, EmptyIn
    <2>2. \A type : ~In(pipe'[s].up, type)
      BY <1>2, <2>1 DEF Talk
    <2> QED BY <1>1, <2>2, EmptyIn
  <1>3. ASSUME s \in closed \/ s # server.socket \/ D = {}, Down(s) = <<>>
        PROVE  pipe'[s].down = <<>>
    <2>1. \A type : ~In(Down(s), type)
      BY <1>1, <1>3, EmptyIn
    <2>2. \A type : ~In(pipe'[s].down, type)
      BY <1>3, <2>1 DEF Talk
    <2> QED BY <1>1, <2>2, EmptyIn
  <1> QED BY <1>2, <1>3

-----------------------------------------------------------------------------
(* Steps that leave every handshake and the client's socket where they are.*)

LEMMA CarriedKept ==
  ASSUME TypeOK, Talks, state[server.socket] = "Done",
         NEW U, NEW D, Talk(pipe', U, D), state' = state,
         U \subseteq {"auth", "connectionType", "disconnect", "data"},
         D \subseteq {"ack", "disconnect"},
         "data" \in U => state[client.socket] = "Done"
  PROVE  Carried'
  <1> DEFINE c == client.socket
             d == server.socket
  <1>1. c \in Socket /\ d \in Socket /\ state[c] # "none" /\ state[d] = "Done"
    BY TypeFacts DEF Talks, Attempt
  <1>2. \A s \in Socket :
           /\ \A type : In(Up(s)', type) => In(Up(s), type) \/ (s = c /\ type \in U)
           /\ \A type : In(Down(s)', type) => In(Down(s), type) \/ (s = d /\ type \in D)
           /\ Once(Down(s)) => Once(Down(s)')
    BY DEF Talk, Up, Down
  <1> SUFFICES ASSUME NEW s \in Socket
               PROVE  /\ state[s] = "none" => Up(s)' = <<>> /\ Down(s)' = <<>>
                      /\ In(Up(s)', "data") => state[s] = "Done"
                      /\ ~In(Up(s)', "ack")
                      /\ In(Down(s)', "sign") => state[s] \notin {"none", "WaitingForAuth"}
                      /\ In(Down(s)', "ok") => state[s] = "Done"
                      /\ ~In(Down(s)', "auth") /\ ~In(Down(s)', "connectionType")
                      /\ Once(Down(s)')
    BY DEF Carried
  <1>3. /\ state[s] = "none" => Up(s) = <<>> /\ Down(s) = <<>>
        /\ In(Up(s), "data") => state[s] = "Done"
        /\ ~In(Up(s), "ack")
        /\ In(Down(s), "sign") => state[s] \notin {"none", "WaitingForAuth"}
        /\ In(Down(s), "ok") => state[s] = "Done"
        /\ ~In(Down(s), "auth") /\ ~In(Down(s), "connectionType")
        /\ Once(Down(s))
    BY DEF Talks, Carried
  <1>4. state[s] = "none" => Up(s)' = <<>> /\ Down(s)' = <<>>
    BY <1>1, <1>3, TalkEmpty DEF Up, Down
  <1>5. (In(Up(s)', "data") => state[s] = "Done") /\ ~In(Up(s)', "ack")
    BY <1>1, <1>2, <1>3
  <1>6. /\ In(Down(s)', "sign") => state[s] \notin {"none", "WaitingForAuth"}
        /\ In(Down(s)', "ok") => state[s] = "Done"
        /\ ~In(Down(s)', "auth") /\ ~In(Down(s)', "connectionType")
        /\ Once(Down(s)')
    BY <1>1, <1>2, <1>3
  <1> QED BY <1>4, <1>5, <1>6

LEMMA TalksKept ==
  ASSUME TypeOK, Talks, state[server.socket] = "Done",
         NEW U, NEW D, Talk(pipe', U, D), state' = state, client'.socket = client.socket,
         U \subseteq {"auth", "connectionType", "disconnect", "data"},
         D \subseteq {"ack", "disconnect"},
         "data" \in U => state[client.socket] = "Done",
         "connectionType" \in U => client'.at = "waitFirst",
         \A type : Buffered(type)' => Buffered(type),
         OnceBuffered',
         client'.at \in {"creating", "waitSign", "proving"} =>
             client.at \in {"creating", "waitSign", "proving"},
         client'.at \in {"proving", "waitFirst"} =>
             \/ client.at \in {"proving", "waitFirst"}
             \/ /\ state[client.socket] # "WaitingForAuth"
                /\ ~Buffered("sign")' /\ ~In(Down(client.socket), "sign"),
         ~client'.isReconnecting => ~client.isReconnecting \/ state[client.socket] = "Done",
         client'.at = "idle" /\ ~permanentFailure' => ~client'.isReconnecting
  PROVE  Talks'
  <1> DEFINE c == client.socket
  <1>1. c \in Socket /\ state[c] # "none"
    BY TypeFacts DEF Talks, Attempt
  <1>2. /\ \A type : In(Up(c)', type) => In(Up(c), type) \/ type \in U
        /\ In(Down(c)', "sign") => In(Down(c), "sign")
    BY <1>1 DEF Talk, Up, Down
  <1>3. Carried'
    BY CarriedKept
  <1>4. ~In(Down(c), "sign") => ~In(Down(c)', "sign")
    BY <1>2
  <1>5. Came'
    BY <1>4 DEF Talks, Came, Down
  <1>6. client'.at \in {"creating", "waitSign", "proving"} =>
            state[c] # "Done" /\ ~In(Up(c)', "connectionType")
    BY <1>2 DEF Talks, Attempt
  <1>7. client'.at \in {"proving", "waitFirst"} =>
            state[c] # "WaitingForAuth" /\ ~Buffered("sign")' /\ ~In(Down(c)', "sign")
    BY <1>4 DEF Talks, Attempt
  <1>8. ~client'.isReconnecting => state[c] = "Done"
    BY DEF Talks, Attempt
  <1>9. Attempt'
    BY <1>1, <1>6, <1>7, <1>8 DEF Attempt, Up, Down
  <1> QED BY <1>3, <1>5, <1>9 DEF Talks

LEMMA MovedKept ==
  ASSUME TypeOK, Moved, state' = state, closed \subseteq closed', server'.socket = server.socket,
         server'.open = server.open \/ server.socket \in closed'
  PROVE  Moved'
  BY DEF Moved

LEMMA HeadBuffered ==
  ASSUME TypeOK, client.control # <<>>
  PROVE  Head(client.control) \in ControlType /\ Buffered(Head(client.control))
  <1>1. client.control \in Seq(ControlType)
    BY DEF TypeOK, Client
  <1>2. /\ Head(client.control) \in ControlType /\ Head(client.control) = client.control[1]
        /\ 1 \in DOMAIN client.control
    BY <1>1, HeadTailProperties, LenProperties, EmptySeq
  <1> QED BY <1>2 DEF Buffered

(* What is buffered: nothing new, or the first is handed out.              *)
LEMMA BufferedLess ==
  ASSUME TypeOK, OnceBuffered,
         \/ client'.control = client.control
         \/ client.control # <<>> /\ client'.control = Tail(client.control)
  PROVE  /\ \A type : Buffered(type)' => Buffered(type)
         /\ OnceBuffered'
         /\ client'.control = Tail(client.control) /\ client.control # <<>>
            /\ Head(client.control) = "sign" => ~Buffered("sign")'
  <1>1. client.control \in Seq(ControlType)
    BY DEF TypeOK, Client
  <1>2. CASE client.control = <<>>
    BY <1>2 DEF Buffered, OnceBuffered
  <1>3. CASE client.control # <<>>
    <2> DEFINE q == client.control
               r == Tail(q)
    <2>1. PICK l \in Nat : /\ Len(q) = l /\ l >= 1 /\ DOMAIN q = 1 .. l /\ Head(q) \in ControlType
                           /\ Head(q) = q[1] /\ r \in Seq(ControlType) /\ Len(r) = l - 1
                           /\ \A i \in 1 .. l - 1 : r[i] = q[i + 1]
      BY <1>1, <1>3, HeadTailProperties, LenProperties, EmptySeq
    <2>2. DOMAIN r = 1 .. l - 1
      BY <2>1, LenProperties
    <2>3. /\ 1 \in 1 .. l
          /\ \A i \in 1 .. l - 1 : i + 1 \in 1 .. l /\ i + 1 # 1
          /\ \A i, j \in 1 .. l - 1 : i + 1 = j + 1 => i = j
      BY <2>1
    <2>5. CASE client'.control = q
      <3> HIDE DEF r
      <3>1. Len(q) # Len(r)
        BY <2>1
      <3>2. q # r
        BY <3>1
      <3> QED BY <2>1, <2>5, <3>2 DEF Buffered, OnceBuffered, r
    <2>6. CASE client'.control = r
      <3> HIDE DEF r
      <3>1. ASSUME NEW type, Buffered(type)'
            PROVE  Buffered(type)
        <4>1. PICK i \in 1 .. l - 1 : r[i] = type
          BY <2>2, <2>6, <3>1 DEF Buffered
        <4>2. i + 1 \in DOMAIN q /\ q[i + 1] = type
          BY <2>1, <2>3, <4>1
        <4> QED BY <4>2 DEF Buffered
      <3>2. ASSUME NEW i \in 1 .. l - 1, NEW j \in 1 .. l - 1, r[i] = "sign", r[j] = "sign"
            PROVE  i = j
        <4>1. q[i + 1] = "sign" /\ q[j + 1] = "sign" /\ i + 1 \in DOMAIN q /\ j + 1 \in DOMAIN q
          BY <2>1, <2>3, <3>2
        <4> QED BY <2>3, <4>1 DEF OnceBuffered
      <3>3. OnceBuffered'
        BY <2>2, <2>6, <3>2 DEF OnceBuffered
      <3>4. ASSUME Head(q) = "sign", NEW i \in 1 .. l - 1, r[i] = "sign"
            PROVE  FALSE
        <4>1. q[1] = "sign" /\ q[i + 1] = "sign" /\ 1 \in DOMAIN q /\ i + 1 \in DOMAIN q
          BY <2>1, <2>3, <3>4
        <4> QED BY <2>3, <4>1 DEF OnceBuffered
      <3>5. Head(q) = "sign" => ~Buffered("sign")'
        BY <2>2, <2>6, <3>4 DEF Buffered
      <3> QED BY <2>1, <3>1, <3>3, <3>5
    <2> QED BY <2>5, <2>6
  <1> QED BY <1>2, <1>3

(* A step of the client on its socket that writes only types of U.         *)
ClientMoves(U) ==
    /\ client' \in Client /\ permanentFailure' \in BOOLEAN /\ gone' \in BOOLEAN
    /\ permanentFailure => permanentFailure'
    /\ UNCHANGED <<server, state, noticed>>
    /\ closed \subseteq closed' /\ closed' \subseteq Socket
    /\ client'.socket = client.socket
    /\ \/ client'.control = client.control
       \/ client.control # <<>> /\ client'.control = Tail(client.control)
    /\ U \subseteq {"auth", "connectionType", "disconnect", "data"}
    /\ "data" \in U => state[client.socket] = "Done"
    /\ "connectionType" \in U => client'.at = "waitFirst"
    /\ client'.at \in Live => client.at \in Live
    /\ client'.at \in Live /\ client'.at # "waitFirst" => client.at # "waitFirst"
    /\ client'.at \in {"proving", "waitFirst"} =>
          \/ client.at \in {"proving", "waitFirst"}
          \/ client.control # <<>> /\ client'.control = Tail(client.control)
             /\ Head(client.control) = "sign"
    /\ ~client'.isReconnecting => ~client.isReconnecting \/ state[client.socket] = "Done"
    /\ client'.at = "idle" /\ ~permanentFailure' => ~client'.isReconnecting

LEMMA ClientKeeps ==
  ASSUME IInv, NEW U, ClientMoves(U), Talk(pipe', U, {})
  PROVE  IInv'
  <1> DEFINE c == client.socket
  <1>0. TypeOK /\ Talks /\ Moved /\ OnceBuffered
    BY DEF IInv, Talks, Came
  <1>1. TypeOK'
    <2>1. noticed' \in [{"client", "server"} -> SUBSET closed']
      BY <1>0 DEF TypeOK, ClientMoves
    <2> QED BY <1>0, <2>1 DEF TypeOK, ClientMoves, Talk, Pipe
  <1>2. /\ \A type : Buffered(type)' => Buffered(type)
        /\ OnceBuffered'
        /\ client'.control = Tail(client.control) /\ client.control # <<>>
           /\ Head(client.control) = "sign" => ~Buffered("sign")'
    BY <1>0, BufferedLess DEF ClientMoves
  <1>3. client'.at \in {"creating", "waitSign", "proving"} =>
            client.at \in {"creating", "waitSign", "proving"}
    BY DEF ClientMoves, Live
  <1>4. client'.at \in {"proving", "waitFirst"} =>
            \/ client.at \in {"proving", "waitFirst"}
            \/ state[c] # "WaitingForAuth" /\ ~Buffered("sign")' /\ ~In(Down(c), "sign")
    BY <1>0, <1>2, HeadBuffered DEF ClientMoves, Talks, Came
  <1>5. Talks'
    <2>1. /\ state' = state /\ client'.socket = client.socket
          /\ U \subseteq {"auth", "connectionType", "disconnect", "data"}
          /\ {} \subseteq {"ack", "disconnect"}
          /\ "data" \in U => state[client.socket] = "Done"
          /\ "connectionType" \in U => client'.at = "waitFirst"
          /\ ~client'.isReconnecting => ~client.isReconnecting \/ state[client.socket] = "Done"
          /\ client'.at = "idle" /\ ~permanentFailure' => ~client'.isReconnecting
          /\ state[server.socket] = "Done"
      BY <1>0 DEF ClientMoves, Moved
    <2> QED BY <1>0, <1>1, <1>2, <1>3, <1>4, <2>1, TalksKept
  <1>6. Moved'
    BY <1>0, MovedKept DEF ClientMoves
  <1>7. noticed' = noticed /\ \A s \in Socket :
            /\ Up(s) = <<>> /\ s \in closed => Up(s)' = <<>>
            /\ Down(s) = <<>> => Down(s)' = <<>>
    BY <1>0, TalkEmpty DEF ClientMoves, Up, Down
  <1>8. "server" \notin Eager => ServerSees'
    <2>1. noticed["server"] \subseteq closed /\ closed \subseteq Socket
      BY <1>0, TypeFacts
    <2>2. ServerSees => \A s \in noticed'["server"] : Up(s)' = <<>>
      BY <1>7, <2>1 DEF ServerSees
    <2>3. GraceRunsIffLost => GraceRunsIffLost'
      BY DEF ClientMoves, GraceRunsIffLost
    <2> QED BY <2>2, <2>3 DEF IInv, ServerSees, Up
  <1> QED BY <1>1, <1>5, <1>6, <1>8 DEF IInv

(* A step of the server on its socket, or of the network.                  *)
ServerMoves ==
    /\ UNCHANGED <<client, permanentFailure, gone, state, noticed>>
    /\ server' \in Server /\ server'.socket = server.socket
    /\ server'.open = server.open \/ server.socket \in closed'
    /\ closed \subseteq closed' /\ closed' \subseteq Socket
    /\ "server" \notin Eager => GraceRunsIffLost'

LEMMA ServerKeeps ==
  ASSUME IInv, ServerMoves, Talk(pipe', {}, {"ack", "disconnect"})
  PROVE  IInv'
  <1> DEFINE c == client.socket
  <1>0. TypeOK /\ Talks /\ Moved /\ OnceBuffered
    BY DEF IInv, Talks, Came
  <1>1. TypeOK'
    <2>1. noticed' \in [{"client", "server"} -> SUBSET closed']
      BY <1>0 DEF TypeOK, ServerMoves
    <2> QED BY <1>0, <2>1 DEF TypeOK, ServerMoves, Talk, Pipe
  <1>2. (\A type : Buffered(type)' => Buffered(type)) /\ OnceBuffered'
    BY <1>0 DEF ServerMoves, Buffered, OnceBuffered
  <1>3. Talks'
    <2>1. /\ state' = state /\ client'.socket = client.socket
          /\ {} \subseteq {"auth", "connectionType", "disconnect", "data"}
          /\ ~client'.isReconnecting => ~client.isReconnecting \/ state[client.socket] = "Done"
          /\ client'.at = "idle" /\ ~permanentFailure' => ~client'.isReconnecting
          /\ state[server.socket] = "Done" /\ client'.at = client.at
      BY <1>0 DEF ServerMoves, Moved, Talks, Attempt
    <2>2. /\ "data" \in {} => state[client.socket] = "Done"
          /\ "connectionType" \in {} => client'.at = "waitFirst"
      OBVIOUS
    <2> QED BY <1>0, <1>1, <1>2, <2>1, <2>2, TalksKept
  <1>4. Moved'
    BY <1>0, MovedKept DEF ServerMoves
  <1>5. noticed' = noticed /\ \A s \in Socket :
            /\ Up(s) = <<>> => Up(s)' = <<>>
            /\ Down(s) = <<>> /\ s \in closed => Down(s)' = <<>>
    BY <1>0, TalkEmpty DEF ServerMoves, Up, Down
  <1>6. /\ noticed["server"] \subseteq Socket
        /\ noticed["client"] \subseteq closed /\ c \in Socket
    BY <1>0, TypeFacts
  <1>7. "server" \notin Eager => ServerSees'
    <2>1. ServerSees => \A s \in noticed'["server"] : Up(s)' = <<>>
      BY <1>5, <1>6 DEF ServerSees
    <2> QED BY <2>1 DEF IInv, ServerSees, ServerMoves, Up
  <1> QED BY <1>1, <1>3, <1>4, <1>7 DEF IInv

-----------------------------------------------------------------------------
(* The steps of the client.                                                *)

LEMMA Messages ==
  /\ \A type \in MessageType : Plain(type) \in Message /\ Plain(type).type = type
  /\ \A n \in 0 .. MaxSend : /\ Data(n) \in Message /\ Data(n).type = "data"
                             /\ Ack(n) \in Message /\ Ack(n).type = "ack"
  /\ {"auth", "connectionType", "disconnect", "sign", "ok", "error"} \subseteq MessageType
  BY BoundAssumption DEF Plain, Data, Ack, Message, MessageType, ControlType

LEMMA WritesOne ==
  ASSUME TypeOK, NEW m \in Message
  PROVE  Talk(ClientWrites(<<m>>), {m.type}, {})
  <1>1. <<m>> \in Seq(Message) /\ \A type : In(<<m>>, type) => type \in {m.type}
    BY One
  <1> QED BY <1>1, TalkWrites

LEMMA Rewritten ==
  ASSUME NEW c \in Client
  PROVE  /\ Unacknowledged(c) \in Seq(Message)
         /\ \A type : In(Unacknowledged(c), type) => type \in {"data"}
  <1> DEFINE k == c.sent - c.acked
             q == Unacknowledged(c)
  <1>1. c.sent \in 0 .. MaxSend /\ c.acked \in 0 .. MaxSend /\ MaxSend \in Nat
    BY BoundAssumption DEF Client
  <1>2. \A i \in 1 .. k : Data(c.acked + i) \in Message /\ Data(c.acked + i).type = "data"
    BY <1>1, Messages
  <1>3. DOMAIN q = 1 .. k /\ \A i \in 1 .. k : q[i] = Data(c.acked + i)
    BY DEF Unacknowledged
  <1>4. q \in [1 .. k -> Message]
    BY <1>2 DEF Unacknowledged
  <1>5. q \in Seq(Message)
    <2>1. CASE k >= 0
      <3>1. k \in Nat
        BY <1>1, <2>1
      <3> HIDE DEF k, q
      <3> QED BY <1>4, <3>1, SeqDef
    <2>2. CASE k < 0
      <3>1. 1 .. k = 1 .. 0
        BY <1>1, <2>2
      <3> HIDE DEF k, q
      <3> QED BY <1>4, <3>1, SeqDef
    <2> QED BY <1>1, <2>1, <2>2
  <1>6. \A type : In(q, type) => type \in {"data"}
    <2> HIDE DEF k, q
    <2> QED BY <1>2, <1>3 DEF In
  <1> QED BY <1>5, <1>6

LEMMA ClientType ==
  ASSUME TypeOK
  PROVE  /\ client \in Client /\ permanentFailure \in BOOLEAN /\ gone \in BOOLEAN
         /\ closed \subseteq Socket /\ client.socket \in Socket
  BY TypeFacts DEF TypeOK

(* The loop moves.                                                         *)
LEMMA Moving ==
  ASSUME NEW c \in Client, NEW at \in Phase, NEW attempt \in 0 .. MaxAttempts + 1,
         NEW disposed \in BOOLEAN
  PROVE  /\ [c EXCEPT !.at = at, !.attempt = attempt] \in Client
         /\ [c EXCEPT !.at = at, !.attempt = attempt, !.disposed = disposed] \in Client
  BY DEF Client

LEMMA MovingOn ==
  ASSUME NEW c \in Client, NEW at \in Phase
  PROVE  [c EXCEPT !.at = at] \in Client
  BY DEF Client

LEMMA GivesUp ==
  ASSUME IInv, NEW c \in Client, GiveUp(c), UNCHANGED <<gone, server, state, noticed>>,
         c.socket = client.socket, c.isReconnecting = client.isReconnecting,
         \/ c.control = client.control
         \/ client.control # <<>> /\ c.control = Tail(client.control)
  PROVE  IInv'
  <1>1. TypeOK
    BY DEF IInv
  <1>2. Talk(pipe', {}, {}) /\ closed' = closed \cup {client.socket}
    BY <1>1, ClientType, TalkDestroys DEF GiveUp
  <1>3. /\ client' \in Client /\ client'.socket = c.socket /\ client'.control = c.control
        /\ client'.isReconnecting = c.isReconnecting /\ client'.at = "idle" /\ permanentFailure'
    <2>1. client' = [c EXCEPT !.at = "idle", !.attempt = 0, !.disposed = TRUE] /\ permanentFailure'
      BY DEF GiveUp
    <2>2. "idle" \in Phase /\ 0 \in 0 .. MaxAttempts + 1 /\ TRUE \in BOOLEAN
      BY BoundAssumption DEF Phase
    <2>3. client' \in Client
      BY <2>1, <2>2, Moving
    <2> QED BY <2>1, <2>3 DEF Client
  <1>4. permanentFailure' \in BOOLEAN
    BY DEF GiveUp
  <1>5. ClientMoves({})
    BY <1>1, <1>2, <1>3, <1>4, ClientType DEF ClientMoves, Live
  <1> QED BY <1>2, <1>5, ClientKeeps

(* A step that writes nothing and does not come back from a handshake.     *)
LEMMA StaysQuiet ==
  ASSUME IInv, client' \in Client, UNCHANGED <<gone, server, state, noticed, pipe, closed>>,
         permanentFailure' = permanentFailure,
         client'.socket = client.socket, client'.control = client.control,
         client'.isReconnecting = client.isReconnecting,
         client'.at \in Live => client'.at = client.at,
         client'.at = "idle" => client.at = "idle" \/ permanentFailure
  PROVE  IInv'
  <1>1. TypeOK /\ Attempt
    BY DEF IInv, Talks
  <1>2. Talk(pipe', {}, {})
    BY <1>1, TalkNothing
  <1>3. ClientMoves({})
    BY <1>1, ClientType DEF ClientMoves, Live, Attempt
  <1> QED BY <1>2, <1>3, ClientKeeps

LEMMA Retries ==
  ASSUME IInv, Retry, UNCHANGED <<gone, server, state, noticed>>
  PROVE  IInv'
  <1>1. client \in Client /\ TypeOK
    BY ClientType DEF IInv
  <1>2. CASE client.attempt > MaxAttempts
    BY <1>1, <1>2, GivesUp DEF Retry
  <1>3. CASE ~(client.attempt > MaxAttempts)
    <2>1. /\ client' = IF permanentFailure THEN [client EXCEPT !.at = "idle", !.attempt = 0]
                       ELSE [client EXCEPT !.at = "sleeping", !.attempt = @ + 1]
          /\ UNCHANGED <<permanentFailure, pipe, closed>>
      BY <1>3 DEF Retry
    <2>2. client' \in Client
      <3>1. client.attempt \in 0 .. MaxAttempts + 1
        BY <1>1 DEF Client
      <3>2. /\ {"idle", "sleeping"} \subseteq Phase
            /\ 0 \in 0 .. MaxAttempts + 1 /\ client.attempt + 1 \in 0 .. MaxAttempts + 1
        BY <1>3, <3>1, BoundAssumption DEF Phase
      <3> QED BY <1>1, <2>1, <3>2, Moving
    <2>3. /\ client'.socket = client.socket /\ client'.control = client.control
          /\ client'.isReconnecting = client.isReconnecting
          /\ client'.at = IF permanentFailure THEN "idle" ELSE "sleeping"
      BY <1>1, <2>1 DEF Client
    <2>4. client'.at \notin Live
      BY <2>3 DEF Live
    <2> QED BY <2>1, <2>2, <2>3, <2>4, StaysQuiet
  <1> QED BY <1>2, <1>3

LEMMA BeginsReconnecting ==
  ASSUME NEW c \in Client
  PROVE  LET b == BeginReconnecting(c)
         IN  /\ b \in Client /\ b.socket = c.socket /\ b.control = c.control
             /\ b.isReconnecting = c.isReconnecting
             /\ b.at = IF c.at = "idle" /\ ~permanentFailure THEN "resolving" ELSE c.at
  BY DEF BeginReconnecting, Client, Phase

(* Its close event comes after all that was on its way, or may be early.   *)
LEMMA SocketCloseKeeps == IInv /\ SocketClose => IInv'
  <1> SUFFICES ASSUME IInv, SocketClose
               PROVE  IInv'
    OBVIOUS
  <1> DEFINE c == client.socket
  <1>0. /\ TypeOK /\ Talks /\ Moved /\ client \in Client /\ c \in Socket /\ c \in closed
        /\ UNCHANGED <<permanentFailure, gone, server, state, pipe, closed>>
        /\ noticed' = [noticed EXCEPT !["client"] = @ \cup {c}]
    BY ClientType DEF IInv, SocketClose
  <1>1. /\ client' \in Client /\ client'.socket = c /\ client'.control = client.control
        /\ client'.isReconnecting = client.isReconnecting
        /\ client'.at = IF client.at = "idle" /\ ~permanentFailure THEN "resolving" ELSE client.at
    BY <1>0, BeginsReconnecting DEF SocketClose
  <1>2. /\ noticed' \in [{"client", "server"} -> SUBSET closed]
        /\ noticed'["server"] = noticed["server"]
    BY <1>0 DEF TypeOK
  <1>3. TypeOK'
    BY <1>0, <1>1, <1>2 DEF TypeOK
  <1>4. Talks'
    <2>1. Carried'
      BY <1>0 DEF Talks, Carried, Up, Down
    <2>2. Came'
      BY <1>0, <1>1 DEF Talks, Came, Down, Buffered, OnceBuffered
    <2>3. Attempt'
      BY <1>0, <1>1 DEF Talks, Attempt, Up, Down, Buffered
    <2> QED BY <2>1, <2>2, <2>3 DEF Talks
  <1>5. Moved'
    BY <1>0 DEF Moved
  <1>6. "server" \notin Eager => ServerSees'
    BY <1>0, <1>2 DEF IInv, ServerSees, GraceRunsIffLost, Up
  <1> QED BY <1>3, <1>4, <1>5, <1>6 DEF IInv

LEMMA LoopKeeps == IInv /\ (SocketTimeout \/ Wake \/ Resolve) => IInv'
  <1>0. ASSUME IInv
        PROVE  client \in Client
    BY <1>0, ClientType DEF IInv
  <1>1. ASSUME IInv, SocketTimeout
        PROVE  IInv'
    <2>1. /\ client' \in Client /\ client'.socket = client.socket
          /\ client'.control = client.control /\ client'.isReconnecting = client.isReconnecting
          /\ client'.at = IF client.at = "idle" /\ ~permanentFailure
                          THEN "resolving" ELSE client.at
      BY <1>0, <1>1, BeginsReconnecting DEF SocketTimeout
    <2> QED BY <1>1, <2>1, StaysQuiet DEF SocketTimeout, Live
  <1>2. ASSUME IInv, Wake
        PROVE  IInv'
    <2>1. client' = IF permanentFailure THEN [client EXCEPT !.at = "idle", !.attempt = 0]
                    ELSE [client EXCEPT !.at = "resolving"]
      BY <1>2 DEF Wake
    <2>2. {"idle", "resolving"} \subseteq Phase /\ 0 \in 0 .. MaxAttempts + 1
      BY BoundAssumption DEF Phase
    <2>3. client' \in Client
      BY <1>0, <1>2, <2>1, <2>2, Moving, MovingOn
    <2>4. /\ client'.socket = client.socket /\ client'.control = client.control
          /\ client'.isReconnecting = client.isReconnecting
          /\ client'.at = IF permanentFailure THEN "idle" ELSE "resolving"
      BY <1>0, <1>2, <2>1 DEF Client
    <2> QED BY <1>2, <2>3, <2>4, StaysQuiet DEF Wake, Live
  <1>3. ASSUME IInv, Resolve
        PROVE  IInv'
    <2>1. client' = [client EXCEPT !.at = "connecting"] /\ "connecting" \in Phase
      BY <1>3 DEF Resolve, Phase
    <2>2. client' \in Client
      BY <1>0, <1>3, <2>1, MovingOn
    <2>3. /\ client'.socket = client.socket /\ client'.control = client.control
          /\ client'.isReconnecting = client.isReconnecting /\ client'.at = "connecting"
      BY <1>0, <1>3, <2>1 DEF Client
    <2> QED BY <1>3, <2>2, <2>3, StaysQuiet DEF Resolve, Live
  <1> QED BY <1>1, <1>2, <1>3

LEMMA FailuresKeep == IInv /\ (Unreachable \/ TimeLimit \/ Refused) => IInv'
  <1>1. IInv /\ (Unreachable \/ TimeLimit) => IInv'
    BY Retries DEF Unreachable, TimeLimit
  <1>2. ASSUME IInv, Refused
        PROVE  IInv'
    <2>1. client \in Client
      BY <1>2, ClientType DEF IInv
    <2> QED BY <1>2, <2>1, GivesUp DEF Refused
  <1> QED BY <1>1, <1>2

LEMMA SendAuthKeeps == IInv /\ SendAuth => IInv'
  <1> SUFFICES ASSUME IInv, SendAuth
               PROVE  IInv'
    OBVIOUS
  <1>1. TypeOK /\ client \in Client
    BY ClientType DEF IInv
  <1>2. Talk(pipe', {"auth"}, {})
    <2>1. Plain("auth") \in Message /\ Plain("auth").type = "auth"
      BY Messages
    <2> QED BY <1>1, <2>1, WritesOne DEF SendAuth
  <1>3. client' \in Client
    BY <1>1, MovingOn DEF SendAuth, Phase
  <1>4. /\ client.at = "creating" /\ client' = [client EXCEPT !.at = "waitSign"]
        /\ client'.socket = client.socket /\ client'.control = client.control
        /\ client'.isReconnecting = client.isReconnecting /\ client'.at = "waitSign"
    BY <1>1 DEF SendAuth, Client
  <1>5. ClientMoves({"auth"})
    BY <1>1, <1>3, <1>4, ClientType DEF ClientMoves, SendAuth, Live
  <1> QED BY <1>2, <1>5, ClientKeeps

LEMMA SendConnectionTypeKeeps == IInv /\ SendConnectionType => IInv'
  <1> SUFFICES ASSUME IInv, SendConnectionType
               PROVE  IInv'
    OBVIOUS
  <1>1. TypeOK /\ client \in Client
    BY ClientType DEF IInv
  <1>2. Talk(pipe', {"connectionType"}, {})
    <2>1. Plain("connectionType") \in Message /\ Plain("connectionType").type = "connectionType"
      BY Messages
    <2> QED BY <1>1, <2>1, WritesOne DEF SendConnectionType
  <1>3. client' \in Client
    BY <1>1, MovingOn DEF SendConnectionType, Phase
  <1>4. /\ client.at = "proving" /\ client' = [client EXCEPT !.at = "waitFirst"]
        /\ client'.socket = client.socket /\ client'.control = client.control
        /\ client'.isReconnecting = client.isReconnecting /\ client'.at = "waitFirst"
    BY <1>1 DEF SendConnectionType, Client
  <1>5. ClientMoves({"connectionType"})
    BY <1>1, <1>3, <1>4, ClientType DEF ClientMoves, SendConnectionType, Live
  <1> QED BY <1>2, <1>5, ClientKeeps

LEMMA HandleControlKeeps == IInv /\ HandleControl => IInv'
  <1> SUFFICES ASSUME IInv, HandleControl
               PROVE  IInv'
    OBVIOUS
  <1> DEFINE type == Head(client.control)
             c == [client EXCEPT !.control = Tail(@)]
  <1>0. /\ TypeOK /\ Talks /\ client \in Client /\ client.control # <<>> /\ Listening
        /\ UNCHANGED <<gone, server, state, noticed>>
    BY ClientType DEF IInv, HandleControl
  <1>1. type \in ControlType /\ Tail(client.control) \in Seq(ControlType)
    <2>1. client.control \in Seq(ControlType)
      BY <1>0 DEF Client
    <2> QED BY <1>0, <2>1, HeadTailProperties
  <1>2. /\ c \in Client /\ c.socket = client.socket /\ c.control = Tail(client.control)
        /\ c.isReconnecting = client.isReconnecting /\ c.at = client.at
    BY <1>0, <1>1 DEF Client
  <1>3. Buffered(type)
    BY <1>0, HeadBuffered
  <1> HIDE DEF c
  <1>4. \/ GiveUp(c)
        \/ /\ client.at = "waitSign" /\ type = "sign"
           /\ client' = [c EXCEPT !.at = "proving"]
           /\ UNCHANGED <<permanentFailure, pipe, closed>>
        \/ /\ client.at = "waitFirst" /\ type # "error"
           /\ EndReconnection(c)
    BY DEF HandleControl, c
  <1>5. CASE GiveUp(c)
    BY <1>0, <1>2, <1>5, GivesUp
  <1>6. CASE /\ client.at = "waitSign" /\ type = "sign"
             /\ client' = [c EXCEPT !.at = "proving"]
             /\ UNCHANGED <<permanentFailure, pipe, closed>>
    <2>1. client' \in Client
      BY <1>2, <1>6, MovingOn DEF Phase
    <2>2. /\ client'.socket = client.socket /\ client'.control = Tail(client.control)
          /\ client'.isReconnecting = client.isReconnecting /\ client'.at = "proving"
      BY <1>2, <1>6 DEF Client
    <2>3. Talk(pipe', {}, {})
      BY <1>0, <1>6, TalkNothing
    <2>4. ClientMoves({})
      BY <1>0, <1>6, <2>1, <2>2, ClientType DEF ClientMoves, Live
    <2> QED BY <2>3, <2>4, ClientKeeps
  <1>7. CASE /\ client.at = "waitFirst" /\ type # "error"
             /\ EndReconnection(c)
    <2>1. type = "ok" /\ state[client.socket] = "Done"
      BY <1>0, <1>1, <1>3, <1>7 DEF Talks, Came, Attempt, ControlType
    <2>2. /\ client' = [c EXCEPT !.at = "idle", !.attempt = 0, !.isReconnecting = FALSE]
          /\ pipe' = ClientWrites(Unacknowledged(c))
          /\ UNCHANGED <<permanentFailure, closed>>
      BY <1>7 DEF EndReconnection
    <2>3. Talk(pipe', {"data"}, {})
      BY <1>0, <1>2, <2>2, Rewritten, TalkWrites
    <2>4. client' \in Client
      <3>1. "idle" \in Phase /\ 0 \in 0 .. MaxAttempts + 1
        BY BoundAssumption DEF Phase
      <3> QED BY <1>2, <2>2, <3>1 DEF Client
    <2>5. /\ client'.socket = client.socket /\ client'.control = Tail(client.control)
          /\ client'.isReconnecting = FALSE /\ client'.at = "idle"
      BY <1>2, <2>2 DEF Client
    <2>6. ClientMoves({"data"})
      BY <1>0, <1>3, <1>7, <2>1, <2>2, <2>4, <2>5, ClientType DEF ClientMoves, Live
    <2> QED BY <2>3, <2>6, ClientKeeps
  <1> QED BY <1>4, <1>5, <1>6, <1>7

LEMMA SendKeeps == IInv /\ Send => IInv'
  <1> SUFFICES ASSUME IInv, Send
               PROVE  IInv'
    OBVIOUS
  <1>0. /\ TypeOK /\ Talks /\ client \in Client
        /\ UNCHANGED <<permanentFailure, gone, server, state, closed, noticed>>
        /\ client' = [client EXCEPT !.sent = @ + 1]
    BY ClientType DEF IInv, Send
  <1>1. client.sent \in 0 .. MaxSend /\ client.sent + 1 \in 0 .. MaxSend
    BY <1>0, BoundAssumption DEF Client, Send
  <1>2. client' \in Client
    BY <1>0, <1>1 DEF Client
  <1>3. /\ client'.socket = client.socket /\ client'.control = client.control
        /\ client'.isReconnecting = client.isReconnecting /\ client'.at = client.at
    BY <1>0 DEF Client
  <1>4. CASE client.isReconnecting
    <2>1. pipe' = pipe
      BY <1>4 DEF Send
    <2> QED BY <1>0, <1>2, <1>3, <2>1, StaysQuiet
  <1>5. CASE ~client.isReconnecting
    <2>1. state[client.socket] = "Done"
      BY <1>0, <1>5 DEF Talks, Attempt
    <2>2. Talk(pipe', {"data"}, {})
      <3>1. Data(client.sent + 1) \in Message /\ Data(client.sent + 1).type = "data"
        BY <1>1, Messages
      <3> QED BY <1>0, <1>5, <3>1, WritesOne DEF Send
    <2>3. ClientMoves({"data"})
      BY <1>0, <1>2, <1>3, <1>5, <2>1, ClientType DEF ClientMoves
    <2> QED BY <2>2, <2>3, ClientKeeps
  <1> QED BY <1>4, <1>5

LEMMA SiblingKeeps == IInv /\ SiblingFails => IInv'
  <1> SUFFICES ASSUME IInv, SiblingFails
               PROVE  IInv'
    OBVIOUS
  <1>1. TypeOK /\ Talks /\ client \in Client
    BY ClientType DEF IInv
  <1>2. Talk(pipe', {}, {}) /\ closed' = closed \cup {client.socket}
    BY <1>1, ClientType, TalkDestroys DEF SiblingFails
  <1>3. client' \in Client
    BY <1>1 DEF SiblingFails, Client
  <1>4. /\ client'.socket = client.socket /\ client'.control = client.control
        /\ client'.isReconnecting = client.isReconnecting /\ client'.at = client.at
    BY <1>1 DEF SiblingFails, Client
  <1>5. permanentFailure' /\ permanentFailure' \in BOOLEAN
    BY DEF SiblingFails
  <1>6. ClientMoves({})
    BY <1>1, <1>2, <1>3, <1>4, <1>5, ClientType DEF ClientMoves, SiblingFails
  <1> QED BY <1>2, <1>6, ClientKeeps

LEMMA LeaveKeeps == IInv /\ Leave => IInv'
  <1> SUFFICES ASSUME IInv, Leave
               PROVE  IInv'
    OBVIOUS
  <1>1. TypeOK /\ Talks /\ client \in Client
    BY ClientType DEF IInv
  <1>2. Talk(pipe', {"disconnect"}, {})
    <2>1. Plain("disconnect") \in Message /\ Plain("disconnect").type = "disconnect"
      BY Messages
    <2>2. Talk(ClientWrites(<<Plain("disconnect")>>), {"disconnect"}, {})
      BY <1>1, <2>1, WritesOne
    <2>3. Talk(pipe, {"disconnect"}, {})
      BY <1>1, TalkNothing, TalkMore
    <2> QED BY <2>2, <2>3 DEF Leave
  <1>3. gone' \in BOOLEAN /\ UNCHANGED <<client, permanentFailure, server, state, closed, noticed>>
    BY DEF Leave
  <1>4. ClientMoves({"disconnect"})
    BY <1>1, <1>3, ClientType DEF ClientMoves, Talks, Attempt
  <1> QED BY <1>2, <1>4, ClientKeeps

LEMMA ConnectKeeps == IInv /\ (\E s \in Socket : Connect(s)) => IInv'
  <1> SUFFICES ASSUME IInv, NEW s \in Socket, Connect(s)
               PROVE  IInv'
    OBVIOUS
  <1>0. /\ TypeOK /\ Talks /\ Moved /\ client \in Client /\ client.socket \in Socket
        /\ state[s] = "none" /\ client.at = "connecting"
        /\ state' = [state EXCEPT ![s] = "WaitingForAuth"]
        /\ UNCHANGED <<permanentFailure, gone, server, noticed>>
    BY ClientType DEF IInv, Connect
  <1>1. Talk(pipe', {}, {}) /\ closed' = closed \cup {client.socket}
    BY <1>0, TalkDestroys DEF Connect
  <1>2. /\ client' \in Client /\ client'.socket = s /\ client'.control = <<>>
        /\ client'.isReconnecting = TRUE /\ client'.at = "creating"
    BY <1>0, EmptySeq DEF Connect, Rebind, Client, Phase
  <1>3. /\ state' \in [Socket -> HandshakeState] /\ state'[s] = "WaitingForAuth"
        /\ \A t \in Socket : t # s => state'[t] = state[t]
    BY <1>0 DEF TypeOK, HandshakeState
  <1>4. Up(s) = <<>> /\ Down(s) = <<>>
    BY <1>0 DEF Talks, Carried
  <1>5. \A t \in Socket : /\ Up(t) = <<>> => pipe'[t].up = <<>>
                          /\ Down(t) = <<>> => pipe'[t].down = <<>>
    BY <1>0, <1>1, TalkEmpty
  <1>6. pipe'[s].up = <<>> /\ pipe'[s].down = <<>>
    BY <1>4, <1>5
  <1>7. /\ \A type : ~In(<<>>, type)
        /\ Once(<<>>)
    BY DEF In, Once
  <1>8. TypeOK'
    <2>1. noticed' \in [{"client", "server"} -> SUBSET closed'] /\ closed' \subseteq Socket
      BY <1>0, <1>1, TypeFacts DEF TypeOK
    <2> QED BY <1>0, <1>1, <1>2, <1>3, <2>1 DEF TypeOK, Talk, Pipe
  <1>9. Carried'
    <2> SUFFICES ASSUME NEW t \in Socket
                 PROVE  /\ state'[t] = "none" => Up(t)' = <<>> /\ Down(t)' = <<>>
                        /\ In(Up(t)', "data") => state'[t] = "Done"
                        /\ ~In(Up(t)', "ack")
                        /\ In(Down(t)', "sign") => state'[t] \notin {"none", "WaitingForAuth"}
                        /\ In(Down(t)', "ok") => state'[t] = "Done"
                        /\ ~In(Down(t)', "auth") /\ ~In(Down(t)', "connectionType")
                        /\ Once(Down(t)')
      BY DEF Carried
    <2>1. CASE t = s
      BY <1>3, <1>6, <1>7, <2>1 DEF Up, Down
    <2>2. CASE t # s
      <3>1. /\ state[t] = "none" => Up(t) = <<>> /\ Down(t) = <<>>
            /\ In(Up(t), "data") => state[t] = "Done"
            /\ ~In(Up(t), "ack")
            /\ In(Down(t), "sign") => state[t] \notin {"none", "WaitingForAuth"}
            /\ In(Down(t), "ok") => state[t] = "Done"
            /\ ~In(Down(t), "auth") /\ ~In(Down(t), "connectionType")
            /\ Once(Down(t))
        BY <1>0 DEF Talks, Carried
      <3>2. /\ \A type : In(Up(t)', type) => In(Up(t), type)
            /\ \A type : In(Down(t)', type) => In(Down(t), type)
            /\ Once(Down(t)) => Once(Down(t)')
        BY <1>1 DEF Talk, Up, Down
      <3>3. state'[t] = state[t]
        BY <1>3, <2>2
      <3>4. state[t] = "none" => Up(t)' = <<>> /\ Down(t)' = <<>>
        BY <1>5, <3>1 DEF Up, Down
      <3> QED BY <3>1, <3>2, <3>3, <3>4
    <2> QED BY <2>1, <2>2
  <1>10. \A type : ~Buffered(type)'
    BY <1>2 DEF Buffered
  <1>11. Came'
    BY <1>2, <1>10 DEF Came, OnceBuffered
  <1>12. Attempt'
    BY <1>2, <1>3, <1>6, <1>7, <1>10 DEF Attempt, Up, Down
  <1>13. Moved'
    <2>1. s # server.socket /\ server.socket \in Socket
      BY <1>0, TypeFacts DEF Moved
    <2>2. \A t \in Socket : state'[t] = "Done" => t # s
      BY <1>3
    <2> QED BY <1>0, <1>1, <1>3, <2>1, <2>2 DEF Moved
  <1>14. "server" \notin Eager => ServerSees'
    <2>1. noticed["server"] \subseteq Socket
      BY <1>0, TypeFacts
    <2> QED BY <1>0, <1>5, <2>1 DEF IInv, ServerSees, GraceRunsIffLost, Up
  <1> QED BY <1>8, <1>9, <1>11, <1>12, <1>13, <1>14 DEF IInv, Talks

LEMMA ClientReceiveKeeps == IInv /\ ClientReceive => IInv'
  <1> SUFFICES ASSUME IInv, ClientReceive
               PROVE  IInv'
    OBVIOUS
  <1> DEFINE c == client.socket
             m == Head(Down(c))
             q == Tail(Down(c))
  <1>0. /\ TypeOK /\ Talks /\ Moved /\ client \in Client /\ c \in Socket /\ Down(c) # <<>>
        /\ pipe' = [pipe EXCEPT ![c].down = q]
        /\ client' = IF m.type \in ControlType
                     THEN [client EXCEPT !.control = Append(@, m.type)]
                     ELSE IF m.type = "ack" /\ m.n > client.acked
                     THEN [client EXCEPT !.acked = m.n]
                     ELSE client
        /\ UNCHANGED <<permanentFailure, gone, server, state, closed, noticed>>
    BY ClientType DEF IInv, ClientReceive, Down
  <1>1. /\ q \in Seq(Message) /\ m \in Message /\ In(Down(c), m.type)
        /\ \A type : In(q, type) => In(Down(c), type)
        /\ Once(Down(c)) => Once(q) /\ (m.type = "sign" => ~In(q, "sign"))
    <2>1. Down(c) \in Seq(Message)
      BY <1>0, TypeFacts
    <2> QED BY <1>0, <2>1, Popped
  <1> HIDE DEF q, m
  <1>2. Talk(pipe', {}, {}) /\ pipe'[c].down = q
    <2>1. pipe \in Pipe
      BY <1>0, TypeFacts
    <2>2. /\ pipe' \in Pipe /\ pipe'[c].down = q
          /\ \A t \in Socket : pipe'[t].up = pipe[t].up /\ (t # c => pipe'[t].down = pipe[t].down)
      <3>1. c \in Socket /\ pipe' = [pipe EXCEPT ![c].down = q] /\ q \in Seq(Message)
        BY <1>0, <1>1
      <3> HIDE DEF c
      <3> QED BY <2>1, <3>1 DEF Pipe
    <2>3. ASSUME NEW t \in Socket
          PROVE  /\ \A type : In(pipe'[t].up, type) => In(Up(t), type)
                 /\ \A type : In(pipe'[t].down, type) => In(Down(t), type)
                 /\ Once(Down(t)) => Once(pipe'[t].down)
      <3>1. CASE t = c
        BY <1>1, <2>2, <3>1 DEF Up
      <3>2. CASE t # c
        BY <2>2, <3>2 DEF Up, Down
      <3> QED BY <3>1, <3>2
    <2> QED BY <2>2, <2>3 DEF Talk
  <1>3. CASE m.type \notin ControlType
    <2>1. client' \in Client
      <3>1. m.n \in 0 .. MaxSend
        BY <1>1 DEF Message
      <3> QED BY <1>0, <1>3, <3>1 DEF Client
    <2>2. /\ client'.socket = client.socket /\ client'.control = client.control
          /\ client'.isReconnecting = client.isReconnecting /\ client'.at = client.at
      BY <1>0, <1>3 DEF Client
    <2>3. ClientMoves({})
      BY <1>0, <2>1, <2>2, ClientType DEF ClientMoves, Talks, Attempt
    <2> QED BY <1>2, <2>3, ClientKeeps
  <1>4. CASE m.type \in ControlType
    <2> DEFINE r == Append(client.control, m.type)
    <2>1. client' = [client EXCEPT !.control = r]
      BY <1>0, <1>4
    <2>2. PICK l \in Nat : /\ DOMAIN client.control = 1 .. l /\ r \in Seq(ControlType)
                           /\ DOMAIN r = 1 .. l + 1
                           /\ \A i \in 1 .. l : r[i] = client.control[i]
                           /\ r[l + 1] = m.type
      <3>1. client.control \in Seq(ControlType)
        BY <1>0 DEF Client
      <3> QED BY <1>4, <3>1, AppendProperties, LenProperties
    <2> HIDE DEF r
    <2>3. /\ client' \in Client /\ client'.socket = c /\ client'.control = r
          /\ client'.isReconnecting = client.isReconnecting /\ client'.at = client.at
      BY <1>0, <2>1, <2>2 DEF Client
    <2>4. \A i \in 1 .. l + 1 : i \in 1 .. l \/ i = l + 1
      BY <2>2
    <2>5. \A type : Buffered(type)' => Buffered(type) \/ type = m.type
      BY <2>2, <2>3, <2>4 DEF Buffered
    <2>6. m.type # "auth" /\ m.type # "connectionType"
      BY <1>0, <1>1 DEF Talks, Carried
    <2>7. m.type = "ok" => state[c] = "Done"
      BY <1>0, <1>1 DEF Talks, Carried
    <2>8. m.type = "sign" => /\ state[c] # "WaitingForAuth" /\ ~Buffered("sign") /\ ~In(q, "sign")
                             /\ client.at \notin {"proving", "waitFirst"}
      <3>1. Once(Down(c)) /\ (In(Down(c), "sign") => state[c] # "WaitingForAuth")
        BY <1>0 DEF Talks, Carried
      <3> QED BY <1>0, <1>1, <3>1 DEF Talks, Came, Attempt
    <2>9. OnceBuffered'
      <3> SUFFICES ASSUME NEW i \in 1 .. l + 1, NEW j \in 1 .. l + 1, r[i] = "sign", r[j] = "sign"
                   PROVE  i = j
        BY <2>2, <2>3 DEF OnceBuffered
      <3>1. CASE m.type = "sign"
        <4>1. ~(i \in 1 .. l) /\ ~(j \in 1 .. l)
          BY <2>2, <2>8, <3>1 DEF Buffered
        <4> QED BY <2>4, <4>1
      <3>2. CASE m.type # "sign"
        <4>1. i \in 1 .. l /\ j \in 1 .. l
          BY <2>2, <2>4, <3>2
        <4> QED BY <1>0, <2>2, <4>1 DEF Talks, Came, OnceBuffered
      <3> QED BY <3>1, <3>2
    <2>10. TypeOK'
      BY <1>0, <1>2, <2>3 DEF TypeOK, Talk, Pipe
    <2>11. Carried'
      <3>1. state[server.socket] = "Done" /\ state' = state
        BY <1>0 DEF Moved
      <3> QED BY <1>0, <1>2, <3>1, CarriedKept
    <2>12. In(q, "sign") => In(Down(c), "sign")
      BY <1>1
    <2>13. Came'
      <3>1. Buffered("sign")' => state[c] # "WaitingForAuth" /\ ~In(q, "sign")
        BY <1>0, <2>5, <2>8, <2>12 DEF Talks, Came
      <3>2. Buffered("ok")' => state[c] = "Done"
        BY <1>0, <2>5, <2>7 DEF Talks, Came
      <3>3. ~Buffered("auth")' /\ ~Buffered("connectionType")'
        BY <1>0, <2>5, <2>6 DEF Talks, Came
      <3> QED BY <1>0, <1>2, <2>3, <2>9, <3>1, <3>2, <3>3 DEF Came, Down
    <2>14. Attempt'
      <3>1. client.at \in {"proving", "waitFirst"} => ~Buffered("sign")' /\ ~In(q, "sign")
        BY <1>0, <2>5, <2>8, <2>12 DEF Talks, Attempt
      <3>2. ~In(Up(c), "connectionType") => ~In(pipe'[c].up, "connectionType")
        BY <1>0, <1>2 DEF Talk
      <3> QED BY <1>0, <1>2, <2>3, <3>1, <3>2 DEF Talks, Attempt, Up, Down
    <2>15. Moved'
      BY <1>0 DEF Moved
    <2>16. "server" \notin Eager => ServerSees'
      <3>1. noticed["server"] \subseteq Socket
        BY <1>0, TypeFacts
      <3>2. \A t \in Socket : Up(t) = <<>> => pipe'[t].up = <<>>
        BY <1>0, <1>2, TalkEmpty
      <3> QED BY <1>0, <3>1, <3>2 DEF IInv, ServerSees, GraceRunsIffLost, Up
    <2> QED BY <2>10, <2>11, <2>13, <2>14, <2>15, <2>16 DEF IInv, Talks
  <1> QED BY <1>3, <1>4

-----------------------------------------------------------------------------
(* The steps of the server.                                                *)

LEMMA ServerType ==
  ASSUME TypeOK
  PROVE  /\ server \in Server /\ closed \subseteq Socket /\ server.socket \in Socket
         /\ server.open \in BOOLEAN /\ server.runner1 \in BOOLEAN /\ server.runner2 \in BOOLEAN
         /\ server.received \in 0 .. MaxSend
  BY DEF TypeOK, Server

LEMMA ShortenType ==
  ASSUME NEW c \in Server
  PROVE  LET d == Shorten(c)
         IN  /\ d \in Server /\ d.socket = c.socket /\ d.open = c.open
             /\ d.runner1 = c.runner1 /\ (d.runner2 => c.runner1 \/ c.runner2)
             /\ d.received = c.received
  BY DEF Shorten, Server

LEMMA ShortenGrace ==
  ASSUME TypeOK, server' \in {server, Shorten(server)}, noticed' = noticed
  PROVE  /\ server' \in Server /\ server'.socket = server.socket /\ server'.open = server.open
         /\ GraceRunsIffLost => GraceRunsIffLost'
  <1>1. server \in Server
    BY ServerType
  <1>2. CASE server' = server
    BY <1>1, <1>2 DEF GraceRunsIffLost
  <1>3. CASE server' = Shorten(server)
    <2>1. /\ server' \in Server /\ server'.socket = server.socket /\ server'.open = server.open
          /\ server'.runner1 = server.runner1
          /\ server'.runner2 => server.runner1 \/ server.runner2
      BY <1>1, <1>3, ShortenType
    <2>2. server.runner2 => server'.runner1 \/ server'.runner2
      BY <1>1, <1>3 DEF Shorten, Server
    <2> QED BY <2>1, <2>2 DEF GraceRunsIffLost
  <1> QED BY <1>2, <1>3

(* The server reads a message of a handshake and answers it.               *)
LEMMA Answering ==
  ASSUME NEW p \in Pipe, NEW s \in Socket, NEW ms \in Seq(Message)
  PROVE  LET n == ServerWrites(p, s, ms)
         IN  /\ n \in Pipe /\ n[s].up = p[s].up
             /\ n[s].down = IF s \in closed THEN p[s].down ELSE p[s].down \o ms
             /\ \A t \in Socket : t # s => n[t] = p[t]
  <1> DEFINE q == p[s].down \o ms
  <1>1. q \in Seq(Message)
    <2>1. p[s].down \in Seq(Message)
      BY DEF Pipe
    <2> QED BY <2>1, Joined
  <1>2. ServerWrites(p, s, ms) = IF s \in closed THEN p ELSE [p EXCEPT ![s].down = q]
    BY DEF ServerWrites
  <1> HIDE DEF q
  <1>3. /\ [p EXCEPT ![s].down = q] \in Pipe /\ [p EXCEPT ![s].down = q][s].up = p[s].up
        /\ [p EXCEPT ![s].down = q][s].down = q
        /\ \A t \in Socket : t # s => [p EXCEPT ![s].down = q][t] = p[t]
    BY <1>1 DEF Pipe
  <1> QED BY <1>2, <1>3 DEF q

LEMMA Reading ==
  ASSUME TypeOK, NEW s \in Socket, Up(s) # <<>>
  PROVE  LET p == [pipe EXCEPT ![s].up = Tail(@)]
         IN  /\ p \in Pipe /\ p[s].up = Tail(Up(s)) /\ p[s].down = Down(s)
             /\ \A t \in Socket : t # s => p[t] = pipe[t]
             /\ \A type : In(Tail(Up(s)), type) => In(Up(s), type)
             /\ Head(Up(s)) \in Message /\ In(Up(s), Head(Up(s)).type)
  <1> DEFINE q == Tail(Up(s))
  <1>1. pipe \in Pipe /\ Up(s) \in Seq(Message)
    BY TypeFacts
  <1>2. /\ q \in Seq(Message) /\ \A type : In(q, type) => In(Up(s), type)
        /\ Head(Up(s)) \in Message /\ In(Up(s), Head(Up(s)).type)
    BY <1>1, Popped
  <1>3. [pipe EXCEPT ![s].up = Tail(@)] = [pipe EXCEPT ![s].up = q]
    BY DEF Up
  <1> HIDE DEF q
  <1>4. /\ [pipe EXCEPT ![s].up = q] \in Pipe /\ [pipe EXCEPT ![s].up = q][s].up = q
        /\ [pipe EXCEPT ![s].up = q][s].down = pipe[s].down
        /\ \A t \in Socket : t # s => [pipe EXCEPT ![s].up = q][t] = pipe[t]
    BY <1>1, <1>2 DEF Pipe
  <1> QED BY <1>2, <1>3, <1>4 DEF q, Down

LEMMA Answered ==
  ASSUME IInv, NEW s \in Socket, Up(s) # <<>>,
         state[s] \in {"WaitingForAuth", "WaitingForConnectionType"},
         NEW m \in Message,
         \/ m.type = "sign" /\ state[s] = "WaitingForAuth"
            /\ state' = [state EXCEPT ![s] = "WaitingForConnectionType"]
         \/ m.type = "error" /\ state' = [state EXCEPT ![s] = "Error"],
         pipe' = ServerWrites([pipe EXCEPT ![s].up = Tail(@)], s, <<m>>),
         server' \in {server, Shorten(server)},
         UNCHANGED <<client, permanentFailure, gone, closed, noticed>>
  PROVE  IInv'
  <1> DEFINE c == client.socket
             p == [pipe EXCEPT ![s].up = Tail(@)]
  <1>0. TypeOK /\ Talks /\ Moved /\ c \in Socket
    BY ClientType DEF IInv
  <1>1. /\ p \in Pipe /\ p[s].up = Tail(Up(s)) /\ p[s].down = Down(s)
        /\ \A t \in Socket : t # s => p[t] = pipe[t]
        /\ \A type : In(Tail(Up(s)), type) => In(Up(s), type)
    BY <1>0, Reading
  <1> HIDE DEF p
  <1>2. <<m>> \in Seq(Message) /\ Once(<<m>>) /\ \A type : In(<<m>>, type) => type = m.type
    BY One
  <1>3. /\ pipe' \in Pipe /\ pipe'[s].up = Tail(Up(s))
        /\ pipe'[s].down = IF s \in closed THEN Down(s) ELSE Down(s) \o <<m>>
        /\ \A t \in Socket : t # s => pipe'[t] = pipe[t]
    <2>1. pipe' = ServerWrites(p, s, <<m>>)
      BY DEF p
    <2>2. p \in Pipe /\ <<m>> \in Seq(Message)
      BY <1>1, <1>2
    <2>3. /\ pipe' \in Pipe /\ pipe'[s].up = p[s].up
          /\ pipe'[s].down = IF s \in closed THEN p[s].down ELSE p[s].down \o <<m>>
          /\ \A t \in Socket : t # s => pipe'[t] = p[t]
      BY ONLY ZenonT(30), <2>1, <2>2, s \in Socket, Answering
    <2> QED BY ZenonT(30), <1>1, <2>3
  <1>4. /\ state' \in [Socket -> HandshakeState]
        /\ \A t \in Socket : t # s => state'[t] = state[t]
        /\ state'[s] \in {"WaitingForConnectionType", "Error"}
        /\ m.type = "sign" => state[s] = "WaitingForAuth"
        /\ m.type \in {"sign", "error"}
    BY <1>0 DEF TypeOK, HandshakeState
  <1>5. /\ server' \in Server /\ server'.socket = server.socket /\ server'.open = server.open
        /\ GraceRunsIffLost => GraceRunsIffLost'
    BY <1>0, ShortenGrace
  <1>6. TypeOK'
    BY <1>0, <1>3, <1>4, <1>5 DEF TypeOK, Pipe
  <1>7. /\ ~In(Up(s), "data") /\ ~In(Up(s), "ack") /\ ~In(Down(s), "ok")
        /\ ~In(Down(s), "auth") /\ ~In(Down(s), "connectionType") /\ Once(Down(s))
        /\ state[s] = "WaitingForAuth" => ~In(Down(s), "sign")
    BY <1>0 DEF Talks, Carried
  <1>8. /\ \A type : In(pipe'[s].down, type) => In(Down(s), type) \/ type = m.type
        /\ Once(pipe'[s].down)
    <2>1. CASE s \in closed
      BY <1>3, <1>7, <2>1
    <2>2. CASE s \notin closed
      <3>1. Down(s) \in Seq(Message)
        BY <1>0, TypeFacts
      <3>2. \A type : In(Down(s) \o <<m>>, type) => In(Down(s), type) \/ type = m.type
        BY <1>2, <3>1, Joined
      <3>3. Once(Down(s) \o <<m>>)
        <4>1. ~In(Down(s), "sign") \/ ~In(<<m>>, "sign")
          BY <1>2, <1>4, <1>7
        <4> QED BY <1>2, <1>7, <3>1, <4>1, Joined
      <3> QED BY <1>3, <2>2, <3>2, <3>3
    <2> QED BY <2>1, <2>2
  <1>9. /\ ~In(pipe'[s].up, "data") /\ ~In(pipe'[s].up, "ack")
        /\ In(pipe'[s].up, "connectionType") => In(Up(s), "connectionType")
    BY <1>1, <1>3, <1>7
  <1>10. Carried'
    <2> SUFFICES ASSUME NEW t \in Socket
                 PROVE  /\ state'[t] = "none" => pipe'[t].up = <<>> /\ pipe'[t].down = <<>>
                        /\ In(pipe'[t].up, "data") => state'[t] = "Done"
                        /\ ~In(pipe'[t].up, "ack")
                        /\ In(pipe'[t].down, "sign") => state'[t] \notin {"none", "WaitingForAuth"}
                        /\ In(pipe'[t].down, "ok") => state'[t] = "Done"
                        /\ ~In(pipe'[t].down, "auth") /\ ~In(pipe'[t].down, "connectionType")
                        /\ Once(pipe'[t].down)
      BY DEF Carried, Up, Down
    <2>1. CASE t = s
      <3>1. state'[s] \notin {"none", "WaitingForAuth"}
        BY <1>4
      <3> QED BY <1>4, <1>7, <1>8, <1>9, <2>1, <3>1
    <2>2. CASE t # s
      <3>1. state'[t] = state[t] /\ pipe'[t] = pipe[t]
        BY <1>3, <1>4, <2>2
      <3> QED BY <1>0, <3>1 DEF Talks, Carried, Up, Down
    <2> QED BY <2>1, <2>2
  <1>11. client' = client /\ (\A type : Buffered(type)' <=> Buffered(type))
         /\ (OnceBuffered' <=> OnceBuffered)
    BY DEF Buffered, OnceBuffered
  <1>12. s # c => Came' /\ Attempt'
    <2> SUFFICES ASSUME s # c
                 PROVE  Came' /\ Attempt'
      OBVIOUS
    <2>1. state'[c] = state[c] /\ pipe'[c] = pipe[c]
      BY <1>0, <1>3, <1>4
    <2>2. Came'
      BY <1>0, <1>11, <2>1 DEF Talks, Came, Down
    <2>3. Attempt'
      BY <1>0, <1>11, <2>1 DEF Talks, Attempt, Up, Down
    <2> QED BY <2>2, <2>3
  <1>13. s = c => Came' /\ Attempt'
    <2> SUFFICES ASSUME s = c
                 PROVE  Came' /\ Attempt'
      OBVIOUS
    <2>1. Buffered("sign") => m.type # "sign" /\ ~In(Down(s), "sign")
      BY <1>0, <1>4 DEF Talks, Came
    <2>2. ~Buffered("ok")
      BY <1>0 DEF Talks, Came
    <2>3. Came'
      BY <1>0, <1>4, <1>8, <1>11, <2>1, <2>2 DEF Talks, Came, Down
    <2>4. client.at \in {"proving", "waitFirst"} =>
              m.type # "sign" /\ ~Buffered("sign") /\ ~In(Down(s), "sign")
      BY <1>0, <1>4 DEF Talks, Attempt
    <2>5. /\ client.at \in {"creating", "waitSign", "proving"} => ~In(Up(s), "connectionType")
          /\ client.isReconnecting
      BY <1>0 DEF Talks, Attempt
    <2>6. client.at = "idle" /\ ~permanentFailure => ~client.isReconnecting
      BY <1>0 DEF Talks, Attempt
    <2>7. Attempt'
      BY <1>4, <1>8, <1>9, <1>11, <2>4, <2>5, <2>6 DEF Attempt, Up, Down
    <2> QED BY <2>3, <2>7
  <1>14. Moved'
    <2>1. server.socket \in Socket /\ server.socket # s
      BY <1>0, TypeFacts DEF Moved
    <2>2. \A t \in Socket : state'[t] = "Done" => state[t] = "Done"
      BY <1>4
    <2> QED BY <1>0, <1>4, <1>5, <2>1, <2>2 DEF Moved
  <1>15. "server" \notin Eager => ServerSees'
    <2>1. noticed["server"] \subseteq Socket /\ noticed' = noticed
      BY <1>0, TypeFacts
    <2>2. ServerSees => \A t \in noticed["server"] : pipe'[t].up = <<>>
      BY <1>3, <2>1 DEF ServerSees, Up
    <2> QED BY <1>5, <2>1, <2>2 DEF IInv, ServerSees, Up
  <1> QED BY <1>6, <1>10, <1>12, <1>13, <1>14, <1>15 DEF IInv, Talks

LEMMA ReadAuthKeeps == IInv /\ (\E s \in Socket : ReadAuth(s)) => IInv'
  <1> SUFFICES ASSUME IInv, NEW s \in Socket, ReadAuth(s)
               PROVE  IInv'
    OBVIOUS
  <1>1. /\ Plain("sign") \in Message /\ Plain("sign").type = "sign"
        /\ Plain("error") \in Message /\ Plain("error").type = "error"
    BY Messages
  <1>2. Up(s) # <<>> /\ state[s] = "WaitingForAuth"
    BY DEF ReadAuth, Up
  <1>3. server' = server /\ UNCHANGED <<client, permanentFailure, gone, closed, noticed>>
    BY DEF ReadAuth
  <1>4. CASE Reject(s)
    BY <1>1, <1>2, <1>3, <1>4, Answered DEF Reject
  <1>5. CASE ~Reject(s)
    BY <1>1, <1>2, <1>3, <1>5, Answered DEF ReadAuth
  <1> QED BY <1>4, <1>5

(* A step that does not touch the connection's timers.                     *)
LEMMA ServerStays ==
  ASSUME IInv, UNCHANGED <<client, permanentFailure, gone, server, state, noticed>>,
         closed \subseteq closed', closed' \subseteq Socket, Talk(pipe', {}, {})
  PROVE  IInv'
  <1>1. server \in Server
    BY DEF IInv, TypeOK
  <1>2. "server" \notin Eager => GraceRunsIffLost'
    BY DEF IInv, ServerSees, GraceRunsIffLost
  <1>3. ServerMoves
    BY <1>1, <1>2 DEF ServerMoves
  <1>4. Talk(pipe', {}, {"ack", "disconnect"})
    BY TalkMore
  <1> QED BY <1>3, <1>4, ServerKeeps

LEMMA HandshakeDisconnectKeeps == IInv /\ (\E s \in Socket : HandshakeDisconnect(s)) => IInv'
  <1> SUFFICES ASSUME IInv, NEW s \in Socket, HandshakeDisconnect(s)
               PROVE  IInv'
    OBVIOUS
  <1>1. TypeOK /\ Up(s) # <<>> /\ pipe' = [pipe EXCEPT ![s].up = Tail(@)]
    BY DEF IInv, HandshakeDisconnect, Up
  <1>2. Talk(pipe', {}, {})
    BY <1>1, TalkPops
  <1>3. /\ UNCHANGED <<client, permanentFailure, gone, server, state, noticed>>
        /\ closed \subseteq closed' /\ closed' \subseteq Socket
    BY <1>1, TypeFacts DEF HandshakeDisconnect
  <1> QED BY <1>2, <1>3, ServerStays

LEMMA DisposeRejectedKeeps == IInv /\ (\E s \in Socket : DisposeRejected(s)) => IInv'
  <1> SUFFICES ASSUME IInv, NEW s \in Socket, DisposeRejected(s)
               PROVE  IInv'
    OBVIOUS
  <1>1. TypeOK /\ pipe' = pipe
    BY DEF IInv, DisposeRejected
  <1>2. Talk(pipe', {}, {})
    BY <1>1, TalkNothing
  <1>3. /\ UNCHANGED <<client, permanentFailure, gone, server, state, noticed>>
        /\ closed \subseteq closed' /\ closed' \subseteq Socket
    BY <1>1, TypeFacts DEF DisposeRejected
  <1> QED BY <1>2, <1>3, ServerStays

LEMMA CloseSocketKeeps == IInv /\ (\E s \in Socket : CloseSocket(s)) => IInv'
  <1> SUFFICES ASSUME IInv, NEW s \in Socket, CloseSocket(s)
               PROVE  IInv'
    OBVIOUS
  <1>1. PICK n \in 0 .. Len(pipe[s].up), k \in 0 .. Len(pipe[s].down) :
             pipe' = [pipe EXCEPT ![s].up = SubSeq(@, 1, n), ![s].down = SubSeq(@, 1, k)]
    BY DEF CloseSocket
  <1> DEFINE q == SubSeq(Up(s), 1, n)
             r == SubSeq(Down(s), 1, k)
  <1>2. /\ TypeOK /\ pipe \in Pipe /\ Up(s) \in Seq(Message) /\ Down(s) \in Seq(Message)
        /\ n \in 0 .. Len(Up(s)) /\ k \in 0 .. Len(Down(s))
    BY <1>1, TypeFacts DEF Up, Down, IInv
  <1>3. q \in Seq(Message) /\ \A type : In(q, type) => In(Up(s), type)
    BY <1>2, Prefixes
  <1>4. /\ r \in Seq(Message) /\ \A type : In(r, type) => In(Down(s), type)
        /\ Once(Down(s)) => Once(r)
    BY <1>2, Prefixes
  <1>5. pipe' = [[pipe EXCEPT ![s].up = q] EXCEPT ![s].down = r]
    BY <1>1, <1>2 DEF Pipe, Up, Down
  <1> HIDE DEF q, r
  <1>6. /\ pipe' \in Pipe /\ pipe'[s].up = q /\ pipe'[s].down = r
        /\ \A t \in Socket : t # s => pipe'[t] = pipe[t]
    BY <1>2, <1>3, <1>4, <1>5 DEF Pipe
  <1>7. Talk(pipe', {}, {})
    BY <1>3, <1>4, <1>6 DEF Talk, Up, Down
  <1>8. /\ UNCHANGED <<client, permanentFailure, gone, server, state, noticed>>
        /\ closed \subseteq closed' /\ closed' \subseteq Socket
    BY <1>2, TypeFacts DEF CloseSocket
  <1> QED BY <1>7, <1>8, ServerStays

LEMMA Cleaned ==
  ASSUME IInv, NEW p, Talk(p, {}, {}), CleanResources(p),
         UNCHANGED <<client, permanentFailure, gone, state, noticed>>
  PROVE  IInv'
  <1>1. TypeOK /\ server \in Server /\ closed \subseteq Socket /\ server.socket \in Socket
    BY TypeFacts DEF IInv, TypeOK
  <1>2. /\ server' \in Server /\ server'.socket = server.socket
        /\ ~server'.open /\ ~server'.runner1 /\ ~server'.runner2
        /\ closed' = closed \cup {server.socket}
    BY <1>1 DEF CleanResources, Server
  <1>3. ServerMoves
    BY <1>1, <1>2 DEF ServerMoves, GraceRunsIffLost
  <1>4. Talk(pipe', {}, {"ack", "disconnect"})
    <2>1. CASE pipe' = p
      BY <2>1, TalkMore
    <2>2. CASE pipe' = ServerWrites(p, server.socket, <<Plain("disconnect")>>)
      <3>1. Plain("disconnect") \in Message /\ Plain("disconnect").type = "disconnect"
        BY Messages
      <3>2. Talk(pipe', {}, {"disconnect"})
        BY <1>1, <2>2, <3>1, TalkSays
      <3> QED BY <3>2, TalkMore
    <2> QED BY <2>1, <2>2 DEF CleanResources
  <1> QED BY <1>3, <1>4, ServerKeeps

LEMMA ServerReceiveKeeps == IInv /\ ServerReceive => IInv'
  <1> SUFFICES ASSUME IInv, ServerReceive
               PROVE  IInv'
    OBVIOUS
  <1> DEFINE s == server.socket
             read == [pipe EXCEPT ![s].up = Tail(@)]
             m == Head(Up(s))
  <1>1. TypeOK /\ server \in Server /\ s \in Socket /\ closed \subseteq Socket
    BY TypeFacts DEF IInv, TypeOK
  <1>2. /\ Up(s) # <<>> /\ UNCHANGED <<client, permanentFailure, gone, state, noticed>>
        /\ \/ m.type = "disconnect" /\ CleanResources(read)
           \/ /\ server' = IF m.type = "data" /\ m.n = server.received + 1
                           THEN [server EXCEPT !.received = m.n] ELSE server
              /\ pipe' = read /\ closed' = closed
    BY DEF ServerReceive, Up
  <1>3. Talk(read, {}, {}) /\ m \in Message
    BY <1>1, <1>2, TalkPops
  <1>4. CASE CleanResources(read)
    BY <1>2, <1>3, <1>4, Cleaned
  <1>5. CASE ~CleanResources(read)
    <2>1. m.n \in 0 .. MaxSend
      BY <1>3 DEF Message
    <2>2. /\ server' \in Server /\ server'.socket = server.socket
          /\ server'.open = server.open /\ server'.runner1 = server.runner1
          /\ server'.runner2 = server.runner2
      BY <1>1, <1>2, <1>5, <2>1 DEF Server
    <2>3. "server" \notin Eager => GraceRunsIffLost'
      BY <1>2, <2>2 DEF IInv, ServerSees, GraceRunsIffLost
    <2>4. ServerMoves
      BY <1>1, <1>2, <1>5, <2>2, <2>3 DEF ServerMoves
    <2>5. Talk(pipe', {}, {"ack", "disconnect"})
      BY <1>2, <1>3, <1>5, TalkMore
    <2> QED BY <2>4, <2>5, ServerKeeps
  <1> QED BY <1>4, <1>5

LEMMA AckTimerKeeps == IInv /\ AckTimer => IInv'
  <1> SUFFICES ASSUME IInv, AckTimer
               PROVE  IInv'
    OBVIOUS
  <1>1. TypeOK /\ server \in Server /\ server.received \in 0 .. MaxSend /\ closed \subseteq Socket
    BY TypeFacts DEF IInv, TypeOK, Server
  <1>2. Ack(server.received) \in Message /\ Ack(server.received).type = "ack"
    BY <1>1, Messages
  <1>3. Talk(pipe', {}, {"ack", "disconnect"})
    <2>1. Talk(pipe, {}, {}) /\ pipe' = ServerWrites(pipe, server.socket, <<Ack(server.received)>>)
      BY <1>1, TalkNothing DEF AckTimer
    <2>2. Talk(pipe', {}, {"ack"})
      BY <1>1, <1>2, <2>1, TalkSays
    <2> QED BY <2>2, TalkMore
  <1>4. /\ server' \in Server /\ server'.socket = server.socket
        /\ server'.open = server.open /\ server'.runner1 = server.runner1
        /\ server'.runner2 = server.runner2
    BY <1>1 DEF AckTimer, Server
  <1>5. UNCHANGED <<client, permanentFailure, gone, state, noticed>> /\ closed' = closed
    BY DEF AckTimer
  <1>6. "server" \notin Eager => GraceRunsIffLost'
    BY <1>4, <1>5 DEF IInv, ServerSees, GraceRunsIffLost
  <1>7. ServerMoves
    BY <1>1, <1>4, <1>5, <1>6 DEF ServerMoves
  <1> QED BY <1>3, <1>7, ServerKeeps

LEMMA OtherClientKeeps == IInv /\ OtherClientConnects => IInv'
  <1> SUFFICES ASSUME IInv, OtherClientConnects
               PROVE  IInv'
    OBVIOUS
  <1>1. TypeOK /\ closed \subseteq Socket
    BY TypeFacts DEF IInv
  <1>2. /\ UNCHANGED <<client, permanentFailure, gone, state, noticed, pipe, closed>>
        /\ server' = Shorten(server)
    BY DEF OtherClientConnects
  <1>3. /\ server' \in Server /\ server'.socket = server.socket /\ server'.open = server.open
        /\ GraceRunsIffLost => GraceRunsIffLost'
    BY <1>1, <1>2, ShortenGrace
  <1>4. ServerMoves
    BY <1>1, <1>2, <1>3 DEF ServerMoves, IInv, ServerSees
  <1>5. Talk(pipe', {}, {"ack", "disconnect"})
    <2>1. Talk(pipe', {}, {})
      BY <1>1, <1>2, TalkNothing
    <2> QED BY <2>1, TalkMore
  <1> QED BY <1>4, <1>5, ServerKeeps

LEMMA GraceExpiresKeeps == IInv /\ GraceExpires => IInv'
  <1> SUFFICES ASSUME IInv, GraceExpires
               PROVE  IInv'
    OBVIOUS
  <1>1. Talk(pipe, {}, {})
    BY TalkNothing DEF IInv
  <1> QED BY <1>1, Cleaned DEF GraceExpires

LEMMA ServerSeesCloseKeeps == IInv /\ (\E s \in Socket : ServerSeesClose(s)) => IInv'
  <1> SUFFICES ASSUME IInv, NEW s \in Socket, ServerSeesClose(s)
               PROVE  IInv'
    OBVIOUS
  <1> DEFINE d == server.socket
  <1>0. /\ TypeOK /\ Talks /\ Moved /\ server \in Server /\ s \in closed
        /\ UNCHANGED <<client, permanentFailure, gone, state, pipe, closed>>
        /\ noticed' = [noticed EXCEPT !["server"] = @ \cup {s}]
        /\ server' = OnSocketClose(server, s)
    BY DEF IInv, TypeOK, ServerSeesClose
  <1>1. /\ server' \in Server /\ server'.socket = d /\ server'.open = server.open
        /\ server'.runner2 = server.runner2
        /\ server'.runner1 = (server.runner1 \/ (server.open /\ s = d))
    BY <1>0 DEF OnSocketClose, Server
  <1>2. /\ noticed' \in [{"client", "server"} -> SUBSET closed]
        /\ noticed'["client"] = noticed["client"]
        /\ noticed'["server"] = noticed["server"] \cup {s}
    BY <1>0 DEF TypeOK
  <1>3. TypeOK'
    BY <1>0, <1>1, <1>2 DEF TypeOK
  <1>4. Talks'
    <2>1. Carried'
      BY <1>0 DEF Talks, Carried, Up, Down
    <2>2. Came'
      BY <1>0 DEF Talks, Came, Down, Buffered, OnceBuffered
    <2>3. Attempt'
      BY <1>0 DEF Talks, Attempt, Up, Down, Buffered
    <2> QED BY <2>1, <2>2, <2>3 DEF Talks
  <1>5. Moved'
    BY <1>0, <1>1 DEF Moved
  <1>6. ASSUME "server" \notin Eager
        PROVE  ServerSees'
    <2>1. ServerSees /\ Up(s) = <<>>
      BY <1>6 DEF IInv, ServerSeesClose, Up
    <2>2. \A t \in noticed'["server"] : Up(t)' = <<>>
      BY <1>0, <1>2, <2>1 DEF ServerSees, Up
    <2>3. (server.open /\ s = d) \/ s # d
      BY <1>0 DEF ServerSeesClose, Moved
    <2>4. GraceRunsIffLost'
      BY <1>1, <1>2, <2>1, <2>3 DEF ServerSees, GraceRunsIffLost
    <2> QED BY <2>2, <2>4 DEF ServerSees
  <1> QED BY <1>3, <1>4, <1>5, <1>6 DEF IInv

(* What moving the connection to s writes: the old socket d is destroyed.  *)
LEMMA MovesOver ==
  ASSUME TypeOK, NEW s \in Socket, NEW d \in Socket, s # d, Up(s) # <<>>,
         NEW n \in 0 .. Len(pipe[d].down), NEW k \in 0 .. MaxSend,
         pipe' = ServerWrites(
                   [pipe EXCEPT ![s].up = Tail(@), ![d].up = <<>>, ![d].down = SubSeq(@, 1, n)],
                   s, <<Plain("ok"), Ack(k)>>)
  PROVE  /\ pipe' \in Pipe /\ pipe'[s].up = Tail(Up(s)) /\ pipe'[d].up = <<>>
         /\ \A t \in Socket : t \notin {s, d} => pipe'[t] = pipe[t]
         /\ \A t \in Socket :
               /\ \A type : In(pipe'[t].up, type) => In(Up(t), type)
               /\ \A type : In(pipe'[t].down, type) =>
                      In(Down(t), type) \/ (t = s /\ s \notin closed /\ type \in {"ok", "ack"})
               /\ Once(Down(t)) => Once(pipe'[t].down)
  <1> DEFINE q == Tail(Up(s))
             r == SubSeq(Down(d), 1, n)
             ms == <<Plain("ok"), Ack(k)>>
             p == [[[pipe EXCEPT ![s].up = q] EXCEPT ![d].up = <<>>] EXCEPT ![d].down = r]
  <1>1. /\ pipe \in Pipe /\ Up(s) \in Seq(Message) /\ Down(s) \in Seq(Message)
        /\ Down(d) \in Seq(Message) /\ <<>> \in Seq(Message) /\ n \in 0 .. Len(Down(d))
    BY TypeFacts, EmptySeq DEF Down
  <1>2. q \in Seq(Message) /\ \A type : In(q, type) => In(Up(s), type)
    BY <1>1, Popped
  <1>3. /\ r \in Seq(Message) /\ \A type : In(r, type) => In(Down(d), type)
        /\ Once(Down(d)) => Once(r)
    BY <1>1, Prefixes
  <1>4. /\ ms \in Seq(Message) /\ ~In(ms, "sign")
        /\ \A type : In(ms, type) => type \in {"ok", "ack"}
    <2>1. /\ Plain("ok") \in Message /\ Plain("ok").type = "ok"
          /\ Ack(k) \in Message /\ Ack(k).type = "ack"
      BY Messages
    <2> QED BY <2>1, Two
  <1>5. pipe' = ServerWrites(p, s, ms)
    BY <1>1 DEF Pipe, Up, Down
  <1> HIDE DEF q, r, ms
  <1>6. /\ p \in Pipe /\ p[s].up = q /\ p[s].down = Down(s)
        /\ p[d].up = <<>> /\ p[d].down = r
        /\ \A t \in Socket : t \notin {s, d} => p[t] = pipe[t]
    BY <1>1, <1>2, <1>3 DEF Pipe, Down
  <1> HIDE DEF p
  <1>7. /\ pipe' \in Pipe /\ pipe'[s].up = p[s].up
        /\ pipe'[s].down = IF s \in closed THEN p[s].down ELSE p[s].down \o ms
        /\ \A t \in Socket : t # s => pipe'[t] = p[t]
    BY ONLY <1>4, <1>5, <1>6, s \in Socket, Answering
  <1>8. /\ \A type : In(pipe'[s].down, type) =>
               In(Down(s), type) \/ (s \notin closed /\ type \in {"ok", "ack"})
        /\ Once(Down(s)) => Once(pipe'[s].down)
    <2>1. CASE s \in closed
      BY <1>6, <1>7, <2>1 DEF Down
    <2>2. CASE s \notin closed
      <3>1. pipe'[s].down = Down(s) \o ms
        BY <1>6, <1>7, <2>2 DEF Down
      <3>2. \A type : In(Down(s) \o ms, type) => In(Down(s), type) \/ In(ms, type)
        BY <1>1, <1>4, Joined
      <3>3. Once(Down(s)) => Once(Down(s) \o ms)
        BY <1>1, <1>4, Joined
      <3> QED BY <1>4, <2>2, <3>1, <3>2, <3>3
    <2> QED BY <2>1, <2>2
  <1>9. pipe'[s].up = q /\ pipe'[d].up = <<>> /\ pipe'[d].down = r
    BY <1>6, <1>7 DEF Up, Down
  <1>10. \A t \in Socket : t \notin {s, d} => pipe'[t] = pipe[t]
    BY <1>6, <1>7
  <1>11. ASSUME NEW t \in Socket
         PROVE  /\ \A type : In(pipe'[t].up, type) => In(Up(t), type)
                /\ \A type : In(pipe'[t].down, type) =>
                       In(Down(t), type) \/ (t = s /\ s \notin closed /\ type \in {"ok", "ack"})
                /\ Once(Down(t)) => Once(pipe'[t].down)
    <2>1. CASE t = s
      BY <1>2, <1>8, <1>9, <2>1
    <2>2. CASE t = d
      <3>1. \A type : ~In(<<>>, type)
        BY <1>1, EmptyIn
      <3> QED BY <1>3, <1>9, <2>2, <3>1
    <2>3. CASE t \notin {s, d}
      BY <1>10, <2>3 DEF Up, Down
    <2> QED BY <2>1, <2>2, <2>3
  <1> QED BY <1>7, <1>9, <1>10, <1>11 DEF q

LEMMA AcceptKeeps ==
  ASSUME IInv, NEW s \in Socket, state[s] = "WaitingForConnectionType",
         Up(s) # <<>>, Head(Up(s)).type = "connectionType",
         server.open, state' = [state EXCEPT ![s] = "Done"],
         server' = AcceptReconnection(Shorten(server), s),
         closed' = closed \cup {server.socket},
         NEW n \in 0 .. Len(pipe[server.socket].down),
         pipe' = ServerWrites([pipe EXCEPT ![s].up = Tail(@), ![server.socket].up = <<>>,
                                           ![server.socket].down = SubSeq(@, 1, n)],
                              s, <<Plain("ok"), Ack(server.received)>>),
         UNCHANGED <<client, permanentFailure, gone, noticed>>
  PROVE  IInv'
  <1> DEFINE c == client.socket
             d == server.socket
  <1>0. /\ TypeOK /\ Talks /\ Moved /\ c \in Socket /\ d \in Socket /\ closed \subseteq Socket
        /\ server.received \in 0 .. MaxSend /\ server \in Server
    BY ClientType, ServerType DEF IInv
  <1>1. s # d /\ state[d] = "Done"
    BY <1>0 DEF Moved
  <1>2. /\ pipe' \in Pipe /\ pipe'[d].up = <<>>
        /\ \A t \in Socket : t \notin {s, d} => pipe'[t] = pipe[t]
    BY ZenonT(30), <1>0, <1>1, MovesOver
  <1>3. \A t \in Socket :
           /\ \A type : In(pipe'[t].up, type) => In(Up(t), type)
           /\ \A type : In(pipe'[t].down, type) =>
                  In(Down(t), type) \/ (t = s /\ s \notin closed /\ type \in {"ok", "ack"})
           /\ Once(Down(t)) => Once(pipe'[t].down)
    BY <1>0, <1>1, MovesOver
  <1>4. In(Up(s), "connectionType")
    BY <1>0, Reading
  <1> HIDE DEF c, d
  <1>5. /\ server' \in Server /\ server'.socket = s /\ server'.open
        /\ ~server'.runner1 /\ ~server'.runner2
    <2>1. /\ Shorten(server) \in Server /\ Shorten(server).open = server.open
      BY <1>0, ShortenType
    <2> QED BY <2>1 DEF AcceptReconnection, Server
  <1>6. /\ state' \in [Socket -> HandshakeState] /\ state'[s] = "Done"
        /\ \A t \in Socket : t # s => state'[t] = state[t]
        /\ closed \subseteq closed' /\ closed' \subseteq Socket /\ d \in closed'
    BY <1>0 DEF TypeOK, HandshakeState, d
  <1>7. TypeOK'
    <2>1. noticed' \in [{"client", "server"} -> SUBSET closed']
      BY <1>0, <1>6 DEF TypeOK
    <2>2. client' \in Client /\ permanentFailure' \in BOOLEAN /\ gone' \in BOOLEAN
      BY <1>0 DEF TypeOK
    <2> QED BY <1>2, <1>5, <1>6, <2>1, <2>2 DEF TypeOK, Pipe
  <1>8. Carried'
    <2> SUFFICES ASSUME NEW t \in Socket
                 PROVE  /\ state'[t] = "none" => pipe'[t].up = <<>> /\ pipe'[t].down = <<>>
                        /\ In(pipe'[t].up, "data") => state'[t] = "Done"
                        /\ ~In(pipe'[t].up, "ack")
                        /\ In(pipe'[t].down, "sign") => state'[t] \notin {"none", "WaitingForAuth"}
                        /\ In(pipe'[t].down, "ok") => state'[t] = "Done"
                        /\ ~In(pipe'[t].down, "auth") /\ ~In(pipe'[t].down, "connectionType")
                        /\ Once(pipe'[t].down)
      BY DEF Carried, Up, Down
    <2>1. /\ state[t] = "none" => Up(t) = <<>> /\ Down(t) = <<>>
          /\ In(Up(t), "data") => state[t] = "Done"
          /\ ~In(Up(t), "ack")
          /\ In(Down(t), "sign") => state[t] \notin {"none", "WaitingForAuth"}
          /\ In(Down(t), "ok") => state[t] = "Done"
          /\ ~In(Down(t), "auth") /\ ~In(Down(t), "connectionType")
          /\ Once(Down(t))
      BY <1>0 DEF Talks, Carried
    <2>2. state'[t] = "none" => pipe'[t].up = <<>> /\ pipe'[t].down = <<>>
      <3>1. state'[t] = "none" => t \notin {s, d} /\ state[t] = "none"
        BY <1>1, <1>6
      <3> QED BY <1>2, <2>1, <3>1 DEF Up, Down
    <2>3. state'[t] = state[t] \/ (t = s /\ state'[t] = "Done")
      BY <1>6
    <2>4. (In(pipe'[t].up, "data") => state'[t] = "Done") /\ ~In(pipe'[t].up, "ack")
      BY <1>3, <2>1, <2>3
    <2>5. /\ In(pipe'[t].down, "sign") => state'[t] \notin {"none", "WaitingForAuth"}
          /\ In(pipe'[t].down, "ok") => state'[t] = "Done"
      BY <1>3, <1>6, <2>1, <2>3
    <2>6. ~In(pipe'[t].down, "auth") /\ ~In(pipe'[t].down, "connectionType") /\ Once(pipe'[t].down)
      BY <1>3, <2>1
    <2> QED BY <2>2, <2>4, <2>5, <2>6
  <1>9. client' = client /\ (\A type : Buffered(type)' <=> Buffered(type))
        /\ (OnceBuffered' <=> OnceBuffered) /\ permanentFailure' = permanentFailure
    BY DEF Buffered, OnceBuffered
  <1>10. /\ state'[c] = state[c] \/ state'[c] = "Done"
         /\ ~In(Down(c), "sign") => ~In(pipe'[c].down, "sign")
    BY <1>0, <1>3, <1>6
  <1>11. Came'
    <2>1. /\ Buffered("sign") => state[c] # "WaitingForAuth" /\ ~In(Down(c), "sign")
          /\ Buffered("ok") => state[c] = "Done"
          /\ ~Buffered("auth") /\ ~Buffered("connectionType") /\ OnceBuffered
      BY <1>0 DEF Talks, Came, c
    <2>2. /\ Buffered("sign") => state'[c] # "WaitingForAuth" /\ ~In(pipe'[c].down, "sign")
          /\ Buffered("ok") => state'[c] = "Done"
      BY <1>10, <2>1
    <2> QED BY <1>9, <2>1, <2>2 DEF Came, Down, c
  <1>12. Attempt'
    <2>1. /\ state[c] # "none"
          /\ client.at \in {"creating", "waitSign", "proving"} =>
                state[c] # "Done" /\ ~In(Up(c), "connectionType")
          /\ client.at \in {"proving", "waitFirst"} =>
                state[c] # "WaitingForAuth" /\ ~Buffered("sign") /\ ~In(Down(c), "sign")
          /\ ~client.isReconnecting => state[c] = "Done"
          /\ client.at = "idle" /\ ~permanentFailure => ~client.isReconnecting
      BY <1>0 DEF Talks, Attempt, c
    <2>2. client.at \in {"creating", "waitSign", "proving"} =>
              state'[c] # "Done" /\ ~In(pipe'[c].up, "connectionType")
      BY <1>0, <1>3, <1>4, <1>6, <2>1
    <2>3. /\ state'[c] # "none"
          /\ client.at \in {"proving", "waitFirst"} =>
                state'[c] # "WaitingForAuth" /\ ~Buffered("sign") /\ ~In(pipe'[c].down, "sign")
          /\ ~client.isReconnecting => state'[c] = "Done"
      BY <1>10, <2>1
    <2> QED BY SMTT(30), <1>9, <2>1, <2>2, <2>3 DEF Attempt, Up, Down, c
  <1>13. Moved'
    <2>1. \A t \in Socket : state'[t] = "Done" /\ t \notin closed' => t = s
      <3> SUFFICES ASSUME NEW t \in Socket, state'[t] = "Done", t \notin closed', t # s
                   PROVE  FALSE
        OBVIOUS
      <3>1. state[t] = "Done" /\ t \notin closed
        BY <1>6
      <3>2. t = d
        BY <1>0, <3>1 DEF Moved, d
      <3> QED BY <1>6, <3>2
    <2> QED BY <1>5, <1>6, <2>1 DEF Moved
  <1>14. ASSUME "server" \notin Eager
         PROVE  ServerSees'
    <2>1. \A t \in noticed["server"] : t \in Socket /\ t # s /\ Up(t) = <<>>
      BY <1>0, <1>14, TypeFacts DEF IInv, ServerSees
    <2>2. \A t \in noticed["server"] : pipe'[t].up = <<>>
      BY <1>2, <2>1 DEF Up
    <2>3. GraceRunsIffLost'
      BY <1>5, <2>1 DEF GraceRunsIffLost
    <2> QED BY <2>2, <2>3 DEF ServerSees, Up
  <1> QED BY <1>7, <1>8, <1>11, <1>12, <1>13, <1>14 DEF IInv, Talks

LEMMA ReadConnectionTypeKeeps == IInv /\ (\E s \in Socket : ReadConnectionType(s)) => IInv'
  <1> SUFFICES ASSUME IInv, NEW s \in Socket, ReadConnectionType(s)
               PROVE  IInv'
    OBVIOUS
  <1>1. /\ state[s] = "WaitingForConnectionType" /\ Up(s) # <<>>
        /\ Head(Up(s)).type = "connectionType"
        /\ UNCHANGED <<client, permanentFailure, gone, noticed>>
    BY DEF ReadConnectionType, Up
  <1>2. ASSUME Reject(s), server' \in {server, Shorten(server)}, closed' = closed
        PROVE  IInv'
    <2>1. Plain("error") \in Message /\ Plain("error").type = "error"
      BY Messages
    <2>2. /\ state' = [state EXCEPT ![s] = "Error"]
          /\ pipe' = ServerWrites([pipe EXCEPT ![s].up = Tail(@)], s, <<Plain("error")>>)
      BY <1>2 DEF Reject
    <2> QED BY <1>1, <1>2, <2>1, <2>2, Answered
  <1>3. ASSUME server.open, state' = [state EXCEPT ![s] = "Done"],
               server' = AcceptReconnection(Shorten(server), s),
               closed' = closed \cup {server.socket},
               NEW n \in 0 .. Len(pipe[server.socket].down),
               pipe' = ServerWrites([pipe EXCEPT ![s].up = Tail(@), ![server.socket].up = <<>>,
                                                 ![server.socket].down = SubSeq(@, 1, n)],
                                    s, <<Plain("ok"), Ack(server.received)>>)
        PROVE  IInv'
    BY <1>1, <1>3, AcceptKeeps
  <1> QED BY <1>2, <1>3 DEF ReadConnectionType

-----------------------------------------------------------------------------
(* The invariant.                                                          *)

LEMMA InitIInv == Init => IInv
  <1> SUFFICES ASSUME Init
               PROVE  IInv
    OBVIOUS
  <1>1. /\ FirstSocket \in Socket /\ 0 \in 0 .. MaxSend /\ 0 \in 0 .. MaxAttempts + 1
        /\ <<>> \in Seq(Message) /\ <<>> \in Seq(ControlType)
    BY SocketAssumption, BoundAssumption, EmptySeq
  <1>2. /\ client \in Client /\ client.socket = FirstSocket /\ client.at = "idle"
        /\ ~client.isReconnecting /\ client.control = <<>>
    BY <1>1 DEF Init, Client, Phase
  <1>3. /\ server \in Server /\ server.socket = FirstSocket /\ server.open
        /\ ~server.runner1 /\ ~server.runner2
    BY <1>1 DEF Init, Server
  <1>4. /\ state \in [Socket -> HandshakeState]
        /\ \A s \in Socket : state[s] = IF s = FirstSocket THEN "Done" ELSE "none"
    BY DEF Init, HandshakeState
  <1>5. /\ pipe \in Pipe
        /\ \A s \in Socket : Up(s) = <<>> /\ Down(s) = <<>>
    BY <1>1 DEF Init, Pipe, Up, Down
  <1>6. /\ closed = {} /\ noticed \in [{"client", "server"} -> SUBSET closed]
        /\ noticed["client"] = {} /\ noticed["server"] = {}
    BY DEF Init
  <1>7. TypeOK
    BY <1>2, <1>3, <1>4, <1>5, <1>6 DEF TypeOK, Pipe, Init
  <1>8. /\ \A type : ~In(<<>>, type)
        /\ Once(<<>>) /\ (\A type : ~Buffered(type)) /\ OnceBuffered
    BY <1>2 DEF In, Once, Buffered, OnceBuffered
  <1>9. Talks
    <2>1. Carried
      BY <1>5, <1>8 DEF Carried
    <2>2. Came
      BY <1>8 DEF Came
    <2>3. Attempt
      BY <1>1, <1>2, <1>4 DEF Attempt
    <2> QED BY <2>1, <2>2, <2>3 DEF Talks
  <1>10. Moved
    BY <1>1, <1>3, <1>4 DEF Moved
  <1>11. ServerSees
    BY <1>3, <1>6 DEF ServerSees, GraceRunsIffLost
  <1> QED BY <1>7, <1>9, <1>10, <1>11 DEF IInv

LEMMA NextIInv == IInv /\ [Next]_vars => IInv'
  <1> SUFFICES ASSUME IInv, [Next]_vars
               PROVE  IInv'
    OBVIOUS
  <1>1. CASE ClientStep
    BY <1>1, SocketCloseKeeps, LoopKeeps, FailuresKeep, ConnectKeeps, SendAuthKeeps,
       SendConnectionTypeKeeps, HandleControlKeeps, SendKeeps, ClientReceiveKeeps,
       SiblingKeeps, LeaveKeeps DEF ClientStep
  <1>2. CASE ServerStep
    BY <1>2, ReadAuthKeeps, ReadConnectionTypeKeeps, HandshakeDisconnectKeeps,
       DisposeRejectedKeeps, ServerSeesCloseKeeps, ServerReceiveKeeps, AckTimerKeeps,
       OtherClientKeeps, GraceExpiresKeeps DEF ServerStep
  <1>3. CASE \E s \in Socket : CloseSocket(s)
    BY <1>3, CloseSocketKeeps
  <1>4. CASE UNCHANGED vars
    <2>1. /\ UNCHANGED <<client, permanentFailure, gone, server, state, noticed>>
          /\ pipe' = pipe /\ closed' = closed
      BY <1>4 DEF vars
    <2>2. TypeOK /\ Talk(pipe', {}, {}) /\ closed' \subseteq Socket
      BY <2>1, TalkNothing, TypeFacts DEF IInv
    <2> QED BY <2>1, <2>2, ServerStays
  <1> QED BY <1>1, <1>2, <1>3, <1>4 DEF Next

LEMMA Invariance == Spec => []IInv
  <1>1. Init => IInv
    BY InitIInv
  <1>2. IInv /\ [Next]_vars => IInv'
    BY NextIInv
  <1> QED BY <1>1, <1>2, PTL DEF Spec

-----------------------------------------------------------------------------
(* What the connection promises.                                           *)

(* The state is well typed whatever happens: the attempts never pass the   *)
(* bound of _runReconnectingLoop by more than one, what is on its way over *)
(* a socket are messages, and only closed sockets are noticed as closed.   *)
THEOREM TypeCorrect == Spec => []TypeOK
  <1>1. IInv => TypeOK
    BY DEF IInv
  <1> QED BY <1>1, Invariance, PTL

(* The client never takes an answer to an earlier attempt for the one it   *)
(* waits for, although time limits pass while answers are on their way     *)
(* (readOneControlMessage after the flush of beginAcceptReconnection).     *)
THEOREM Answers == Spec => []AnswersMatch
  <1>1. ASSUME IInv
        PROVE  AnswersMatch
    <2> SUFFICES ASSUME Listening, client.control # <<>>
                 PROVE  Head(client.control) \in
                           {IF client.at = "waitSign" THEN "sign" ELSE "ok", "error"}
      BY DEF AnswersMatch
    <2> DEFINE type == Head(client.control)
    <2>1. type \in ControlType /\ Buffered(type)
      BY <1>1, HeadBuffered DEF IInv
    <2>2. type \in {"sign", "ok", "error"}
      BY <1>1, <2>1 DEF IInv, Talks, Came, ControlType
    <2>3. client.at = "waitSign" => type # "ok"
      BY <1>1, <2>1 DEF IInv, Talks, Came, Attempt
    <2>4. client.at = "waitFirst" => type # "sign"
      BY <1>1, <2>1 DEF IInv, Talks, Attempt
    <2> QED BY <2>2, <2>3, <2>4 DEF Listening
  <1>2. IInv => AnswersMatch
    BY <1>1
  <1> QED BY <1>2, Invariance, PTL

(* The protocol object that reads a handshake on the server meets no       *)
(* message of the connection itself, which nobody would handle.            *)
THEOREM ReadsNoData == Spec => []HandshakeReadsNoData
  <1>1. ASSUME IInv
        PROVE  HandshakeReadsNoData
    <2> SUFFICES ASSUME NEW s \in Socket, Up(s) # <<>>,
                        state[s] \in {"WaitingForAuth", "WaitingForConnectionType"}
                 PROVE  Head(Up(s)).type \notin {"data", "ack"}
      BY DEF HandshakeReadsNoData, Up
    <2>1. In(Up(s), Head(Up(s)).type)
      BY <1>1, Reading DEF IInv
    <2> QED BY <1>1, <2>1 DEF IInv, Talks, Carried
  <1>2. IInv => HandshakeReadsNoData
    BY <1>1
  <1> QED BY <1>2, Invariance, PTL

(* A client outside its loop, with its socket open, is on the very socket  *)
(* the ManagementConnection of the server was moved to.                    *)
THEOREM Agrees == Spec => []Agreement
  <1>1. IInv => Agreement
    <2> SUFFICES ASSUME IInv, client.at = "idle", ~permanentFailure, client.socket \notin closed
                 PROVE  server.open /\ server.socket = client.socket
      BY DEF Agreement
    <2>1. state[client.socket] = "Done" /\ client.socket \in Socket
      BY ClientType DEF IInv, Talks, Attempt
    <2> QED BY <2>1 DEF IInv, Moved
  <1> QED BY <1>1, Invariance, PTL

(* If no close event overtakes data, the server counts down to forgetting  *)
(* a connection exactly while it has seen its socket close and no other    *)
(* socket came (onSocketClose, acceptReconnection, _cleanResources).       *)
THEOREM Graces == "server" \notin Eager => (Spec => []GraceRunsIffLost)
  <1> SUFFICES ASSUME "server" \notin Eager
               PROVE  Spec => []GraceRunsIffLost
    OBVIOUS
  <1>1. IInv => GraceRunsIffLost
    BY DEF IInv, ServerSees
  <1> QED BY <1>1, Invariance, PTL

(* What the server and the network leave alone.                            *)
LEMMA ClientAlone ==
  ASSUME TypeOK, ServerStep \/ (\E s \in Socket : CloseSocket(s)) \/ UNCHANGED vars
  PROVE  UNCHANGED <<client, permanentFailure>> /\ noticed'["client"] = noticed["client"]
  <1>1. CASE \E s \in Socket : ServerSeesClose(s)
    BY <1>1 DEF ServerSeesClose, TypeOK
  <1>2. CASE ~\E s \in Socket : ServerSeesClose(s)
    <2>1. UNCHANGED <<client, permanentFailure, noticed>>
      BY <1>2 DEF ServerStep, vars, ReadAuth, ReadConnectionType, HandshakeDisconnect,
         DisposeRejected, ServerReceive, AckTimer, OtherClientConnects, GraceExpires,
         CloseSocket
    <2> QED BY <2>1
  <1> QED BY <1>1, <1>2

(* What a step of the client makes of the phase of its loop.               *)
LEMMA Phases ==
  ASSUME TypeOK, ClientStep
  PROVE  \/ client'.at = client.at /\ client'.socket = client.socket
            /\ permanentFailure' = permanentFailure
            /\ (noticed' = noticed \/ (SocketClose /\ (client.at = "idle" => permanentFailure)))
         \/ permanentFailure' /\ client'.at \in {"idle", client.at}
         \/ ~permanentFailure /\ client'.at \in {"sleeping", "resolving"}
         \/ client'.at \notin {"idle", "sleeping", "resolving"}
         \/ client.at = "waitFirst" /\ client'.at = "idle"
            /\ client'.socket = client.socket /\ noticed' = noticed
  <1> USE ClientType DEF Client
  <1>1. ASSUME NEW c \in Client, GiveUp(c)
        PROVE  client'.at = "idle" /\ permanentFailure'
    BY <1>1 DEF GiveUp
  <1>2. ASSUME Retry
        PROVE  \/ permanentFailure' /\ client'.at = "idle"
               \/ ~permanentFailure /\ client'.at = "sleeping"
    BY <1>1, <1>2 DEF Retry
  <1>3. CASE SocketClose \/ SocketTimeout
    <2>1. \/ client' = client /\ (client.at = "idle" => permanentFailure)
          \/ ~permanentFailure /\ client'.at = "resolving"
      BY <1>3 DEF SocketClose, SocketTimeout, BeginReconnecting
    <2> QED BY <1>3, <2>1 DEF SocketClose, SocketTimeout
  <1>4. CASE Wake
    BY <1>4 DEF Wake
  <1>5. CASE Resolve \/ (\E s \in Socket : Connect(s)) \/ SendAuth \/ SendConnectionType
    BY <1>5 DEF Resolve, Connect, Rebind, SendAuth, SendConnectionType
  <1>6. CASE Unreachable \/ TimeLimit
    BY <1>2, <1>6 DEF Unreachable, TimeLimit
  <1>7. CASE Refused
    BY <1>1, <1>7 DEF Refused
  <1>8. CASE HandleControl
    <2> DEFINE c == [client EXCEPT !.control = Tail(@)]
    <2>1. c \in Client /\ c.at = client.at /\ c.socket = client.socket
      <3>1. client.control \in Seq(ControlType) /\ client.control # <<>>
        BY <1>8 DEF HandleControl
      <3>2. Tail(client.control) \in Seq(ControlType)
        BY <3>1
      <3> QED BY <3>2
    <2>2. \/ GiveUp(c)
          \/ client' = [c EXCEPT !.at = "proving"]
          \/ client.at = "waitFirst" /\ EndReconnection(c) /\ noticed' = noticed
      BY <1>8 DEF HandleControl
    <2> HIDE DEF c
    <2> QED BY <1>1, <2>1, <2>2 DEF EndReconnection
  <1>9. CASE Send \/ ClientReceive \/ SiblingFails \/ Leave
    BY <1>9 DEF Send, ClientReceive, SiblingFails, Leave
  <1> QED BY <1>3, <1>4, <1>5, <1>6, <1>7, <1>8, <1>9 DEF ClientStep

(* Whatever goes wrong, and even if close events overtake data, a client   *)
(* comes to sit on a dead socket outside its loop in one way only: the     *)
(* close event was swallowed by _beginReconnecting while the loop waited   *)
(* for the last message of the handshake, and that message still came.     *)
THEOREM Notices == Spec => ClientNotices
  <1>1. ASSUME TypeOK, [Next]_vars, Stranded', ~Stranded
        PROVE  client.at = "waitFirst" /\ client.socket \in noticed["client"]
    <2>1. client'.at = "idle" /\ ~permanentFailure' /\ client'.socket \in noticed'["client"]
      BY <1>1 DEF Stranded
    <2>2. noticed["client"] \subseteq closed
      BY <1>1, TypeFacts
    <2>3. CASE ~ClientStep
      <3>1. UNCHANGED <<client, permanentFailure>> /\ noticed'["client"] = noticed["client"]
        BY <1>1, <2>3, ClientAlone DEF Next
      <3> QED BY <1>1, <2>1, <2>2, <3>1 DEF Stranded
    <2>4. CASE ClientStep
      <3>1. CASE client'.at = client.at /\ client'.socket = client.socket
                 /\ permanentFailure' = permanentFailure
        <4>1. noticed' = noticed
          BY <1>1, <2>1, <2>4, <3>1, Phases
        <4> QED BY <1>1, <2>1, <2>2, <3>1, <4>1 DEF Stranded
      <3> QED BY <1>1, <2>1, <2>4, <3>1, Phases
    <2> QED BY <2>3, <2>4
  <1>2. TypeOK /\ [Next]_vars
        => [Stranded' => \/ Stranded
                         \/ /\ client.at = "waitFirst"
                            /\ client.socket \in noticed["client"]]_vars
    BY <1>1
  <1> QED BY <1>2, TypeCorrect, PTL DEF Spec, ClientNotices

(* After a permanent failure, of this connection or of another one of the  *)
(* window, at any point of the loop, no sleep and no attempt begins any    *)
(* more (_beginReconnecting, the while of _runReconnectingLoop, and "no    *)
(* more attempts!" behind the sleep).                                      *)
THEOREM StopsForGood == Spec => NoNewAttempt
  <1>1. ASSUME TypeOK, [Next]_vars, permanentFailure, client'.at \in {"sleeping", "resolving"}
        PROVE  client'.at = client.at
    <2>1. CASE ~ClientStep
      BY <1>1, <2>1, ClientAlone DEF Next
    <2>2. CASE ClientStep
      BY <1>1, <2>2, Phases
    <2> QED BY <2>1, <2>2
  <1>2. TypeOK /\ [Next]_vars
        => [permanentFailure /\ client'.at \in {"sleeping", "resolving"}
            => client'.at = client.at]_vars
    BY <1>1
  <1> QED BY <1>2, TypeCorrect, PTL DEF Spec, NoNewAttempt
=============================================================================
