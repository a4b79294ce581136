---------------------------- MODULE ExtensionHost ---------------------------
(***************************************************************************)
(* The connection of a window to its extension host, a process of its own: *)
(* the server answers the handshake of every socket and then hands the     *)
(* socket itself over to the process (vscode/src/vs/server/node/           *)
(* extensionHostConnection.ts and the ExtensionHost branch of              *)
(* remoteExtensionHostAgentServer.ts), which resumes the client over it    *)
(* and ends when the client stays away (_createExtHostProtocol of          *)
(* vscode/src/vs/workbench/api/node/extensionHostProcess.ts).              *)
(*                                                                         *)
(* The first handshake has just been answered.  The handshake before its   *)
(* last message and the loop of the client are those of RemoteConnection;  *)
(* of the messages above them there is one, which the client writes again  *)
(* over each socket until it is acknowledged (PersistentProtocol).         *)
(***************************************************************************)
EXTENDS Integers, Sequences

CONSTANTS
    MaxSocket,   \* bound: sockets, numbered in the order the client opens them
    Bad,         \* sockets the network may close, or delay beyond a time limit
    Trouble      \* what else may go wrong, a subset of Troubles

(* fork: start() throws before or in cp.fork; exit: the process ends by    *)
(* itself; expiry: the client is away longer than a grace time; others:    *)
(* another client connects; leave: the window is closed.                   *)
Troubles == {"fork", "exit", "expiry", "others", "leave"}

ASSUME SocketAssumption == MaxSocket \in Nat \ {0}
ASSUME EnvironmentAssumption == Bad \subseteq 1 .. MaxSocket /\ Trouble \subseteq Troubles

Socket == 1 .. MaxSocket
NoSocket == 0

(* To the server or the process, and to the client. *)
UpType == {"connectionType", "data", "disconnect"}
DownType == {"pause", "ok", "error", "resume", "ack"}

(* at: in a handshake, connected, in the loop between two attempts, failed *)
(* permanently or closed.  paused: its ProtocolWriter holds what it writes *)
(* (held: the message is among it).                                        *)
Client == [at : {"handshake", "connected", "lost", "failed", "gone"}, socket : Socket,
           paused : BOOLEAN, held : BOOLEAN, sent : BOOLEAN, acked : BOOLEAN]

(* open: the connection is in _extHostConnections.  process: start() is    *)
(* awaiting the environment, has failed, or has forked.  first:            *)
(* _connectionData.  port: handshakes that await a free debug port.        *)
(* draining: sockets whose drain is awaited by _sendSocketToExtensionHost. *)
Server == [open : BOOLEAN, process : {"starting", "failed", "forked"},
           first : Socket \cup {NoSocket}, port : SUBSET Socket, draining : SUBSET Socket]

(* An IExtHostSocketMessage with its handle, which is undefined when node  *)
(* has destroyed the socket, or an IExtHostReduceGraceTimeMessage.         *)
Reduce == [socket |-> NoSocket, handle |-> FALSE]
IpcMessage == [socket : Socket \cup {NoSocket}, handle : BOOLEAN]

(* waiting: listens and has said READY, its 60s timer runs.  runner1,      *)
(* runner2: the disconnect runners are scheduled.  ready: READY is on its  *)
(* way.  lost: history, the socket's close event has fired.                *)
Process == [at : {"none", "loading", "waiting", "connected", "exited"},
            socket : Socket \cup {NoSocket}, runner1 : BOOLEAN, runner2 : BOOLEAN,
            ready : BOOLEAN, lost : BOOLEAN, delivered : BOOLEAN]

VARIABLES
    client, server, process,
    ipc,      \* messages from the server to the process
    up,       \* up[s]: on the way from the client
    down,     \* down[s]: on the way to the client
    closed    \* sockets closed by an end or by the network

vars == <<client, server, process, ipc, up, down, closed>>

Init ==
    /\ client = [at |-> "connected", socket |-> 1, paused |-> TRUE, held |-> FALSE,
                 sent |-> FALSE, acked |-> FALSE]
    /\ server = [open |-> TRUE, process |-> "starting", first |-> 1,
                 port |-> {}, draining |-> {}]
    /\ process = [at |-> "none", socket |-> NoSocket, runner1 |-> FALSE, runner2 |-> FALSE,
                  ready |-> FALSE, lost |-> FALSE, delivered |-> FALSE]
    /\ ipc = <<>>
    /\ up = [s \in Socket |-> <<>>]
    /\ down = [s \in Socket |-> <<>>]
    /\ closed = {}

Send(pipe, s, msg) == IF s \in closed THEN pipe ELSE [pipe EXCEPT ![s] = Append(@, msg)]
Drop(pipe, s) == [pipe EXCEPT ![s] = Tail(@)]

-----------------------------------------------------------------------------
(* The client. *)

(* PersistentProtocol.send: written at once, held by a paused writer, or   *)
(* only queued during a reconnection.                                      *)
ClientSends ==
    /\ client.at \in {"handshake", "connected", "lost"} /\ ~client.sent
    /\ client' = [client EXCEPT !.sent = TRUE,
                                !.held = client.at = "connected" /\ client.paused]
    /\ up' = IF client.at = "connected" /\ ~client.paused
             THEN Send(up, client.socket, "data") ELSE up
    /\ UNCHANGED <<server, process, ipc, down, closed>>

(* One message of the socket.  With the first message of the handshake the *)
(* reconnection ends and what is not acknowledged is written again.        *)
ClientReceives ==
    LET s == client.socket
        unacknowledged == client.sent /\ ~client.acked
    IN  /\ client.at \in {"handshake", "connected"} /\ down[s] # <<>>
        /\ down' = Drop(down, s)
        /\ \/ /\ Head(down[s]) = "pause"
              /\ client' = [client EXCEPT !.paused = TRUE]
              /\ UNCHANGED up
           \/ /\ Head(down[s]) = "ok"
              /\ client' = [client EXCEPT !.at = "connected",
                                          !.held = client.paused /\ unacknowledged]
              /\ up' = IF unacknowledged /\ ~client.paused THEN Send(up, s, "data") ELSE up
           \/ /\ Head(down[s]) = "error"
              /\ client' = [client EXCEPT !.at = "failed"]
              /\ UNCHANGED up
           \/ /\ Head(down[s]) = "resume"
              /\ client' = [client EXCEPT !.paused = FALSE, !.held = FALSE]
              /\ up' = IF client.held THEN Send(up, s, "data") ELSE up
           \/ /\ Head(down[s]) = "ack"
              /\ client' = [client EXCEPT !.acked = TRUE]
              /\ UNCHANGED up
        /\ UNCHANGED <<server, process, ipc, closed>>

(* A socket that the server holds, or that is on its way to the process. *)
OnItsWay(s) ==
    \/ s \in server.port \cup server.draining \cup {server.first}
    \/ \E i \in DOMAIN ipc : ipc[i].socket = s

(* onSocketClose, or a failed attempt. *)
ClientSeesClose ==
    /\ client.at \in {"handshake", "connected"} /\ client.socket \in closed
    /\ client' = [client EXCEPT !.at = "lost"]
    /\ UNCHANGED <<server, process, ipc, up, down, closed>>

(* A handshake is not answered in time, or what was sent not acknowledged: *)
(* the answer is late, or nothing will be heard over this socket.          *)
ClientTimesOut ==
    /\ \/ client.at = "handshake"
       \/ client.at = "connected" /\ client.sent /\ ~client.acked
    /\ \/ client.socket \in Bad
       \/ /\ client.at = "connected"
          /\ process.socket # client.socket /\ ~OnItsWay(client.socket)
    /\ client' = [client EXCEPT !.at = "lost"]
    /\ UNCHANGED <<server, process, ipc, up, down, closed>>

(* The next attempt of the loop, until the handshake's last message:       *)
(* beginAcceptReconnection destroys the old socket.                        *)
Reconnect ==
    /\ client.at = "lost" /\ client.socket < MaxSocket
    /\ client' = [client EXCEPT !.at = "handshake", !.socket = @ + 1,
                                !.paused = FALSE, !.held = FALSE]
    /\ up' = [up EXCEPT ![client.socket + 1] = <<"connectionType">>]
    /\ down' = [down EXCEPT ![client.socket] = <<>>]
    /\ closed' = closed \cup {client.socket}
    /\ UNCHANGED <<server, process, ipc>>

(* The window is closed: a paused writer keeps its Disconnect to itself. *)
Leave ==
    /\ "leave" \in Trouble /\ client.at # "gone"
    /\ client' = [client EXCEPT !.at = "gone"]
    /\ up' = IF client.at = "connected" /\ ~client.paused
             THEN Send(up, client.socket, "disconnect") ELSE up
    /\ closed' = closed \cup {client.socket}
    /\ UNCHANGED <<server, process, ipc, down>>

-----------------------------------------------------------------------------
(* The server. *)

(* The last message of a handshake is read; a free debug port is looked    *)
(* for.                                                                    *)
ReadConnectionType(s) ==
    /\ up[s] # <<>> /\ Head(up[s]) = "connectionType"
    /\ up' = Drop(up, s)
    /\ server' = [server EXCEPT !.port = @ \cup {s}]
    /\ UNCHANGED <<client, process, ipc, down, closed>>

(* acceptReconnection *)
Accept(s) ==
    IF server.process = "forked"
    THEN [server EXCEPT !.port = @ \ {s}, !.draining = @ \cup {s}]
    ELSE [server EXCEPT !.port = @ \ {s}, !.first = s]

(* Mutated: the client is not paused. *)
HandOverUnpaused(s) ==
    /\ s \in server.port
    /\ IF server.open
       THEN /\ down' = Send(down, s, "ok")
            /\ server' = Accept(s)
       ELSE /\ down' = Send(down, s, "error")
            /\ server' = [server EXCEPT !.port = @ \ {s}]
    /\ UNCHANGED <<client, process, ipc, up, closed>>

(* Mutated: a connection whose process is not there yet counts as gone. *)
HandOverForked(s) ==
    /\ s \in server.port
    /\ IF server.open /\ server.process = "forked"
       THEN /\ down' = Send(Send(down, s, "pause"), s, "ok")
            /\ server' = Accept(s)
       ELSE /\ down' = Send(down, s, "error")
            /\ server' = [server EXCEPT !.port = @ \ {s}]
    /\ UNCHANGED <<client, process, ipc, up, closed>>

(* Whether the connection is still there is asked after the await. *)
HandOver(s) ==
    /\ s \in server.port
    /\ IF server.open
       THEN /\ down' = Send(Send(down, s, "pause"), s, "ok")
            /\ server' = Accept(s)
       ELSE /\ down' = Send(down, s, "error")
            /\ server' = [server EXCEPT !.port = @ \ {s}]
    /\ UNCHANGED <<client, process, ipc, up, closed>>

(* start() has its environment. *)
Fork ==
    /\ server.process = "starting"
    /\ server' = [server EXCEPT !.process = "forked"]
    /\ process' = [process EXCEPT !.at = "loading"]
    /\ UNCHANGED <<client, ipc, up, down, closed>>

(* start() catches its error and nothing else happens. *)
StartFails ==
    /\ "fork" \in Trouble /\ server.process = "starting"
    /\ server' = [server EXCEPT !.process = "failed"]
    /\ UNCHANGED <<client, process, ipc, up, down, closed>>

(* Mutated: _connectionData is kept. *)
ReceiveReadyKept ==
    /\ process.ready /\ server.open
    /\ process' = [process EXCEPT !.ready = FALSE]
    /\ server' = [server EXCEPT !.draining = @ \cup {server.first}]
    /\ UNCHANGED <<client, ipc, up, down, closed>>

(* messageListener: the process asks for its socket. *)
ReceiveReady ==
    /\ process.ready /\ server.open
    /\ process' = [process EXCEPT !.ready = FALSE]
    /\ server' = [server EXCEPT !.first = NoSocket, !.draining = @ \cup {server.first}]
    /\ UNCHANGED <<client, ipc, up, down, closed>>

(* _sendSocketToExtensionHost after its await, which a closed socket ends  *)
(* too.  The handle is undefined once node has destroyed the socket.       *)
SendSocket(s) ==
    /\ s \in server.draining
    /\ server' = [server EXCEPT !.draining = @ \ {s}]
    /\ \E handle \in IF s \in closed THEN BOOLEAN ELSE {TRUE} :
           ipc' = IF server.open THEN Append(ipc, [socket |-> s, handle |-> handle]) ELSE ipc
    /\ UNCHANGED <<client, process, up, down, closed>>

(* Another client connects: shortenReconnectionGraceTimeIfNecessary. *)
OtherClientConnects ==
    /\ "others" \in Trouble /\ server.open /\ server.process = "forked"
    /\ ~\E i \in DOMAIN ipc : ipc[i] = Reduce
    /\ ipc' = Append(ipc, Reduce)
    /\ UNCHANGED <<client, server, process, up, down, closed>>

(* Mutated: nobody is told. *)
ProcessExitSeenSilent ==
    /\ process.at = "exited" /\ server.first # NoSocket
    /\ server' = [server EXCEPT !.first = NoSocket]
    /\ closed' = closed \cup {server.first}
    /\ UNCHANGED <<client, process, ipc, up, down>>

(* The exit event of the process: _cleanResources and onClose. *)
ProcessExitSeen ==
    /\ process.at = "exited" /\ server.open
    /\ server' = [server EXCEPT !.open = FALSE, !.first = NoSocket]
    /\ closed' = closed \cup ({server.first} \ {NoSocket})
    /\ UNCHANGED <<client, process, ipc, up, down>>

-----------------------------------------------------------------------------
(* The process. *)

(* _createExtHostProtocol: the listener is installed and READY is sent. *)
Ready ==
    /\ process.at = "loading"
    /\ process' = [process EXCEPT !.at = "waiting", !.ready = TRUE]
    /\ UNCHANGED <<client, server, ipc, up, down, closed>>

(* Mutated: a reconnection does not cancel the runners. *)
TakeSocketUncancelled(s) ==
    /\ process' = [process EXCEPT !.at = "connected", !.socket = s, !.lost = FALSE]
    /\ closed' = closed \cup ({process.socket} \ {NoSocket})
    /\ down' = Send(down, s, "resume")

(* Mutated: only the first socket is resumed. *)
TakeSocketPaused(s) ==
    /\ process' = [process EXCEPT !.at = "connected", !.socket = s, !.lost = FALSE,
                                  !.runner1 = FALSE, !.runner2 = FALSE]
    /\ closed' = closed \cup ({process.socket} \ {NoSocket})
    /\ down' = IF process.socket = NoSocket THEN Send(down, s, "resume") ELSE down

(* A socket message.  Without a handle the listener throws, which the      *)
(* process logs.  With one the socket before it is destroyed, the runners  *)
(* are cancelled, and the client is resumed.                               *)
TakeSocket(s) ==
    /\ process' = [process EXCEPT !.at = "connected", !.socket = s, !.lost = FALSE,
                                  !.runner1 = FALSE, !.runner2 = FALSE]
    /\ closed' = closed \cup ({process.socket} \ {NoSocket})
    /\ down' = Send(down, s, "resume")

(* VSCODE_EXTHOST_IPC_REDUCE_GRACE_TIME *)
ReduceGraceTime ==
    /\ process' = [process EXCEPT !.runner2 = @ \/ process.runner1]
    /\ UNCHANGED <<closed, down>>

ReceiveIpc ==
    /\ process.at \in {"waiting", "connected"} /\ ipc # <<>>
    /\ ipc' = Tail(ipc)
    /\ IF Head(ipc) = Reduce THEN ReduceGraceTime
       ELSE IF Head(ipc).handle THEN TakeSocket(Head(ipc).socket)
       ELSE UNCHANGED <<process, closed, down>>
    /\ UNCHANGED <<client, server, up>>

SocketClosed ==
    /\ process.at = "connected" /\ process.socket \in closed /\ ~process.lost
    /\ process' = [process EXCEPT !.runner1 = TRUE, !.lost = TRUE]
    /\ UNCHANGED <<client, server, ipc, up, down, closed>>

Exit ==
    /\ process' = [process EXCEPT !.at = "exited", !.runner1 = FALSE, !.runner2 = FALSE,
                                  !.ready = FALSE]
    /\ closed' = closed \cup ({process.socket} \ {NoSocket})
    /\ UNCHANGED <<client, server, ipc, up, down>>

ProcessReceives ==
    LET s == process.socket
    IN  /\ process.at = "connected" /\ up[s] # <<>>
        /\ \/ /\ Head(up[s]) = "data"
              /\ process' = [process EXCEPT !.delivered = TRUE]
              /\ up' = Drop(up, s)
              /\ down' = Send(down, s, "ack")
              /\ UNCHANGED <<client, server, ipc, closed>>
           \/ /\ Head(up[s]) = "disconnect"
              /\ Exit

(* The 60s timer: no socket came. *)
SocketTimeout ==
    /\ process.at = "waiting"
    /\ "expiry" \in Trouble \/ (ipc = <<>> /\ server.draining = {} /\ ~process.ready)
    /\ Exit

(* A disconnect runner fires: the client is too late, or away for ever. *)
GraceExpires ==
    /\ process.runner1 \/ process.runner2
    /\ client.at \in {"failed", "gone"} \/ "expiry" \in Trouble
    /\ Exit

ExitsByItself ==
    /\ "exit" \in Trouble /\ process.at \in {"loading", "waiting", "connected"}
    /\ Exit

-----------------------------------------------------------------------------
(* The network: what was on its way may be lost with the socket. *)
CloseSocket(s) ==
    /\ s \in Bad \ closed /\ s <= client.socket
    /\ closed' = closed \cup {s}
    /\ \/ UNCHANGED <<up, down>>
       \/ /\ up' = [up EXCEPT ![s] = <<>>]
          /\ down' = [down EXCEPT ![s] = <<>>]
    /\ UNCHANGED <<client, server, process, ipc>>

Next ==
    \/ ClientSends \/ ClientReceives \/ ClientSeesClose \/ ClientTimesOut \/ Reconnect \/ Leave
    \/ \E s \in Socket : ReadConnectionType(s) \/ HandOver(s) \/ SendSocket(s) \/ CloseSocket(s)
    \/ Fork \/ StartFails \/ ReceiveReady \/ OtherClientConnects \/ ProcessExitSeen
    \/ Ready \/ ReceiveIpc \/ SocketClosed \/ ProcessReceives
    \/ SocketTimeout \/ GraceExpires \/ ExitsByItself

Spec == Init /\ [][Next]_vars

(* Events are handled, timers fire, drains end, start() ends one way or    *)
(* another, and the client's loop goes on.  Nobody has to send, leave,     *)
(* exit or close a socket.                                                 *)
Fairness ==
    /\ WF_vars(ClientReceives) /\ WF_vars(ClientSeesClose) /\ WF_vars(ClientTimesOut)
    /\ WF_vars(Reconnect)
    /\ \A s \in Socket :
           WF_vars(ReadConnectionType(s)) /\ WF_vars(HandOver(s)) /\ WF_vars(SendSocket(s))
    /\ WF_vars(Fork \/ StartFails) /\ WF_vars(ReceiveReady) /\ WF_vars(ProcessExitSeen)
    /\ WF_vars(Ready) /\ WF_vars(ReceiveIpc) /\ WF_vars(SocketClosed)
    /\ WF_vars(ProcessReceives) /\ WF_vars(SocketTimeout) /\ WF_vars(GraceExpires)

FairSpec == Spec /\ Fairness

-----------------------------------------------------------------------------
(* Types; and _connectionData is there exactly until READY is received, or *)
(* the process is over.                                                    *)
TypeOK ==
    /\ server.first # NoSocket => server.open
    /\ server.open /\ process.at # "exited" =>
           ((server.first # NoSocket) <=> (process.at \in {"none", "loading"} \/ process.ready))
    /\ client \in Client /\ server \in Server /\ process \in Process
    /\ ipc \in Seq(IpcMessage)
    /\ up \in [Socket -> Seq(UpType)] /\ down \in [Socket -> Seq(DownType)]
    /\ closed \subseteq Socket

(* What the client writes above the handshake is never on a socket that    *)
(* the server still reads, where it would be dropped: Pause comes before   *)
(* the last answer of the handshake, Resume from the process.              *)
HandoffLosesNothing ==
    \A s \in Socket : \A i \in DOMAIN up[s] : up[s][i] = "data" => ~OnItsWay(s)

(* A disconnect runner is scheduled exactly while the process knows that   *)
(* its socket has closed; the short one only beside the long one.          *)
GraceRunsIffLost ==
    process.at = "connected" =>
        /\ process.runner1 <=> process.lost
        /\ process.runner2 => process.runner1

(* A client is refused only when its extension host has ended. *)
RefusedOnlyWhenOver == client.at = "failed" => process.at = "exited"

(* What the client sends gets to the extension host in the end, however    *)
(* the sockets it tried come to the process, unless the client or the      *)
(* process is over or was never there.                                     *)
EventuallyDelivered ==
    client.sent ~> \/ process.delivered
                   \/ client.at \in {"failed", "gone"}
                   \/ process.at = "exited" \/ server.process = "failed"

(* The process of a window that is gone ends and its entry is removed,     *)
(* unless it was never forked: then nothing removes it.                    *)
ForgetsTheGone ==
    client.at = "gone" ~> (~server.open \/ server.process = "failed")

=============================================================================
