-------------------------- MODULE RemoteConnection --------------------------
(***************************************************************************)
(* One management connection, above its protocol: the reconnecting loop    *)
(* of the browser (class PersistentConnection and the handshake functions  *)
(* of vscode/src/vs/platform/remote/common/remoteAgentConnection.ts), the  *)
(* handshake of the server (remoteExtensionHostAgentServer.ts) and its     *)
(* ManagementConnection with the grace timers (remoteExtensionManagement). *)
(*                                                                         *)
(* The connection has been established on FirstSocket.  An action is what  *)
(* runs between two awaits or in one event callback.  PersistentProtocol   *)
(* is abstracted to what the handshake touches: counters of the messages   *)
(* the client sends, the acknowledgements, and the buffer of control       *)
(* messages nobody listens to yet.  What a socket does not carry to its    *)
(* end also stands for what was still in a writer when it was replaced.    *)
(***************************************************************************)
EXTENDS Integers, Sequences, FiniteSets

CONSTANTS
    Socket,       \* the sockets, one per connection attempt
    FirstSocket,  \* the socket the connection was established on
    MayClose,     \* sockets the network may close
    Eager,        \* ends whose close event may come before the last data
    Trouble,      \* what else may go wrong, a subset of Troubles
    MaxAttempts,  \* stands for the 360 of _runReconnectingLoop
    MaxSend       \* bound: messages the client sends

(* unreachable: an attempt fails for a reason that is worth another one;   *)
(* refused: the resolver, the signature or the version check fails;        *)
(* slow: a time limit passes although the answer is on its way;            *)
(* expiry: the client is away longer than a grace time;                    *)
(* sibling: another connection of the window fails permanently;            *)
(* leave: the window is closed.                                            *)
Troubles == {"unreachable", "refused", "slow", "expiry", "sibling", "leave"}

ASSUME SocketAssumption == FirstSocket \in Socket /\ MayClose \subseteq Socket
ASSUME EnvironmentAssumption ==
    Eager \subseteq {"client", "server"} /\ Trouble \subseteq Troubles
ASSUME BoundAssumption == MaxAttempts \in Nat /\ MaxSend \in Nat

ControlType == {"auth", "sign", "connectionType", "ok", "error"}
MessageType == ControlType \cup {"disconnect", "data", "ack"}
Message == [type : MessageType, n : 0 .. MaxSend]

Plain(type) == [type |-> type, n |-> 0]
Data(n) == [type |-> "data", n |-> n]
Ack(n) == [type |-> "ack", n |-> n]

(* Where the loop awaits: the sleep, getAddress, createSocket, the sign    *)
(* service for the first message, the sign request, the sign service for   *)
(* the answer, the first message.                                          *)
Phase == {"idle", "sleeping", "resolving", "connecting", "creating",
          "waitSign", "proving", "waitFirst"}

(* control: buffered by the BufferedEmitter of onControlMessage. *)
Client == [at : Phase, attempt : 0 .. MaxAttempts + 1, socket : Socket,
           isReconnecting : BOOLEAN, disposed : BOOLEAN,
           control : Seq(ControlType), sent : 0 .. MaxSend, acked : 0 .. MaxSend]

(* The ManagementConnection: runner1, runner2 say whether the disconnect   *)
(* runners are scheduled, open that it is in _managementConnections.       *)
Server == [open : BOOLEAN, socket : Socket, runner1 : BOOLEAN, runner2 : BOOLEAN,
           received : 0 .. MaxSend, acked : 0 .. MaxSend]

VARIABLES
    client,
    permanentFailure,  \* the static PersistentConnection._permanentFailure
    gone,              \* the window of the client is closed
    server,
    state,             \* state[s]: of the handshake on s, "none" before it
    pipe,              \* what is on its way over each socket
    closed,            \* the sockets that are closed
    noticed            \* noticed[p]: those whose close event has come to p

vars == <<client, permanentFailure, gone, server, state, pipe, closed, noticed>>

HandshakeState == {"none", "WaitingForAuth", "WaitingForConnectionType", "Done", "Error"}

Init ==
    /\ client = [at |-> "idle", attempt |-> 0, socket |-> FirstSocket,
                 isReconnecting |-> FALSE, disposed |-> FALSE,
                 control |-> <<>>, sent |-> 0, acked |-> 0]
    /\ permanentFailure = FALSE
    /\ gone = FALSE
    /\ server = [open |-> TRUE, socket |-> FirstSocket, runner1 |-> FALSE,
                 runner2 |-> FALSE, received |-> 0, acked |-> 0]
    /\ state = [s \in Socket |-> IF s = FirstSocket THEN "Done" ELSE "none"]
    /\ pipe = [s \in Socket |-> [up |-> <<>>, down |-> <<>>]]
    /\ closed = {}
    /\ noticed = [p \in {"client", "server"} |-> {}]

-----------------------------------------------------------------------------
(* The client. *)

(* What the protocol writes: nothing reaches a closed socket, and the      *)
(* writer of a disposed protocol drops everything.                         *)
ClientWrites(ms) ==
    IF client.disposed \/ client.socket \in closed THEN pipe
    ELSE [pipe EXCEPT ![client.socket].up = @ \o ms]

(* The client destroys s: a part of what it wrote still arrives. *)
ClientDestroys(s) ==
    /\ closed' = closed \cup {s}
    /\ \E n \in 0 .. Len(pipe[s].up) :
          pipe' = [pipe EXCEPT ![s].up = SubSeq(@, 1, n), ![s].down = <<>>]

Unacknowledged(c) == [i \in 1 .. c.sent - c.acked |-> Data(c.acked + i)]

Listening == client.at \in {"waitSign", "waitFirst"}

(* Buffered control messages go to a new listener in a microtask, before   *)
(* anything else can happen in the window.                                 *)
Settled == ~gone /\ ~(Listening /\ client.control # <<>>)

(* triggerPermanentFailure: the loop ends, protocol and socket go. *)
GiveUp(c) ==
    /\ client' = [c EXCEPT !.at = "idle", !.attempt = 0, !.disposed = TRUE]
    /\ permanentFailure' = TRUE
    /\ ClientDestroys(c.socket)

(* Mutated: one attempt only. *)
RetryOnce ==
    /\ client' = [client EXCEPT !.at = "idle", !.attempt = 0]
    /\ UNCHANGED <<permanentFailure, pipe, closed>>

(* The end of the do loop after an error worth another attempt. *)
Retry ==
    IF client.attempt > MaxAttempts THEN GiveUp(client)
    ELSE /\ client' = IF permanentFailure
                      THEN [client EXCEPT !.at = "idle", !.attempt = 0]
                      ELSE [client EXCEPT !.at = "sleeping", !.attempt = @ + 1]
         /\ UNCHANGED <<permanentFailure, pipe, closed>>

(* _beginReconnecting: one loop at a time, none after a permanent failure. *)
BeginReconnecting(c) ==
    IF c.at = "idle" /\ ~permanentFailure THEN [c EXCEPT !.at = "resolving"] ELSE c

SocketClose ==
    /\ Settled /\ ~client.disposed
    /\ client.socket \in closed \ noticed["client"]
    /\ pipe[client.socket].down = <<>> \/ "client" \in Eager
    /\ noticed' = [noticed EXCEPT !["client"] = @ \cup {client.socket}]
    /\ client' = BeginReconnecting(client)
    /\ UNCHANGED <<permanentFailure, gone, server, state, pipe, closed>>

(* onSocketTimeout: something stays unacknowledged for too long. *)
SocketTimeout ==
    /\ Settled /\ ~client.disposed /\ ~client.isReconnecting
    /\ client.sent > client.acked
    /\ client.socket \in closed \/ "slow" \in Trouble
    /\ client' = BeginReconnecting(client)
    /\ UNCHANGED <<permanentFailure, gone, server, state, pipe, closed, noticed>>

(* Mutated: the next attempt begins without a look at the failure. *)
WakeBlind ==
    /\ Settled /\ client.at = "sleeping"
    /\ client' = [client EXCEPT !.at = "resolving"]
    /\ UNCHANGED <<permanentFailure, gone, server, state, pipe, closed, noticed>>

(* The sleep is over, or cancelled by the user. *)
Wake ==
    /\ Settled /\ client.at = "sleeping"
    /\ client' = IF permanentFailure
                 THEN [client EXCEPT !.at = "idle", !.attempt = 0]
                 ELSE [client EXCEPT !.at = "resolving"]
    /\ UNCHANGED <<permanentFailure, gone, server, state, pipe, closed, noticed>>

Resolve ==
    /\ Settled /\ client.at = "resolving"
    /\ client' = [client EXCEPT !.at = "connecting"]
    /\ UNCHANGED <<permanentFailure, gone, server, state, pipe, closed, noticed>>

(* Temporarily not available, a network error or a cancellation. *)
Unreachable ==
    /\ Settled /\ client.at \in {"resolving", "connecting"}
    /\ "unreachable" \in Trouble
    /\ Retry
    /\ UNCHANGED <<gone, server, state, noticed>>

(* Any other error of the resolver, the socket or the sign service. *)
Refused ==
    /\ Settled /\ client.at \in {"resolving", "connecting", "creating", "proving"}
    /\ "refused" \in Trouble
    /\ GiveUp(client)
    /\ UNCHANGED <<gone, server, state, noticed>>

(* Mutated: keeps the control messages of the socket given up. *)
RebindUnflushed(c, s) ==
    [c EXCEPT !.at = "creating", !.socket = s, !.isReconnecting = TRUE,
              !.disposed = FALSE]

(* beginAcceptReconnection of the client. *)
Rebind(c, s) ==
    [c EXCEPT !.at = "creating", !.socket = s, !.isReconnecting = TRUE,
              !.disposed = FALSE, !.control = <<>>]

(* The socket is open: the server has a handshake waiting on it, and the   *)
(* protocol moves over.  (A socket that opens after the time limit is      *)
(* disposed of and never used, so it is not modelled.)                     *)
Connect(s) ==
    /\ Settled /\ client.at = "connecting"
    /\ state[s] = "none"
    /\ client' = Rebind(client, s)
    /\ state' = [state EXCEPT ![s] = "WaitingForAuth"]
    /\ ClientDestroys(client.socket)
    /\ UNCHANGED <<permanentFailure, gone, server, noticed>>

SendAuth ==
    /\ Settled /\ client.at = "creating"
    /\ client' = [client EXCEPT !.at = "waitSign"]
    /\ pipe' = ClientWrites(<<Plain("auth")>>)
    /\ UNCHANGED <<permanentFailure, gone, server, state, closed, noticed>>

SendConnectionType ==
    /\ Settled /\ client.at = "proving"
    /\ client' = [client EXCEPT !.at = "waitFirst"]
    /\ pipe' = ClientWrites(<<Plain("connectionType")>>)
    /\ UNCHANGED <<permanentFailure, gone, server, state, closed, noticed>>

(* Mutated: what was not acknowledged is not written again. *)
EndReconnectionSilent(c) ==
    /\ client' = [c EXCEPT !.at = "idle", !.attempt = 0, !.isReconnecting = FALSE]
    /\ UNCHANGED <<permanentFailure, pipe, closed>>

(* endAcceptReconnection, and the loop ends. *)
EndReconnection(c) ==
    /\ client' = [c EXCEPT !.at = "idle", !.attempt = 0, !.isReconnecting = FALSE]
    /\ pipe' = ClientWrites(Unacknowledged(c))
    /\ UNCHANGED <<permanentFailure, closed>>

(* The listener of readOneControlMessage, then that of                     *)
(* connectToRemoteExtensionHostAgentAndReadOneMessage.                     *)
HandleControl ==
    /\ ~gone /\ Listening /\ client.control # <<>>
    /\ LET type == Head(client.control)
           c == [client EXCEPT !.control = Tail(@)]
       IN  \/ /\ type = "error" \/ (client.at = "waitSign" /\ type # "sign")
              /\ GiveUp(c)
           \/ /\ client.at = "waitSign" /\ type = "sign"
              /\ client' = [c EXCEPT !.at = "proving"]
              /\ UNCHANGED <<permanentFailure, pipe, closed>>
           \/ /\ client.at = "waitFirst" /\ type # "error"
              /\ EndReconnection(c)
    /\ UNCHANGED <<gone, server, state, noticed>>

(* 10s for the sign request or 30s for the whole attempt have passed. *)
TimeLimit ==
    /\ Settled
    /\ client.at \in {"connecting", "creating", "waitSign", "proving", "waitFirst"}
    /\ \/ "slow" \in Trouble
       \/ Listening /\ client.disposed
       \/ Listening /\ client.socket \in closed /\ pipe[client.socket].down = <<>>
    /\ Retry
    /\ UNCHANGED <<gone, server, state, noticed>>

(* Mutated: writes although a reconnection is under way. *)
SendEager ==
    /\ Settled /\ client.sent < MaxSend
    /\ client' = [client EXCEPT !.sent = @ + 1]
    /\ pipe' = ClientWrites(<<Data(client.sent + 1)>>)
    /\ UNCHANGED <<permanentFailure, gone, server, state, closed, noticed>>

(* A message of the ipc layer; during a reconnection it is only queued. *)
Send ==
    /\ Settled /\ client.sent < MaxSend
    /\ client' = [client EXCEPT !.sent = @ + 1]
    /\ pipe' = IF client.isReconnecting THEN pipe
               ELSE ClientWrites(<<Data(client.sent + 1)>>)
    /\ UNCHANGED <<permanentFailure, gone, server, state, closed, noticed>>

ClientReceive ==
    /\ Settled /\ ~client.disposed
    /\ pipe[client.socket].down # <<>>
    /\ LET m == Head(pipe[client.socket].down)
       IN  client' = IF m.type \in ControlType
                     THEN [client EXCEPT !.control = Append(@, m.type)]
                     ELSE IF m.type = "ack" /\ m.n > client.acked
                     THEN [client EXCEPT !.acked = m.n]
                     ELSE client
    /\ pipe' = [pipe EXCEPT ![client.socket].down = Tail(@)]
    /\ UNCHANGED <<permanentFailure, gone, server, state, closed, noticed>>

(* _gotoPermanentFailure of this instance, triggered by another one. *)
SiblingFails ==
    /\ Settled /\ "sibling" \in Trouble /\ ~permanentFailure
    /\ permanentFailure' = TRUE
    /\ client' = [client EXCEPT !.disposed = TRUE]
    /\ ClientDestroys(client.socket)
    /\ UNCHANGED <<gone, server, state, noticed>>

(* The window is closed, with or without the Disconnect that the dispose   *)
(* of the ipc Client sends.  Its sockets then close by CloseSocket.        *)
Leave ==
    /\ Settled /\ "leave" \in Trouble
    /\ gone' = TRUE
    /\ pipe' \in {pipe, ClientWrites(<<Plain("disconnect")>>)}
    /\ UNCHANGED <<client, permanentFailure, server, state, closed, noticed>>

-----------------------------------------------------------------------------
(* The server. *)

ServerWrites(pp, s, ms) ==
    IF s \in closed THEN pp ELSE [pp EXCEPT ![s].down = @ \o ms]

(* _rejectWebSocketConnection up to the drain; "Error" also stands for a   *)
(* connection refused after the handshake is Done.                         *)
Reject(s) ==
    /\ state' = [state EXCEPT ![s] = "Error"]
    /\ pipe' = ServerWrites([pipe EXCEPT ![s].up = Tail(@)], s, <<Plain("error")>>)

ReadAuth(s) ==
    /\ state[s] = "WaitingForAuth"
    /\ pipe[s].up # <<>> /\ Head(pipe[s].up).type = "auth"
    /\ \/ "refused" \in Trouble /\ Reject(s)
       \/ /\ state' = [state EXCEPT ![s] = "WaitingForConnectionType"]
          /\ pipe' = ServerWrites([pipe EXCEPT ![s].up = Tail(@)], s, <<Plain("sign")>>)
    /\ UNCHANGED <<client, permanentFailure, gone, server, closed, noticed>>

(* shortenReconnectionGraceTimeIfNecessary *)
Shorten(c) == IF c.runner1 /\ ~c.runner2 THEN [c EXCEPT !.runner2 = TRUE] ELSE c

(* Mutated: the long grace timer keeps running. *)
AcceptReconnectionUncancelled(c, s) ==
    [c EXCEPT !.socket = s, !.runner2 = FALSE, !.acked = c.received]

(* acceptReconnection of the ManagementConnection. *)
AcceptReconnection(c, s) ==
    [c EXCEPT !.socket = s, !.runner1 = FALSE, !.runner2 = FALSE, !.acked = c.received]

(* Mutated: answers without moving the connection over. *)
ReadConnectionTypeForgetful(s) ==
    /\ state[s] = "WaitingForConnectionType"
    /\ pipe[s].up # <<>> /\ Head(pipe[s].up).type = "connectionType"
    /\ state' = [state EXCEPT ![s] = "Done"]
    /\ pipe' = ServerWrites([pipe EXCEPT ![s].up = Tail(@)], s, <<Plain("ok")>>)
    /\ UNCHANGED <<client, permanentFailure, gone, server, closed, noticed>>

(* The second message: the grace times are shortened, the handshake ends,  *)
(* and the connection, if it is still known, moves to this socket.  Its    *)
(* old socket is destroyed.                                                *)
ReadConnectionType(s) ==
    /\ state[s] = "WaitingForConnectionType"
    /\ pipe[s].up # <<>> /\ Head(pipe[s].up).type = "connectionType"
    /\ \/ /\ "refused" \in Trouble \/ ~server.open
          /\ Reject(s)
          /\ server' \in {server, Shorten(server)}
          /\ UNCHANGED closed
       \/ /\ server.open
          /\ state' = [state EXCEPT ![s] = "Done"]
          /\ server' = AcceptReconnection(Shorten(server), s)
          /\ closed' = closed \cup {server.socket}
          /\ \E n \in 0 .. Len(pipe[server.socket].down) :
                pipe' = ServerWrites(
                          [pipe EXCEPT ![s].up = Tail(@),
                                       ![server.socket].up = <<>>,
                                       ![server.socket].down = SubSeq(@, 1, n)],
                          s, <<Plain("ok"), Ack(server.received)>>)
    /\ UNCHANGED <<client, permanentFailure, gone, noticed>>

(* A Disconnect that meets the protocol of a handshake is lost. *)
HandshakeDisconnect(s) ==
    /\ state[s] \in {"WaitingForAuth", "WaitingForConnectionType"}
    /\ pipe[s].up # <<>> /\ Head(pipe[s].up).type = "disconnect"
    /\ pipe' = [pipe EXCEPT ![s].up = Tail(@)]
    /\ UNCHANGED <<client, permanentFailure, gone, server, state, closed, noticed>>

(* The end of _rejectWebSocketConnection, after the drain. *)
DisposeRejected(s) ==
    /\ state[s] = "Error" /\ s \notin closed
    /\ closed' = closed \cup {s}
    /\ UNCHANGED <<client, permanentFailure, gone, server, state, pipe, noticed>>

(* _cleanResources: the socket ends, onClose takes the connection out of   *)
(* _managementConnections.  The Disconnect for the client gets out unless  *)
(* it is still being compressed when the socket ends.                      *)
CleanResources(pp) ==
    /\ server' = [server EXCEPT !.open = FALSE, !.runner1 = FALSE, !.runner2 = FALSE]
    /\ pipe' \in {pp, ServerWrites(pp, server.socket, <<Plain("disconnect")>>)}
    /\ closed' = closed \cup {server.socket}

ServerReceive ==
    LET s == server.socket
        read == [pipe EXCEPT ![s].up = Tail(@)]
    IN  /\ server.open
        /\ pipe[s].up # <<>>
        /\ LET m == Head(pipe[s].up)
           IN  \/ /\ m.type = "disconnect"
                  /\ CleanResources(read)
               \/ /\ m.type # "disconnect"
                  /\ server' = IF m.type = "data" /\ m.n = server.received + 1
                               THEN [server EXCEPT !.received = m.n]
                               ELSE server
                  /\ pipe' = read
                  /\ UNCHANGED closed
        /\ UNCHANGED <<client, permanentFailure, gone, state, noticed>>

(* The acknowledgement timer of the server's protocol. *)
AckTimer ==
    /\ server.open /\ server.received > server.acked
    /\ server' = [server EXCEPT !.acked = server.received]
    /\ pipe' = ServerWrites(pipe, server.socket, <<Ack(server.received)>>)
    /\ UNCHANGED <<client, permanentFailure, gone, state, closed, noticed>>

(* Mutated: the grace timer is not scheduled. *)
OnSocketCloseIdle(c, s) == c

(* onSocketClose of the ManagementConnection; the protocol of a handshake  *)
(* has no listener for it.                                                 *)
OnSocketClose(c, s) ==
    IF c.open /\ s = c.socket THEN [c EXCEPT !.runner1 = TRUE] ELSE c

ServerSeesClose(s) ==
    /\ s \in closed \ noticed["server"]
    /\ pipe[s].up = <<>> \/ "server" \in Eager
    /\ \/ server.open /\ s = server.socket
       \/ state[s] \in {"WaitingForAuth", "WaitingForConnectionType"}
    /\ noticed' = [noticed EXCEPT !["server"] = @ \cup {s}]
    /\ server' = OnSocketClose(server, s)
    /\ UNCHANGED <<client, permanentFailure, gone, state, pipe, closed>>

(* Another client has connected. *)
OtherClientConnects ==
    /\ server.runner1 /\ ~server.runner2
    /\ server' = Shorten(server)
    /\ UNCHANGED <<client, permanentFailure, gone, state, pipe, closed, noticed>>

(* A disconnect runner runs. *)
GraceExpires ==
    /\ gone \/ "expiry" \in Trouble
    /\ server.runner1 \/ server.runner2
    /\ CleanResources(pipe)
    /\ UNCHANGED <<client, permanentFailure, gone, state, noticed>>

-----------------------------------------------------------------------------
(* The network, or the end of the window, closes a socket. *)
CloseSocket(s) ==
    /\ s \in MayClose \/ (gone /\ s = client.socket)
    /\ state[s] # "none" /\ s \notin closed
    /\ closed' = closed \cup {s}
    /\ \E n \in 0 .. Len(pipe[s].up), k \in 0 .. Len(pipe[s].down) :
          pipe' = [pipe EXCEPT ![s].up = SubSeq(@, 1, n), ![s].down = SubSeq(@, 1, k)]
    /\ UNCHANGED <<client, permanentFailure, gone, server, state, noticed>>

ClientStep ==
    \/ SocketClose \/ SocketTimeout \/ Wake \/ Resolve \/ Unreachable \/ Refused
    \/ \E s \in Socket : Connect(s)
    \/ SendAuth \/ SendConnectionType \/ HandleControl \/ TimeLimit
    \/ Send \/ ClientReceive \/ SiblingFails \/ Leave

ServerStep ==
    \/ \E s \in Socket :
          \/ ReadAuth(s) \/ ReadConnectionType(s) \/ HandshakeDisconnect(s)
          \/ DisposeRejected(s) \/ ServerSeesClose(s)
    \/ ServerReceive \/ AckTimer \/ OtherClientConnects \/ GraceExpires

Next == ClientStep \/ ServerStep \/ \E s \in Socket : CloseSocket(s)

Spec == Init /\ [][Next]_vars

(* Promises settle, time limits pass, events are dispatched, timers fire.  *)
(* The network has to close the sockets only of a window that is gone.     *)
Fairness ==
    /\ WF_vars(SocketClose) /\ WF_vars(SocketTimeout) /\ WF_vars(Wake)
    /\ WF_vars(Resolve) /\ WF_vars(\E s \in Socket : Connect(s))
    /\ WF_vars(SendAuth) /\ WF_vars(SendConnectionType)
    /\ WF_vars(HandleControl) /\ WF_vars(TimeLimit) /\ WF_vars(ClientReceive)
    /\ WF_vars(ServerReceive) /\ WF_vars(AckTimer) /\ WF_vars(GraceExpires)
    /\ \A s \in Socket :
          /\ WF_vars(ReadAuth(s)) /\ WF_vars(ReadConnectionType(s))
          /\ WF_vars(DisposeRejected(s)) /\ WF_vars(ServerSeesClose(s))
          /\ WF_vars(gone /\ CloseSocket(s))

FairSpec == Spec /\ Fairness

-----------------------------------------------------------------------------
TypeOK ==
    /\ client \in Client
    /\ server \in Server
    /\ permanentFailure \in BOOLEAN /\ gone \in BOOLEAN
    /\ state \in [Socket -> HandshakeState]
    /\ pipe \in [Socket -> [up : Seq(Message), down : Seq(Message)]]
    /\ closed \subseteq Socket
    /\ noticed \in [{"client", "server"} -> SUBSET closed]

(* The client never takes an answer to an earlier attempt, one that came   *)
(* after its time limit, for the answer it waits for: the flush of         *)
(* beginAcceptReconnection.  Otherwise the handshake would end too early   *)
(* or "Unexpected handshake message" would end the connection for good.    *)
AnswersMatch ==
    Listening /\ client.control # <<>>
    => Head(client.control) \in
          {IF client.at = "waitSign" THEN "sign" ELSE "ok", "error"}

(* A client sits on a dead socket: outside its loop, its close event over. *)
Stranded ==
    /\ client.at = "idle" /\ ~permanentFailure
    /\ client.socket \in closed \cap noticed["client"]

(* A close event always leads into the loop, with one exception: the event *)
(* comes while the loop still waits for the last message of the handshake  *)
(* on this very socket, where "only one loop at a time" swallows it, and   *)
(* that message then ends the loop.  Nothing else strands the client.      *)
ClientNotices ==
    [][Stranded' => \/ Stranded
                    \/ /\ client.at = "waitFirst"
                       /\ client.socket \in noticed["client"]]_vars

(* The server counts down to forgetting a connection exactly while it has  *)
(* seen its socket close and no other came: it never drops a connection    *)
(* that is served, nor keeps one that is lost without a timer.             *)
GraceRunsIffLost ==
    (server.runner1 \/ server.runner2)
    <=> server.open /\ server.socket \in noticed["server"]

(* A client that believes it is connected is: whatever handshakes were     *)
(* given up halfway or answered late, the server has moved the connection  *)
(* to this very socket.                                                    *)
Agreement ==
    client.at = "idle" /\ ~permanentFailure /\ client.socket \notin closed
    => server.open /\ server.socket = client.socket

(* The short-lived protocol object of a handshake reads nothing that is    *)
(* meant for the connection's own protocol, where it would be lost.        *)
HandshakeReadsNoData ==
    \A s \in Socket :
        state[s] \in {"WaitingForAuth", "WaitingForConnectionType"} /\ pipe[s].up # <<>>
        => Head(pipe[s].up).type \notin {"data", "ack"}

(* After a permanent failure, of this connection or of another one of the  *)
(* window, no sleep and no attempt begins any more ("no more attempts!"),  *)
(* whatever close events, time limits, answers and sleeps come to an end.  *)
(* The attempt that is under way goes on, and so at most one more socket   *)
(* opens.                                                                  *)
NoNewAttempt ==
    [][permanentFailure /\ client'.at \in {"sleeping", "resolving"}
       => client'.at = client.at]_vars

(* Whatever the client sends is acknowledged in the end, across the        *)
(* sockets that close, when the network leaves the last one alone and the  *)
(* window stays.                                                           *)
EventuallyAcknowledged ==
    \A n \in 1 .. MaxSend : (client.sent >= n) ~> (client.acked >= n \/ gone)

(* The server forgets the connection of a window that is gone.             *)
ForgetsTheGone == gone ~> ~server.open

=============================================================================
