------------------------- MODULE PersistentProtocol -------------------------
(***************************************************************************)
(* The two ends of one remote connection of the server that the images     *)
(* run: class PersistentProtocol and its ProtocolWriter in                 *)
(* vscode/src/vs/base/parts/ipc/common/ipc.net.ts.  Messages are numbered, *)
(* kept until the other end acknowledges them and written again after a    *)
(* reconnection, so that a connection survives the sockets it runs over.   *)
(*                                                                         *)
(* Each JavaScript turn is one action.  Time is abstracted: an armed timer *)
(* may fire at any moment, and a test of elapsed time may go either way.   *)
(* Message contents are abstract; the text of control messages is dropped. *)
(***************************************************************************)
EXTENDS Integers, Sequences, FiniteSets

CONSTANTS
    Payload,      \* what a Regular message may carry
    Empty,        \* getEmptyBuffer(): the contents of every other message
    Socket,       \* the sockets, one per connection attempt
    FirstSocket,  \* the socket both ends are constructed on
    MayClose,     \* sockets the network may close
    Pausing,      \* ends that send Pause and Resume
    Disposing,    \* ends that may be disposed
    Lossy,        \* TRUE: another reader may take messages off a socket
    MaxSend,      \* bound: Regular messages each end sends
    MaxQueued     \* bound: messages on a socket before more control traffic

Peer == {"client", "server"}
Other(p) == IF p = "client" THEN "server" ELSE "client"

ASSUME PayloadAssumption == Empty \notin Payload
ASSUME SocketAssumption == FirstSocket \in Socket /\ MayClose \subseteq Socket
ASSUME RoleAssumption ==
    Pausing \subseteq Peer /\ Disposing \subseteq Peer /\ Lossy \in BOOLEAN
(* Ids are 32 bits wide in the header (writeUInt32BE).  They are modelled   *)
(* unbounded: MaxSend stands for less than 2^32 messages in each direction. *)
ASSUME BoundAssumption == MaxSend \in [Peer -> Nat] /\ MaxQueued \in Nat

MessageType ==
    {"Regular", "Control", "Ack", "Disconnect", "ReplayRequest", "Pause", "Resume"}

Message == [type : MessageType, id : Nat, ack : Nat, data : Payload \cup {Empty}]

(* A message outside the acknowledge flow. *)
Plain(type) == [type |-> type, id |-> 0, ack |-> 0, data |-> Empty]
AckMessage(n) == [type |-> "Ack", id |-> 0, ack |-> n, data |-> Empty]

(***************************************************************************)
(* One end.  sent and delivered are histories: the contents passed to      *)
(* send() and those fired on onMessage.  socketTimeout records that        *)
(* onSocketTimeout fired on the current socket, didDispose that            *)
(* onDidDispose fired, replayRequested that a replay request was sent less *)
(* than 10s ago.  data, isPaused and writeNowTimeout belong to the current *)
(* ProtocolWriter, disposed to it, to the reader and to their listeners.   *)
(***************************************************************************)
Endpoint ==
    [socket : Socket, isReconnecting : BOOLEAN, disposed : BOOLEAN,
     outgoingUnackMsg : Seq(Message), outgoingMsgId : Nat, outgoingAckId : Nat,
     outgoingAckTimeout : BOOLEAN, socketTimeout : BOOLEAN,
     incomingMsgId : Nat, incomingAckId : Nat, incomingAckTimeout : BOOLEAN,
     replayRequested : BOOLEAN, didDispose : BOOLEAN,
     data : Seq(Message), isPaused : BOOLEAN, writeNowTimeout : BOOLEAN,
     sent : Seq(Payload), delivered : Seq(Payload)]

Constructed(s) ==
    [socket |-> s, isReconnecting |-> FALSE, disposed |-> FALSE,
     outgoingUnackMsg |-> <<>>, outgoingMsgId |-> 0, outgoingAckId |-> 0,
     outgoingAckTimeout |-> FALSE, socketTimeout |-> FALSE,
     incomingMsgId |-> 0, incomingAckId |-> 0, incomingAckTimeout |-> FALSE,
     replayRequested |-> FALSE, didDispose |-> FALSE,
     data |-> <<>>, isPaused |-> FALSE, writeNowTimeout |-> FALSE,
     sent |-> <<>>, delivered |-> <<>>]

VARIABLES
    ep,      \* the two ends
    pipe,    \* pipe[s][p]: written by p to socket s and not read yet
    closed,  \* the sockets that are closed
    bound    \* bound[p]: the sockets p has used

vars == <<ep, pipe, closed, bound>>

-----------------------------------------------------------------------------
(* ProtocolWriter. *)

WriteAll(e, ms) ==
    IF e.disposed \/ ms = <<>> THEN e
    ELSE [e EXCEPT !.data = @ \o ms,
                   !.writeNowTimeout = @ \/ e.data = <<>>]

Write(e, m) == WriteAll(e, <<m>>)

(* Mutated: forgets to schedule. *)
ResumeUnscheduled(e) == [e EXCEPT !.isPaused = FALSE]

Pause(e) == [e EXCEPT !.isPaused = TRUE]

Resume(e) == [e EXCEPT !.isPaused = FALSE, !.writeNowTimeout = TRUE]

(* What _writeNow hands to the socket, and the writer it leaves behind. *)
Flushable(e) == IF e.isPaused THEN <<>> ELSE e.data
Flushed(e) == [e EXCEPT !.data = IF e.isPaused THEN @ ELSE <<>>]

-----------------------------------------------------------------------------
(* PersistentProtocol. *)

(* _recvAckCheck; overdue says whether the three elapsed times exceed the  *)
(* timeout and the load is low.  The oldest unacknowledged message is read *)
(* only past the first three returns.                                      *)
RecvAckCheck(e, overdue) ==
    IF e.outgoingMsgId <= e.outgoingAckId \/ e.outgoingAckTimeout \/ e.isReconnecting
    THEN e
    ELSE IF overdue THEN [e EXCEPT !.socketTimeout = TRUE]
                    ELSE [e EXCEPT !.outgoingAckTimeout = TRUE]

(* Mutated: off by one. *)
SendAckCheckLate(e) ==
    IF e.incomingMsgId <= e.incomingAckId + 1 \/ e.incomingAckTimeout
    THEN e
    ELSE [e EXCEPT !.incomingAckTimeout = TRUE]

(* _sendAckCheck as _receiveMessage calls it, just after a message came. *)
SendAckCheck(e) ==
    IF e.incomingMsgId <= e.incomingAckId \/ e.incomingAckTimeout
    THEN e
    ELSE [e EXCEPT !.incomingAckTimeout = TRUE]

SendAck(e) ==
    IF e.incomingMsgId <= e.incomingAckId
    THEN e
    ELSE Write([e EXCEPT !.incomingAckId = e.incomingMsgId],
               AckMessage(e.incomingMsgId))

(* Mutated: pops one message too many. *)
DropAckedTooMany(queue, ack) == SelectSeq(queue, LAMBDA m : m.id > ack + 1)

(* The queue once its leading messages up to id ack are popped. *)
DropAcked(queue, ack) ==
    LET n == CHOOSE k \in 0 .. Len(queue) :
                /\ \A i \in 1 .. k : queue[i].id <= ack
                /\ k = Len(queue) \/ queue[k + 1].id > ack
    IN  SubSeq(queue, n + 1, Len(queue))

AcceptAck(e, ack) ==
    IF ack > e.outgoingAckId
    THEN [e EXCEPT !.outgoingAckId = ack,
                   !.outgoingUnackMsg = DropAcked(@, ack)]
    ELSE e

(* Mutated: neither duplicates nor gaps are noticed. *)
AcceptRegularUnchecked(e, m) ==
    SendAckCheck([e EXCEPT !.incomingMsgId = m.id,
                           !.delivered = Append(@, m.data)])

(* Mutated: a gap is not noticed. *)
AcceptRegularGap(e, m) ==
    IF m.id <= e.incomingMsgId THEN e
    ELSE SendAckCheck([e EXCEPT !.incomingMsgId = m.id,
                                !.delivered = Append(@, m.data)])

(* The Regular case of _receiveMessage. *)
AcceptRegular(e, m) ==
    IF m.id <= e.incomingMsgId THEN e
    ELSE IF m.id # e.incomingMsgId + 1
    THEN IF e.replayRequested THEN e
         ELSE Write([e EXCEPT !.replayRequested = TRUE], Plain("ReplayRequest"))
    ELSE SendAckCheck([e EXCEPT !.incomingMsgId = m.id,
                                !.delivered = Append(@, m.data)])

ReplayUnacknowledged(e, overdue) ==
    RecvAckCheck(WriteAll(e, e.outgoingUnackMsg), overdue)

ReceiveMessage(e, m, overdue) ==
    LET a == AcceptAck(e, m.ack)
    IN  CASE m.type = "Regular" -> AcceptRegular(a, m)
          [] m.type \in {"Control", "Ack"} -> a
          [] m.type = "Disconnect" -> [a EXCEPT !.didDispose = TRUE]
          [] m.type = "ReplayRequest" -> ReplayUnacknowledged(a, overdue)
          [] m.type = "Pause" -> Pause(a)
          [] m.type = "Resume" -> Resume(a)

(* Mutated: writes although a reconnection is under way. *)
SendRegularEager(e, d, overdue) ==
    LET id == e.outgoingMsgId + 1
        m == [type |-> "Regular", id |-> id, ack |-> e.incomingMsgId, data |-> d]
        queued == [e EXCEPT !.outgoingMsgId = id,
                            !.incomingAckId = e.incomingMsgId,
                            !.outgoingUnackMsg = Append(@, m),
                            !.sent = Append(@, d)]
    IN  RecvAckCheck(Write(queued, m), overdue)

SendRegular(e, d, overdue) ==
    LET id == e.outgoingMsgId + 1
        m == [type |-> "Regular", id |-> id, ack |-> e.incomingMsgId, data |-> d]
        queued == [e EXCEPT !.outgoingMsgId = id,
                            !.incomingAckId = e.incomingMsgId,
                            !.outgoingUnackMsg = Append(@, m),
                            !.sent = Append(@, d)]
    IN  IF e.isReconnecting THEN queued
        ELSE RecvAckCheck(Write(queued, m), overdue)

(* beginAcceptReconnection: a new reader and a new writer.  Only what the  *)
(* assignments name is reset; armed acknowledgement timers stay armed.     *)
Rebind(e, s) ==
    [e EXCEPT !.isReconnecting = TRUE, !.disposed = FALSE,
              !.replayRequested = FALSE, !.socketTimeout = FALSE,
              !.socket = s, !.data = <<>>, !.isPaused = FALSE,
              !.writeNowTimeout = FALSE]

(* Mutated: writes the unacknowledged messages without watching for acks. *)
EndReconnectionUnwatched(e, overdue) ==
    LET acked == [e EXCEPT !.isReconnecting = FALSE,
                           !.incomingAckId = e.incomingMsgId]
    IN  WriteAll(Write(acked, AckMessage(e.incomingMsgId)), e.outgoingUnackMsg)

(* Mutated: writes nothing again. *)
EndReconnectionSilent(e, overdue) ==
    RecvAckCheck(Write([e EXCEPT !.isReconnecting = FALSE,
                                 !.incomingAckId = e.incomingMsgId],
                       AckMessage(e.incomingMsgId)), overdue)

(* endAcceptReconnection *)
EndReconnection(e, overdue) ==
    LET acked == [e EXCEPT !.isReconnecting = FALSE,
                           !.incomingAckId = e.incomingMsgId]
    IN  ReplayUnacknowledged(Write(acked, AckMessage(e.incomingMsgId)), overdue)

DisposeEndpoint(e) ==
    [Flushed(e) EXCEPT !.disposed = TRUE, !.outgoingAckTimeout = FALSE,
                       !.incomingAckTimeout = FALSE]

-----------------------------------------------------------------------------
Init ==
    /\ ep = [p \in Peer |-> Constructed(FirstSocket)]
    /\ pipe = [s \in Socket |-> [p \in Peer |-> <<>>]]
    /\ closed = {}
    /\ bound = [p \in Peer |-> {FirstSocket}]

(* The pipes once p has written ms to its socket: a closed one drops them. *)
Transmit(p, ms) ==
    IF ep[p].socket \in closed THEN pipe
    ELSE [pipe EXCEPT ![ep[p].socket][p] = @ \o ms]

Update(p, e) == ep' = [ep EXCEPT ![p] = e]
Queued(p) == Len(ep[p].data) + Len(pipe[ep[p].socket][p])
Quiet(p) == Queued(p) < MaxQueued

Send(p) ==
    /\ ep[p].outgoingMsgId < MaxSend[p]
    /\ \E d \in Payload, overdue \in BOOLEAN :
          Update(p, SendRegular(ep[p], d, overdue))
    /\ UNCHANGED <<pipe, closed, bound>>

SendControl(p) ==
    /\ Quiet(p)
    /\ Update(p, Write(ep[p], Plain("Control")))
    /\ UNCHANGED <<pipe, closed, bound>>

SendPause(p) ==
    /\ p \in Pausing
    /\ Quiet(p)
    /\ Update(p, Write(ep[p], Plain("Pause")))
    /\ UNCHANGED <<pipe, closed, bound>>

SendResume(p) ==
    /\ p \in Pausing
    /\ Quiet(p)
    /\ Update(p, Write(ep[p], Plain("Resume")))
    /\ UNCHANGED <<pipe, closed, bound>>

(* pauseSocketWriting(), the debug command that pauses our own writer. *)
PauseSocketWriting(p) ==
    /\ p \in Pausing
    /\ Update(p, Pause(ep[p]))
    /\ UNCHANGED <<pipe, closed, bound>>

SendDisconnect(p) ==
    /\ p \in Disposing
    /\ Queued(p) <= MaxQueued
    /\ LET e == Write(ep[p], Plain("Disconnect"))
       IN  Update(p, Flushed(e)) /\ pipe' = Transmit(p, Flushable(e))
    /\ UNCHANGED <<closed, bound>>

(* The timer of _scheduleWriting, or drain() and flush() ahead of it. *)
WriteNow(p) ==
    /\ ep[p].writeNowTimeout
    /\ Update(p, [Flushed(ep[p]) EXCEPT !.writeNowTimeout = FALSE])
    /\ pipe' = Transmit(p, Flushable(ep[p]))
    /\ UNCHANGED <<closed, bound>>

Receive(p) ==
    LET s == ep[p].socket
        incoming == pipe[s][Other(p)]
    IN  /\ ~ep[p].disposed
        /\ incoming # <<>>
        /\ \E overdue \in BOOLEAN :
              Update(p, ReceiveMessage(ep[p], Head(incoming), overdue))
        /\ pipe' = [pipe EXCEPT ![s][Other(p)] = Tail(incoming)]
        /\ UNCHANGED <<closed, bound>>

(* The timer armed by _sendAckCheck.  When a message came in the last 2s   *)
(* it is armed again, which changes nothing here.                          *)
IncomingAckTimer(p) ==
    /\ ep[p].incomingAckTimeout
    /\ Update(p, SendAck([ep[p] EXCEPT !.incomingAckTimeout = FALSE]))
    /\ UNCHANGED <<pipe, closed, bound>>

(* The timer armed by _recvAckCheck. *)
OutgoingAckTimer(p) ==
    /\ ep[p].outgoingAckTimeout
    /\ \E overdue \in BOOLEAN :
          Update(p, RecvAckCheck([ep[p] EXCEPT !.outgoingAckTimeout = FALSE], overdue))
    /\ UNCHANGED <<pipe, closed, bound>>

(* 10s pass since the last replay request. *)
ReplayWindowElapses(p) ==
    /\ ep[p].replayRequested
    /\ Quiet(p) /\ Quiet(Other(p))
    /\ Update(p, [ep[p] EXCEPT !.replayRequested = FALSE])
    /\ UNCHANGED <<pipe, closed, bound>>

(* The old writer flushes to the old socket, which is then destroyed: what *)
(* it still carries arrives in part, and nobody reads the other direction. *)
BeginAcceptReconnection(p, s) ==
    LET old == ep[p].socket
        outgoing == Transmit(p, IF ep[p].disposed THEN <<>> ELSE Flushable(ep[p]))[old][p]
    IN  /\ s \notin bound[p]
        /\ Update(p, Rebind(ep[p], s))
        /\ \E n \in 0 .. Len(outgoing) :
              pipe' = [pipe EXCEPT ![old][p] = SubSeq(outgoing, 1, n),
                                   ![old][Other(p)] = <<>>]
        /\ closed' = closed \cup {old}
        /\ bound' = [bound EXCEPT ![p] = @ \cup {s}]

EndAcceptReconnection(p) ==
    /\ ep[p].isReconnecting
    /\ \E overdue \in BOOLEAN : Update(p, EndReconnection(ep[p], overdue))
    /\ UNCHANGED <<pipe, closed, bound>>

Dispose(p) ==
    /\ p \in Disposing
    /\ ~ep[p].disposed
    /\ Update(p, DisposeEndpoint(ep[p]))
    /\ pipe' = Transmit(p, Flushable(ep[p]))
    /\ UNCHANGED <<closed, bound>>

(* acceptDisconnect() *)
AcceptDisconnect(p) ==
    /\ p \in Disposing
    /\ Update(p, [ep[p] EXCEPT !.didDispose = TRUE])
    /\ UNCHANGED <<pipe, closed, bound>>

(* The network drops a connection and any tail of what it carries. *)
CloseSocket(s) ==
    /\ s \in MayClose \ closed
    /\ closed' = closed \cup {s}
    /\ \E n \in 0 .. Len(pipe[s]["client"]), k \in 0 .. Len(pipe[s]["server"]) :
          pipe' = [pipe EXCEPT ![s]["client"] = SubSeq(@, 1, n),
                               ![s]["server"] = SubSeq(@, 1, k)]
    /\ UNCHANGED <<ep, bound>>

(* Another reader of the socket takes a message off it, as the protocol    *)
(* object of a handshake would: the gap that ReplayRequest is there for.   *)
TakeAway(s, p) ==
    /\ Lossy
    /\ pipe[s][p] # <<>>
    /\ pipe' = [pipe EXCEPT ![s][p] = Tail(@)]
    /\ UNCHANGED <<ep, closed, bound>>

PeerStep(p) ==
    \/ Send(p) \/ SendControl(p) \/ SendPause(p) \/ SendResume(p)
    \/ PauseSocketWriting(p) \/ SendDisconnect(p)
    \/ WriteNow(p) \/ Receive(p)
    \/ IncomingAckTimer(p) \/ OutgoingAckTimer(p) \/ ReplayWindowElapses(p)
    \/ \E s \in Socket : BeginAcceptReconnection(p, s)
    \/ EndAcceptReconnection(p) \/ Dispose(p) \/ AcceptDisconnect(p)

NetworkStep ==
    \E s \in Socket : CloseSocket(s) \/ \E p \in Peer : TakeAway(s, p)

Next == (\E p \in Peer : PeerStep(p)) \/ NetworkStep

Spec == Init /\ [][Next]_vars

(* Timers fire, sockets deliver, an end whose socket closed is given the   *)
(* next one while there is one, and a reconnection begun is ended.         *)
Fairness ==
    \A p \in Peer :
        /\ WF_vars(WriteNow(p))
        /\ WF_vars(Receive(p))
        /\ WF_vars(IncomingAckTimer(p))
        /\ WF_vars(ep[p].socket \in closed
                   /\ \E s \in Socket : BeginAcceptReconnection(p, s))
        /\ WF_vars(EndAcceptReconnection(p))

FairSpec == Spec /\ Fairness

-----------------------------------------------------------------------------
TypeOK ==
    /\ ep \in [Peer -> Endpoint]
    /\ pipe \in [Socket -> [Peer -> Seq(Message)]]
    /\ closed \subseteq Socket
    /\ bound \in [Peer -> SUBSET Socket]

(* What an end delivers is what the other passed to send(), in that order, *)
(* each message once, whatever was lost, repeated or written again.        *)
InOrderOnce ==
    \A p \in Peer :
        LET q == Other(p)
        IN  /\ Len(ep[q].delivered) <= Len(ep[p].sent)
            /\ \A i \in 1 .. Len(ep[q].delivered) :
                  ep[q].delivered[i] = ep[p].sent[i]

(* A message leaves outgoingUnackMsg only once the other end delivered it: *)
(* the queue holds exactly the ids above outgoingAckId, unaltered, so it   *)
(* is never empty where _recvAckCheck reads its first element.             *)
NothingForgotten ==
    \A p \in Peer :
        LET e == ep[p]
        IN  /\ e.outgoingAckId <= Len(ep[Other(p)].delivered)
            /\ Len(e.outgoingUnackMsg) = e.outgoingMsgId - e.outgoingAckId
            /\ \A i \in 1 .. Len(e.outgoingUnackMsg) :
                  /\ e.outgoingUnackMsg[i].id = e.outgoingAckId + i
                  /\ e.outgoingUnackMsg[i].data = e.sent[e.outgoingAckId + i]

(* While something is unacknowledged outside a reconnection, either the    *)
(* timer that detects a dead socket is armed or it has already fired: a    *)
(* silent network is always noticed (_recvAckCheck).                       *)
DeadSocketNoticed ==
    \A p \in Peer :
        ep[p].outgoingMsgId > ep[p].outgoingAckId
          /\ ~ep[p].isReconnecting /\ ~ep[p].disposed
        => ep[p].outgoingAckTimeout \/ ep[p].socketTimeout

(* A delivered message whose acknowledgement is still owed has the timer   *)
(* that will send it armed (_sendAckCheck), unless a reconnection is under *)
(* way, whose end acknowledges everything again.                           *)
AckOwed ==
    \A p \in Peer :
        ep[p].incomingMsgId > ep[p].incomingAckId
          /\ ~ep[p].isReconnecting /\ ~ep[p].disposed
        => ep[p].incomingAckTimeout

(* Bytes buffered in an unpaused writer are always about to be written.    *)
WriteScheduled ==
    \A p \in Peer :
        ep[p].data # <<>> /\ ~ep[p].isPaused /\ ~ep[p].disposed
        => ep[p].writeNowTimeout

(* On every socket the Regular messages on their way to the end that reads *)
(* it, written or still buffered, continue what it has without a gap: the  *)
(* suppressed writes of a reconnection are made up for before new ones.    *)
NoGap ==
    \A p \in Peer :
        LET q == Other(p)
            s == ep[q].socket
            stream == pipe[s][p] \o
                        (IF ep[p].socket = s /\ s \notin closed
                         THEN ep[p].data ELSE <<>>)
        IN  \A i \in 1 .. Len(stream) :
              stream[i].type = "Regular" =>
                \/ stream[i].id <= ep[q].incomingMsgId + 1
                \/ \E j \in 1 .. i - 1 :
                      stream[j].type = "Regular" /\ stream[j].id >= stream[i].id - 1

(* Whatever is sent is in the end delivered and acknowledged, although the *)
(* sockets under the connection close.                                     *)
EventuallyAcknowledged ==
    \A p \in Peer : \A n \in 1 .. MaxSend[p] :
        (ep[p].outgoingMsgId >= n)
            ~> (ep[p].outgoingAckId >= n /\ Len(ep[Other(p)].delivered) >= n)

(* The protocol implements the abstract channel: a message is confirmed    *)
(* when the id of an incoming ack passes it.                               *)
Channel == INSTANCE ReliableChannel
             WITH sent <- [p \in Peer |-> ep[p].sent],
                  delivered <- [p \in Peer |-> ep[p].delivered],
                  confirmed <- [p \in Peer |-> ep[p].outgoingAckId]

(* Every step of the protocol is a step of the channel or leaves it as is. *)
ImplementsChannel == Channel!Spec

=============================================================================
