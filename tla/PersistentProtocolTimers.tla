---------------------- MODULE PersistentProtocolTimers ----------------------
(***************************************************************************)
(* The timers of PersistentProtocol and of its writer: whatever is owed to *)
(* the other end has a timer that will see to it, in every state of any    *)
(* instance.  The three invariants concern one end at a time and are       *)
(* inductive as they stand, given that the end has its type (TypeCorrect). *)
(***************************************************************************)
EXTENDS PersistentProtocolProofs

(* The three invariants, for one end. *)
Watched(e) ==
    e.outgoingMsgId > e.outgoingAckId /\ ~e.isReconnecting /\ ~e.disposed
    => e.outgoingAckTimeout \/ e.socketTimeout

Owed(e) ==
    e.incomingMsgId > e.incomingAckId /\ ~e.isReconnecting /\ ~e.disposed
    => e.incomingAckTimeout

Scheduled(e) ==
    e.data # <<>> /\ ~e.isPaused /\ ~e.disposed => e.writeNowTimeout

(* The invariant of one end.                                               *)
Attended(e) == e \in Endpoint /\ Watched(e) /\ Owed(e) /\ Scheduled(e)

(* A write changes only what Scheduled reads. *)
LEMMA WriteAllAttends ==
  ASSUME NEW e \in Endpoint, Scheduled(e), NEW ms \in Seq(Message)
  PROVE  LET f == WriteAll(e, ms)
         IN  /\ f \in Endpoint /\ Scheduled(f)
             /\ Watched(e) => Watched(f)
             /\ Owed(e) => Owed(f)
  <1> DEFINE all == e.data \o ms
             soon == e.writeNowTimeout \/ e.data = <<>>
             g == [e EXCEPT !.data = all, !.writeNowTimeout = soon]
  <1>1. all \in Seq(Message)
    BY DEF Endpoint
  <1>2. soon \in BOOLEAN /\ (e.data = <<>> => soon) /\ (e.writeNowTimeout => soon)
    BY DEF Endpoint
  <1> HIDE DEF all, soon
  <1>3. /\ g \in Endpoint /\ g.writeNowTimeout = soon /\ g.isPaused = e.isPaused
        /\ g.disposed = e.disposed
        /\ Watched(e) => Watched(g)
        /\ Owed(e) => Owed(g)
    BY <1>1, <1>2 DEF Endpoint, Watched, Owed
  <1>4. Scheduled(g)
    BY <1>2, <1>3 DEF Scheduled
  <1>5. WriteAll(e, ms) = e \/ WriteAll(e, ms) = g
    BY DEF WriteAll, all, soon
  <1> HIDE DEF g
  <1>6. CASE WriteAll(e, ms) = e
    BY <1>6, Zenon
  <1>7. CASE WriteAll(e, ms) = g
    BY <1>3, <1>4, <1>7, Zenon
  <1> QED BY <1>5, <1>6, <1>7

(* _recvAckCheck arms the timer, finds it armed or reports the time-out. *)
LEMMA RecvAckCheckAttends ==
  ASSUME NEW e \in Endpoint, Owed(e), Scheduled(e), NEW overdue
  PROVE  Attended(RecvAckCheck(e, overdue))
  <1> DEFINE g == [e EXCEPT !.socketTimeout = TRUE]
             h == [e EXCEPT !.outgoingAckTimeout = TRUE]
  <1>1. g \in Endpoint /\ Attended(g)
    BY DEF Attended, Endpoint, Watched, Owed, Scheduled
  <1>2. h \in Endpoint /\ Attended(h)
    BY DEF Attended, Endpoint, Watched, Owed, Scheduled
  <1>3. CASE e.outgoingMsgId <= e.outgoingAckId \/ e.outgoingAckTimeout \/ e.isReconnecting
    <2>1. Watched(e)
      BY <1>3 DEF Endpoint, Watched
    <2>2. RecvAckCheck(e, overdue) = e
      BY <1>3 DEF RecvAckCheck
    <2> QED BY <2>1, <2>2 DEF Attended
  <1>4. CASE ~(e.outgoingMsgId <= e.outgoingAckId \/ e.outgoingAckTimeout \/ e.isReconnecting)
    <2>1. RecvAckCheck(e, overdue) = g \/ RecvAckCheck(e, overdue) = h
      BY <1>4 DEF RecvAckCheck
    <2> HIDE DEF g, h
    <2> QED BY <1>1, <1>2, <2>1
  <1> QED BY <1>3, <1>4

(* _sendAckCheck arms the timer or finds it armed.                         *)
LEMMA SendAckCheckAttends ==
  ASSUME NEW e \in Endpoint, Watched(e), Scheduled(e)
  PROVE  Attended(SendAckCheck(e))
  <1> DEFINE g == [e EXCEPT !.incomingAckTimeout = TRUE]
  <1>1. Attended(g)
    BY DEF Attended, Endpoint, Watched, Owed, Scheduled
  <1>2. CASE e.incomingMsgId <= e.incomingAckId \/ e.incomingAckTimeout
    <2>1. Owed(e) /\ SendAckCheck(e) = e
      BY <1>2 DEF Endpoint, Owed, SendAckCheck
    <2> QED BY <2>1 DEF Attended
  <1>3. CASE ~(e.incomingMsgId <= e.incomingAckId \/ e.incomingAckTimeout)
    BY <1>1, <1>3 DEF SendAckCheck
  <1> QED BY <1>2, <1>3

(* _sendAck leaves nothing owed.                                           *)
LEMMA SendAckAttends ==
  ASSUME NEW e \in Endpoint, Watched(e), Scheduled(e)
  PROVE  Attended(SendAck(e))
  <1> DEFINE g == [e EXCEPT !.incomingAckId = e.incomingMsgId]
             m == AckMessage(e.incomingMsgId)
  <1>1. g \in Endpoint /\ Watched(g) /\ Owed(g) /\ Scheduled(g)
    <2> DEFINE n == e.incomingMsgId
    <2>1. n \in Nat
      BY DEF Endpoint
    <2>2. g = [e EXCEPT !.incomingAckId = n]
      OBVIOUS
    <2>3. e.incomingMsgId = n
      OBVIOUS
    <2> HIDE DEF n, g
    <2>4. g \in Endpoint /\ g.incomingAckId = n /\ g.incomingMsgId = n
      BY <2>1, <2>2, <2>3 DEF Endpoint
    <2>5. Watched(g) /\ Scheduled(g)
      BY <2>1, <2>2 DEF Endpoint, Watched, Scheduled
    <2>6. Owed(g)
      BY <2>1, <2>4 DEF Owed
    <2> QED BY <2>4, <2>5, <2>6
  <1>2. m \in Message
    BY DEF AckMessage, Message, MessageType, Endpoint
  <1> HIDE DEF g, m
  <1>3. Attended(WriteAll(g, <<m>>))
    <2>1. <<m>> \in Seq(Message)
      BY <1>2
    <2> QED BY <1>1, <2>1, WriteAllAttends DEF Attended
  <1>4. CASE e.incomingMsgId <= e.incomingAckId
    <2>1. Owed(e) /\ SendAck(e) = e
      BY <1>4 DEF Endpoint, Owed, SendAck
    <2> QED BY <2>1 DEF Attended
  <1>5. CASE ~(e.incomingMsgId <= e.incomingAckId)
    BY <1>3, <1>5 DEF SendAck, Write, g, m
  <1> QED BY <1>4, <1>5

(* A replay is watched.                                                    *)
LEMMA ReplayAttends ==
  ASSUME NEW e \in Endpoint, Owed(e), Scheduled(e), NEW overdue
  PROVE  Attended(ReplayUnacknowledged(e, overdue))
  <1> DEFINE g == WriteAll(e, e.outgoingUnackMsg)
  <1>1. g \in Endpoint /\ Scheduled(g) /\ Owed(g)
    <2>1. e.outgoingUnackMsg \in Seq(Message)
      BY DEF Endpoint
    <2> QED BY <2>1, WriteAllAttends
  <1> HIDE DEF g
  <1>2. Attended(RecvAckCheck(g, overdue))
    BY <1>1, RecvAckCheckAttends
  <1> QED BY <1>2 DEF ReplayUnacknowledged, g

-----------------------------------------------------------------------------
(* One lemma for each operation of an end. *)

(* An acknowledgement leaves less to watch for. *)
LEMMA AcceptAckAttends ==
  ASSUME NEW e, EndInv(e), Attended(e), NEW ack \in Nat, ack <= e.outgoingMsgId
  PROVE  Attended(AcceptAck(e, ack))
  <1> DEFINE queue == DropAcked(e.outgoingUnackMsg, ack)
             f == [e EXCEPT !.outgoingAckId = ack, !.outgoingUnackMsg = queue]
  <1>1. CASE ack > e.outgoingAckId
    <2>1. AcceptAck(e, ack) = f
      BY <1>1 DEF AcceptAck
    <2>2. f \in Endpoint
      BY <2>1, AcceptAckInv DEF EndInv
    <2> HIDE DEF queue
    <2>3. /\ f.outgoingMsgId = e.outgoingMsgId /\ f.outgoingAckId = ack
          /\ f.isReconnecting = e.isReconnecting /\ f.disposed = e.disposed
          /\ f.outgoingAckTimeout = e.outgoingAckTimeout
          /\ f.socketTimeout = e.socketTimeout
          /\ f.incomingMsgId = e.incomingMsgId /\ f.incomingAckId = e.incomingAckId
          /\ f.incomingAckTimeout = e.incomingAckTimeout
          /\ f.data = e.data /\ f.isPaused = e.isPaused
          /\ f.writeNowTimeout = e.writeNowTimeout
      BY DEF Attended, Endpoint
    <2>4. e.outgoingMsgId > ack => e.outgoingMsgId > e.outgoingAckId
      BY <1>1 DEF Attended, Endpoint
    <2> HIDE DEF f
    <2>5. Watched(f)
      BY <2>3, <2>4 DEF Attended, Watched
    <2>6. Owed(f) /\ Scheduled(f)
      BY <2>3 DEF Attended, Owed, Scheduled
    <2> QED BY <2>1, <2>2, <2>5, <2>6 DEF Attended
  <1>2. CASE ~(ack > e.outgoingAckId)
    BY <1>2 DEF AcceptAck
  <1> QED BY <1>1, <1>2

(* A Regular message is dropped, answered by a replay request or           *)
(* delivered.                                                              *)
LEMMA AcceptRegularAttends ==
  ASSUME NEW e, Attended(e), NEW m \in Message, m.data \in Payload
  PROVE  Attended(AcceptRegular(e, m))
  <1> DEFINE g == [e EXCEPT !.replayRequested = TRUE]
             id == m.id
             all == Append(e.delivered, m.data)
             h == [e EXCEPT !.incomingMsgId = id, !.delivered = all]
             ask == Plain("ReplayRequest")
  <1>1. id \in Nat /\ all \in Seq(Payload)
    BY DEF Attended, Endpoint, Message
  <1>2. ask \in Message /\ <<ask>> \in Seq(Message)
    BY DEF Plain, Message, MessageType
  <1>3. Attended(g)
    BY DEF Attended, Endpoint, Watched, Owed, Scheduled
  <1> HIDE DEF ask, g
  <1>4. Attended(Write(g, ask))
    BY <1>2, <1>3, WriteAllAttends DEF Attended, Write
  <1> HIDE DEF id, all
  <1>5. h \in Endpoint /\ Watched(h) /\ Scheduled(h)
    BY <1>1 DEF Attended, Endpoint, Watched, Scheduled
  <1> HIDE DEF h
  <1>6. Attended(SendAckCheck(h))
    BY <1>5, SendAckCheckAttends
  <1>7. \/ AcceptRegular(e, m) = e
        \/ AcceptRegular(e, m) = Write(g, ask)
        \/ AcceptRegular(e, m) = SendAckCheck(h)
    BY DEF AcceptRegular, g, h, ask, id, all
  <1> QED BY <1>4, <1>6, <1>7

(* Flags, Pause and Resume; the latter schedules a write.                  *)
LEMMA FlagsAttend ==
  ASSUME NEW e, Attended(e)
  PROVE  /\ Attended([e EXCEPT !.didDispose = TRUE])
         /\ Attended([e EXCEPT !.replayRequested = FALSE])
         /\ Attended(Pause(e)) /\ Attended(Resume(e))
  <1>1. Attended([e EXCEPT !.didDispose = TRUE])
    BY DEF Attended, Endpoint, Watched, Owed, Scheduled
  <1>2. Attended([e EXCEPT !.replayRequested = FALSE])
    BY DEF Attended, Endpoint, Watched, Owed, Scheduled
  <1>3. Attended(Pause(e))
    BY DEF Pause, Attended, Endpoint, Watched, Owed, Scheduled
  <1>4. Attended(Resume(e))
    BY DEF Resume, Attended, Endpoint, Watched, Owed, Scheduled
  <1> QED BY <1>1, <1>2, <1>3, <1>4

(* _receiveMessage, for every type of message.                             *)
LEMMA ReceiveMessageAttends ==
  ASSUME NEW e, EndInv(e), Attended(e), NEW overdue,
         NEW m \in Message, m.ack <= e.outgoingMsgId,
         m.type = "Regular" => m.data \in Payload
  PROVE  Attended(ReceiveMessage(e, m, overdue))
  <1> DEFINE a == AcceptAck(e, m.ack)
  <1>1. Attended(a)
    <2>1. m.ack \in Nat
      BY DEF Message
    <2> QED BY <2>1, AcceptAckAttends
  <1> HIDE DEF a
  <1>2. m.type \in MessageType
    BY DEF Message
  <1>3. CASE m.type = "Regular"
    BY <1>1, <1>3, AcceptRegularAttends DEF ReceiveMessage, a
  <1>4. CASE m.type \in {"Control", "Ack"}
    BY <1>1, <1>4 DEF ReceiveMessage, a
  <1>5. CASE m.type = "Disconnect"
    BY <1>1, <1>5, FlagsAttend DEF ReceiveMessage, a
  <1>6. CASE m.type = "ReplayRequest"
    <2>1. Attended(ReplayUnacknowledged(a, overdue))
      BY <1>1, ReplayAttends DEF Attended
    <2> QED BY <1>6, <2>1 DEF ReceiveMessage, a
  <1>7. CASE m.type = "Pause"
    BY <1>1, <1>7, FlagsAttend DEF ReceiveMessage, a
  <1>8. CASE m.type = "Resume"
    BY <1>1, <1>8, FlagsAttend DEF ReceiveMessage, a
  <1> QED BY <1>2, <1>3, <1>4, <1>5, <1>6, <1>7, <1>8 DEF MessageType

(* send() watches for the acknowledgement unless a reconnection is under   *)
(* way.                                                                    *)
LEMMA SendRegularAttends ==
  ASSUME NEW e, Attended(e), NEW d \in Payload, NEW overdue
  PROVE  Attended(SendRegular(e, d, overdue))
  <1> DEFINE id == e.outgoingMsgId + 1
             n == e.incomingMsgId
             m == [type |-> "Regular", id |-> id, ack |-> n, data |-> d]
             queue == Append(e.outgoingUnackMsg, m)
             all == Append(e.sent, d)
             g == [e EXCEPT !.outgoingMsgId = id, !.incomingAckId = n,
                            !.outgoingUnackMsg = queue, !.sent = all]
  <1>1. id \in Nat /\ n \in Nat /\ e \in Endpoint /\ e.incomingMsgId = n
    BY DEF Attended, Endpoint
  <1>2. m \in Message /\ <<m>> \in Seq(Message)
    BY <1>1 DEF Message, MessageType
  <1>3. queue \in Seq(Message) /\ all \in Seq(Payload)
    <2> HIDE DEF m
    <2> QED BY <1>1, <1>2 DEF Endpoint
  <1> HIDE DEF id, n, m, queue, all
  <1>4. /\ g \in Endpoint /\ g.incomingAckId = n /\ g.incomingMsgId = n
        /\ g.isReconnecting = e.isReconnecting /\ g.data = e.data
        /\ g.isPaused = e.isPaused /\ g.disposed = e.disposed
        /\ g.writeNowTimeout = e.writeNowTimeout
    BY <1>1, <1>3 DEF Endpoint
  <1> HIDE DEF g
  <1>5. Owed(g)
    BY <1>1, <1>4 DEF Owed
  <1>6. Scheduled(g)
    BY <1>4 DEF Attended, Scheduled
  <1>7. CASE e.isReconnecting
    <2>1. SendRegular(e, d, overdue) = g
      BY <1>7 DEF SendRegular, g, m, id, n, queue, all
    <2>2. Watched(g)
      BY <1>4, <1>7 DEF Watched
    <2> QED BY <1>4, <1>5, <1>6, <2>1, <2>2 DEF Attended
  <1>8. CASE ~e.isReconnecting
    <2>1. SendRegular(e, d, overdue) = RecvAckCheck(Write(g, m), overdue)
      BY <1>8 DEF SendRegular, g, m, id, n, queue, all
    <2>2. /\ Write(g, m) \in Endpoint /\ Scheduled(Write(g, m)) /\ Owed(Write(g, m))
      BY <1>2, <1>4, <1>5, <1>6, WriteAllAttends DEF Write
    <2> QED BY <2>1, <2>2, RecvAckCheckAttends
  <1> QED BY <1>7, <1>8

(* While a reconnection is under way nothing is asked of an end but that   *)
(* its new writer is scheduled, and it starts empty.                       *)
LEMMA RebindAttends ==
  ASSUME NEW e, Attended(e), NEW s \in Socket
  PROVE  Attended(Rebind(e, s))
  <1> DEFINE none == <<>>
             f == [e EXCEPT !.isReconnecting = TRUE, !.disposed = FALSE,
                            !.replayRequested = FALSE, !.socketTimeout = FALSE,
                            !.socket = s, !.data = none, !.isPaused = FALSE,
                            !.writeNowTimeout = FALSE]
  <1>1. none \in Seq(Message) /\ none = <<>>
    OBVIOUS
  <1>2. Rebind(e, s) = f
    BY DEF Rebind
  <1> HIDE DEF none
  <1>3. f \in Endpoint /\ f.isReconnecting = TRUE /\ f.data = none
    BY ZenonT(30), <1>1 DEF Attended, Endpoint
  <1> HIDE DEF f
  <1>4. Watched(f) /\ Owed(f) /\ Scheduled(f)
    BY <1>1, <1>3 DEF Watched, Owed, Scheduled
  <1> QED BY <1>2, <1>3, <1>4 DEF Attended

(* The end of a reconnection acknowledges everything and watches again.    *)
LEMMA EndReconnectionAttends ==
  ASSUME NEW e, Attended(e), NEW overdue
  PROVE  Attended(EndReconnection(e, overdue))
  <1> DEFINE n == e.incomingMsgId
             m == AckMessage(n)
             g == [e EXCEPT !.isReconnecting = FALSE, !.incomingAckId = n]
  <1>1. n \in Nat /\ e \in Endpoint /\ e.incomingMsgId = n
    BY DEF Attended, Endpoint
  <1>2. <<m>> \in Seq(Message)
    BY <1>1 DEF AckMessage, Message, MessageType
  <1> HIDE DEF n, m
  <1>3. /\ g \in Endpoint /\ g.incomingAckId = n /\ g.incomingMsgId = n
        /\ g.data = e.data /\ g.isPaused = e.isPaused /\ g.disposed = e.disposed
        /\ g.writeNowTimeout = e.writeNowTimeout
    BY <1>1 DEF Endpoint
  <1> HIDE DEF g
  <1>4. Owed(g) /\ Scheduled(g)
    BY <1>1, <1>3 DEF Attended, Owed, Scheduled
  <1>5. Write(g, m) \in Endpoint /\ Scheduled(Write(g, m)) /\ Owed(Write(g, m))
    BY <1>2, <1>3, <1>4, WriteAllAttends DEF Write
  <1>6. Attended(ReplayUnacknowledged(Write(g, m), overdue))
    BY <1>5, ReplayAttends
  <1> QED BY <1>6 DEF EndReconnection, g, m, n

(* A writer that was flushed holds nothing unless it is paused. *)
LEMMA FlushedAttends ==
  ASSUME NEW e, Attended(e)
  PROVE  /\ Attended(Flushed(e))
         /\ Attended([Flushed(e) EXCEPT !.writeNowTimeout = FALSE])
         /\ Attended(DisposeEndpoint(e))
  <1> DEFINE kept == IF e.isPaused THEN e.data ELSE <<>>
             f == [e EXCEPT !.data = kept]
             g == [f EXCEPT !.writeNowTimeout = FALSE]
             h == [f EXCEPT !.disposed = TRUE, !.outgoingAckTimeout = FALSE,
                            !.incomingAckTimeout = FALSE]
  <1>1. kept \in Seq(Message) /\ (kept # <<>> => e.isPaused)
    <2>1. e.data \in Seq(Message) /\ <<>> \in Seq(Message)
      BY DEF Attended, Endpoint
    <2> QED BY <2>1
  <1>2. Flushed(e) = f
    BY DEF Flushed
  <1> HIDE DEF kept
  <1>3. /\ f \in Endpoint /\ f.data = kept /\ f.isPaused = e.isPaused
        /\ Watched(f) /\ Owed(f)
    BY <1>1 DEF Attended, Endpoint, Watched, Owed
  <1> HIDE DEF f
  <1>4. /\ g \in Endpoint /\ g.data = kept /\ g.isPaused = e.isPaused
        /\ Watched(g) /\ Owed(g)
    BY <1>3 DEF Endpoint, Watched, Owed
  <1>5. h \in Endpoint /\ h.disposed = TRUE
    BY <1>3 DEF Endpoint
  <1> HIDE DEF g, h
  <1>6. Attended(f) /\ Attended(g)
    BY <1>1, <1>3, <1>4 DEF Attended, Scheduled
  <1>7. Attended(h)
    BY <1>5 DEF Attended, Watched, Owed, Scheduled
  <1> QED BY <1>2, <1>6, <1>7 DEF DisposeEndpoint, g, h

-----------------------------------------------------------------------------
(* The steps of both ends. *)

(* The inductive invariant, relative to IInv.                              *)
AllAttended == \A p \in Peer : Attended(ep[p])

(* At the start nothing is owed to anyone.                                 *)
LEMMA InitAttended == Init => AllAttended
  <1> SUFFICES ASSUME Init, NEW p \in Peer PROVE Attended(ep[p])
    BY DEF AllAttended
  <1> DEFINE e == Constructed(FirstSocket)
  <1>1. ep[p] = e /\ ep[p] \in Endpoint
    BY InitInv DEF Init, IInv
  <1>2. /\ e.outgoingMsgId = 0 /\ e.outgoingAckId = 0 /\ e.incomingMsgId = 0
        /\ e.incomingAckId = 0 /\ e.data = <<>>
    BY DEF Constructed
  <1> HIDE DEF e
  <1> QED BY <1>1, <1>2 DEF Attended, Watched, Owed, Scheduled

(* An end that changes as attended leaves both attended.                   *)
LEMMA UpdateAttended ==
  ASSUME IInv, AllAttended, NEW p \in Peer, NEW f, Attended(f), Update(p, f)
  PROVE  AllAttended'
  BY DEF IInv, AllAttended, Update, Attended

(* One step of an end, by its action.                                      *)
LEMMA PeerStepAttended ==
  ASSUME IInv, AllAttended, NEW p \in Peer, PeerStep(p)
  PROVE  AllAttended'
  <1> DEFINE e == ep[p]
             w(type) == Write(e, Plain(type))
  <1>1. EndInv(e) /\ Attended(e) /\ e \in Endpoint
    BY DEF IInv, AllAttended, EndInv
  <1>2. ASSUME NEW type \in MessageType PROVE Attended(w(type))
    <2>1. <<Plain(type)>> \in Seq(Message)
      BY DEF Plain, Message
    <2> QED BY <1>1, <2>1, WriteAllAttends DEF Write, Attended
  <1> HIDE DEF w
  <1>3. CASE Send(p)
    <2>1. PICK d \in Payload, overdue \in BOOLEAN : Update(p, SendRegular(e, d, overdue))
      BY <1>3 DEF Send
    <2> QED BY <1>1, <2>1, SendRegularAttends, UpdateAttended
  <1>4. CASE SendControl(p) \/ SendPause(p) \/ SendResume(p)
    <2>1. PICK type \in MessageType : Update(p, w(type))
      BY <1>4 DEF SendControl, SendPause, SendResume, MessageType, w
    <2> QED BY <1>2, <2>1, UpdateAttended
  <1>5. CASE PauseSocketWriting(p) \/ ReplayWindowElapses(p) \/ AcceptDisconnect(p)
    <2>1. PICK f \in {Pause(e), [e EXCEPT !.replayRequested = FALSE],
                      [e EXCEPT !.didDispose = TRUE]} : Update(p, f)
      BY <1>5 DEF PauseSocketWriting, ReplayWindowElapses, AcceptDisconnect
    <2>2. Attended(f)
      BY <1>1, FlagsAttend
    <2> QED BY <2>1, <2>2, UpdateAttended
  <1>6. CASE SendDisconnect(p)
    <2>1. Attended(w("Disconnect"))
      BY <1>2 DEF MessageType
    <2>2. Update(p, Flushed(w("Disconnect")))
      BY <1>6 DEF SendDisconnect, w
    <2> QED BY <2>1, <2>2, FlushedAttends, UpdateAttended
  <1>7. CASE WriteNow(p)
    BY <1>1, <1>7, FlushedAttends, UpdateAttended DEF WriteNow
  <1>8. CASE Dispose(p)
    BY <1>1, <1>8, FlushedAttends, UpdateAttended DEF Dispose
  <1>9. CASE Receive(p)
    <2> DEFINE m == Head(pipe[e.socket][Other(p)])
    <2>1. PICK overdue \in BOOLEAN : Update(p, ReceiveMessage(e, m, overdue))
      BY <1>9 DEF Receive
    <2>2. /\ m \in Message /\ m.ack <= e.outgoingMsgId
          /\ m.type = "Regular" => m.data \in Payload
      BY <1>9, ArrivingMessage DEF Receive
    <2> HIDE DEF m
    <2>3. Attended(ReceiveMessage(e, m, overdue))
      BY <1>1, <2>2, ReceiveMessageAttends
    <2> QED BY <2>1, <2>3, UpdateAttended
  <1>10. CASE IncomingAckTimer(p)
    <2> DEFINE g == [e EXCEPT !.incomingAckTimeout = FALSE]
    <2>1. g \in Endpoint /\ Watched(g) /\ Scheduled(g)
      BY <1>1 DEF Attended, Endpoint, Watched, Scheduled
    <2> HIDE DEF g
    <2>2. Attended(SendAck(g))
      BY <2>1, SendAckAttends
    <2> QED BY <1>10, <2>2, UpdateAttended DEF IncomingAckTimer, g
  <1>11. CASE OutgoingAckTimer(p)
    <2> DEFINE g == [e EXCEPT !.outgoingAckTimeout = FALSE]
    <2>1. g \in Endpoint /\ Owed(g) /\ Scheduled(g)
      BY <1>1 DEF Attended, Endpoint, Owed, Scheduled
    <2> HIDE DEF g
    <2>2. PICK overdue \in BOOLEAN : Update(p, RecvAckCheck(g, overdue))
      BY <1>11 DEF OutgoingAckTimer, g
    <2>3. Attended(RecvAckCheck(g, overdue))
      BY <2>1, RecvAckCheckAttends
    <2> QED BY <2>2, <2>3, UpdateAttended
  <1>12. CASE \E s \in Socket : BeginAcceptReconnection(p, s)
    <2>1. PICK s \in Socket : Update(p, Rebind(e, s))
      BY <1>12 DEF BeginAcceptReconnection
    <2> QED BY <1>1, <2>1, RebindAttends, UpdateAttended
  <1>13. CASE EndAcceptReconnection(p)
    <2>1. PICK overdue \in BOOLEAN : Update(p, EndReconnection(e, overdue))
      BY <1>13 DEF EndAcceptReconnection
    <2> QED BY <1>1, <2>1, EndReconnectionAttends, UpdateAttended
  <1> QED BY <1>3, <1>4, <1>5, <1>6, <1>7, <1>8, <1>9, <1>10, <1>11, <1>12, <1>13
          DEF PeerStep

LEMMA NextAttended == IInv /\ AllAttended /\ [Next]_vars => AllAttended'
  <1> SUFFICES ASSUME IInv, AllAttended, [Next]_vars PROVE AllAttended'
    OBVIOUS
  <1>1. ASSUME NEW p \in Peer, PeerStep(p) PROVE AllAttended'
    BY <1>1, PeerStepAttended
  <1>2. CASE NetworkStep
    BY <1>2, NetworkStepInv DEF AllAttended
  <1>3. CASE UNCHANGED vars
    BY <1>3 DEF vars, AllAttended
  <1> QED BY <1>1, <1>2, <1>3 DEF Next

LEMMA AlwaysAttended == Spec => []AllAttended
  BY InitAttended, NextAttended, Invariance, PTL DEF Spec

-----------------------------------------------------------------------------
(* A silent network is always noticed: outside a reconnection an end that  *)
(* waits for an acknowledgement has the timer of _recvAckCheck armed, or   *)
(* has reported the time-out.                                              *)
THEOREM NoticesDeadSockets == Spec => []DeadSocketNoticed
  <1>1. AllAttended => DeadSocketNoticed
    BY DEF AllAttended, Attended, Watched, DeadSocketNoticed
  <1> QED BY <1>1, AlwaysAttended, PTL

(* An end that owes an acknowledgement has the timer of _sendAckCheck      *)
(* armed, outside a reconnection.                                          *)
THEOREM OwesNoForgottenAck == Spec => []AckOwed
  <1>1. AllAttended => AckOwed
    BY DEF AllAttended, Attended, Owed, AckOwed
  <1> QED BY <1>1, AlwaysAttended, PTL

(* ProtocolWriter never holds bytes without a scheduled write, unless it   *)
(* is paused or disposed.                                                  *)
THEOREM SchedulesWrites == Spec => []WriteScheduled
  <1>1. AllAttended => WriteScheduled
    BY DEF AllAttended, Attended, Scheduled, WriteScheduled
  <1> QED BY <1>1, AlwaysAttended, PTL

=============================================================================
