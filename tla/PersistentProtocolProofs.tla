---------------------- MODULE PersistentProtocolProofs ----------------------
(***************************************************************************)
(* PersistentProtocol delivers in order and once, forgets nothing, leaves  *)
(* no gap and implements ReliableChannel, for every value of the           *)
(* constants.                                                              *)
(*                                                                         *)
(* The proof goes from one end to both: each operation of an end keeps     *)
(* EndInv and changes the histories in one of three ways (Effect), each    *)
(* step of an end writes only good messages (Stepped), and an effect keeps *)
(* the invariant IInv of the two ends and the sockets (EffectInv).  The    *)
(* second part follows what an end has on its socket and in its writer     *)
(* (Flows) through the same operations and steps.                          *)
(***************************************************************************)
EXTENDS PersistentProtocol, SequenceTheorems, TLAPS

(* A message that end e has written: it acknowledges no more than e has    *)
(* received, and a Regular one is one of those e was asked to send.        *)
GoodMessage(e, m) ==
    /\ m \in Message
    /\ m.ack <= e.incomingMsgId
    /\ m.type = "Regular" => m.id \in 1 .. e.outgoingMsgId /\ m.data = e.sent[m.id]

AllGood(e, ms) ==
    /\ ms \in Seq(Message)
    /\ \A i \in 1 .. Len(ms) : GoodMessage(e, ms[i])

(* outgoingUnackMsg holds exactly the ids above outgoingAckId.             *)
QueueExact(e) ==
    /\ e.outgoingAckId <= e.outgoingMsgId
    /\ Len(e.outgoingUnackMsg) = e.outgoingMsgId - e.outgoingAckId
    /\ \A i \in 1 .. Len(e.outgoingUnackMsg) :
          e.outgoingUnackMsg[i].type = "Regular" /\ e.outgoingUnackMsg[i].id = e.outgoingAckId + i

(* The part of the invariant that concerns one end.                        *)
EndInv(e) ==
    /\ e \in Endpoint
    /\ Len(e.sent) = e.outgoingMsgId
    /\ Len(e.delivered) = e.incomingMsgId
    /\ QueueExact(e)
    /\ AllGood(e, e.outgoingUnackMsg)
    /\ AllGood(e, e.data)

(* What EndInv relates to the histories is the same in e and f.            *)
SameCore(e, f) ==
    /\ f.sent = e.sent
    /\ f.delivered = e.delivered
    /\ f.outgoingMsgId = e.outgoingMsgId
    /\ f.incomingMsgId = e.incomingMsgId
    /\ f.outgoingAckId = e.outgoingAckId
    /\ f.outgoingUnackMsg = e.outgoingUnackMsg

(* Whoever changes only timers, flags, the socket or, with good messages,  *)
(* the writer keeps EndInv.                                                *)
LEMMA SameCoreInv ==
  ASSUME NEW e, NEW f, EndInv(e), f \in Endpoint, SameCore(e, f), AllGood(e, f.data)
  PROVE  EndInv(f)
  BY DEF EndInv, SameCore, AllGood, GoodMessage, QueueExact

LEMMA AllGoodConcat ==
  ASSUME NEW e, NEW a, NEW b, AllGood(e, a), AllGood(e, b)
  PROVE  AllGood(e, a \o b)
  BY DEF AllGood

(* Writing messages that are good changes nothing but the writer.          *)
LEMMA WriteAllInv ==
  ASSUME NEW e, NEW ms, EndInv(e), AllGood(e, ms)
  PROVE  EndInv(WriteAll(e, ms)) /\ SameCore(e, WriteAll(e, ms))
  <1> DEFINE f == WriteAll(e, ms)
  <1>1. e \in Endpoint /\ AllGood(e, e.data)
    BY DEF EndInv
  <1>2. f \in Endpoint /\ SameCore(e, f)
    <2>1. e.data \o ms \in Seq(Message)
      BY <1>1 DEF AllGood
    <2>2. (e.writeNowTimeout \/ e.data = <<>>) \in BOOLEAN
      OBVIOUS
    <2> QED BY ZenonT(30), <1>1, <2>1, <2>2 DEF WriteAll, Endpoint, SameCore
  <1>3. AllGood(e, f.data)
    BY <1>1, AllGoodConcat DEF WriteAll, Endpoint
  <1> QED BY <1>2, <1>3, SameCoreInv

(* _recvAckCheck changes timers only.                                      *)
LEMMA RecvAckCheckInv ==
  ASSUME NEW e, NEW overdue, EndInv(e)
  PROVE  EndInv(RecvAckCheck(e, overdue)) /\ SameCore(e, RecvAckCheck(e, overdue))
  <1> DEFINE f == RecvAckCheck(e, overdue)
  <1>1. e \in Endpoint /\ AllGood(e, e.data)
    BY DEF EndInv
  <1>2. f \in Endpoint /\ SameCore(e, f) /\ f.data = e.data
    BY ZenonT(30), <1>1 DEF RecvAckCheck, Endpoint, SameCore
  <1> QED BY <1>1, <1>2, SameCoreInv

(* Messages outside the acknowledge flow are always good.                  *)
LEMMA PlainGood ==
  ASSUME NEW e, EndInv(e), NEW type \in MessageType \ {"Regular"}
  PROVE  AllGood(e, <<Plain(type)>>)
  <1>1. Plain(type) \in Message /\ Plain(type).ack = 0 /\ Plain(type).type # "Regular"
    BY DEF Plain, Message, MessageType
  <1>2. e.incomingMsgId \in Nat
    BY DEF EndInv, Endpoint
  <1> QED BY <1>1, <1>2 DEF AllGood, GoodMessage

(* An acknowledgement of what was received is good.                        *)
LEMMA AckGood ==
  ASSUME NEW e, EndInv(e)
  PROVE  AllGood(e, <<AckMessage(e.incomingMsgId)>>)
  <1> DEFINE m == AckMessage(e.incomingMsgId)
  <1>1. e.incomingMsgId \in Nat
    BY DEF EndInv, Endpoint
  <1>2. m \in Message /\ m.ack = e.incomingMsgId /\ m.type # "Regular"
    BY <1>1 DEF AckMessage, Message, MessageType
  <1> QED BY <1>1, <1>2 DEF AllGood, GoodMessage

(* _sendAckCheck changes a timer only.                                     *)
LEMMA SendAckCheckInv ==
  ASSUME NEW e, EndInv(e)
  PROVE  EndInv(SendAckCheck(e)) /\ SameCore(e, SendAckCheck(e))
  <1> DEFINE f == SendAckCheck(e)
  <1>1. e \in Endpoint /\ AllGood(e, e.data)
    BY DEF EndInv
  <1>2. f \in Endpoint /\ SameCore(e, f) /\ f.data = e.data
    BY ZenonT(30), <1>1 DEF SendAckCheck, Endpoint, SameCore
  <1> QED BY <1>1, <1>2, SameCoreInv

(* _sendAck writes an acknowledgement.                                     *)
LEMMA SendAckInv ==
  ASSUME NEW e, EndInv(e)
  PROVE  EndInv(SendAck(e)) /\ SameCore(e, SendAck(e))
  <1> DEFINE g == [e EXCEPT !.incomingAckId = e.incomingMsgId]
             m == AckMessage(e.incomingMsgId)
  <1>1. e \in Endpoint /\ AllGood(e, e.data)
    BY DEF EndInv
  <1>2. g \in Endpoint /\ SameCore(e, g) /\ g.data = e.data
    BY <1>1 DEF Endpoint, SameCore
  <1>3. EndInv(g)
    BY <1>1, <1>2, SameCoreInv
  <1>4. AllGood(g, <<m>>)
    <2>1. g.incomingMsgId = e.incomingMsgId
      BY <1>2 DEF SameCore
    <2> QED BY <1>3, <2>1, AckGood
  <1>5. EndInv(Write(g, m)) /\ SameCore(g, Write(g, m))
    BY <1>3, <1>4, WriteAllInv DEF Write
  <1> HIDE DEF g, m
  <1>6. SameCore(e, Write(g, m))
    BY <1>2, <1>5 DEF SameCore
  <1>7. SendAck(e) = e \/ SendAck(e) = Write(g, m)
    BY DEF SendAck, g, m
  <1>8. SameCore(e, e)
    BY DEF SameCore
  <1> QED BY <1>5, <1>6, <1>7, <1>8

(* Writing the unacknowledged messages again changes no history.           *)
LEMMA ReplayInv ==
  ASSUME NEW e, NEW overdue, EndInv(e)
  PROVE  /\ EndInv(ReplayUnacknowledged(e, overdue))
         /\ SameCore(e, ReplayUnacknowledged(e, overdue))
  <1> DEFINE g == WriteAll(e, e.outgoingUnackMsg)
  <1>1. EndInv(g) /\ SameCore(e, g)
    BY WriteAllInv DEF EndInv
  <1> HIDE DEF g
  <1>2. EndInv(RecvAckCheck(g, overdue)) /\ SameCore(g, RecvAckCheck(g, overdue))
    BY <1>1, RecvAckCheckInv
  <1> QED BY <1>1, <1>2 DEF SameCore, ReplayUnacknowledged, g

(* The elements of a suffix and of a prefix of a sequence.                 *)
LEMMA SuffixProperties ==
  ASSUME NEW S, NEW q \in Seq(S), NEW n \in 0 .. Len(q)
  PROVE  LET r == SubSeq(q, n + 1, Len(q))
         IN  /\ r \in Seq(S)
             /\ Len(r) = Len(q) - n
             /\ \A i \in 1 .. Len(r) : n + i \in 1 .. Len(q) /\ r[i] = q[n + i]
  <1>1. Len(q) \in Nat /\ n + 1 \in Int /\ \A i \in n + 1 .. Len(q) : q[i] \in S
    OBVIOUS
  <1>2. /\ SubSeq(q, n + 1, Len(q)) \in Seq(S)
        /\ Len(SubSeq(q, n + 1, Len(q))) = IF n + 1 <= Len(q) THEN Len(q) - (n + 1) + 1 ELSE 0
        /\ \A i \in 1 .. Len(q) - (n + 1) + 1 : SubSeq(q, n + 1, Len(q))[i] = q[n + 1 + i - 1]
    BY <1>1, SubSeqProperties
  <1> QED BY <1>1, <1>2

LEMMA PrefixProperties ==
  ASSUME NEW S, NEW q \in Seq(S), NEW n \in 0 .. Len(q)
  PROVE  LET r == SubSeq(q, 1, n)
         IN  /\ r \in Seq(S)
             /\ Len(r) = n
             /\ \A i \in 1 .. Len(r) : i \in 1 .. Len(q) /\ r[i] = q[i]
  <1>1. Len(q) \in Nat /\ n \in Int /\ \A i \in 1 .. n : q[i] \in S
    OBVIOUS
  <1>2. /\ SubSeq(q, 1, n) \in Seq(S)
        /\ Len(SubSeq(q, 1, n)) = IF 1 <= n THEN n - 1 + 1 ELSE 0
        /\ \A i \in 1 .. n - 1 + 1 : SubSeq(q, 1, n)[i] = q[1 + i - 1]
    BY <1>1, SubSeqProperties
  <1> QED BY <1>1, <1>2

(* The loop of _receiveMessage that pops outgoingUnackMsg removes exactly  *)
(* the messages that ack covers.                                           *)
LEMMA DropAckedExact ==
  ASSUME NEW e, EndInv(e), NEW ack \in Nat,
         e.outgoingAckId < ack, ack <= e.outgoingMsgId
  PROVE  DropAcked(e.outgoingUnackMsg, ack)
           = SubSeq(e.outgoingUnackMsg, ack - e.outgoingAckId + 1, Len(e.outgoingUnackMsg))
  <1> DEFINE queue == e.outgoingUnackMsg
             Popped(k) == /\ \A i \in 1 .. k : queue[i].id <= ack
                          /\ k = Len(queue) \/ queue[k + 1].id > ack
             n == ack - e.outgoingAckId
  <1>1. /\ e.outgoingAckId \in Nat /\ e.outgoingMsgId \in Nat
        /\ Len(queue) = e.outgoingMsgId - e.outgoingAckId
        /\ \A i \in 1 .. Len(queue) : queue[i].id = e.outgoingAckId + i
    BY DEF EndInv, Endpoint, QueueExact
  <1> HIDE DEF queue
  <1>2. n \in 0 .. Len(queue) /\ Popped(n)
    <2>1. n \in 0 .. Len(queue)
      BY <1>1
    <2>2. ASSUME NEW i \in 1 .. n
          PROVE  queue[i].id <= ack
      <3>1. i \in 1 .. Len(queue)
        BY <2>1
      <3>2. queue[i].id = e.outgoingAckId + i
        BY <1>1, <3>1
      <3> QED BY <1>1, <3>2
    <2>3. CASE n = Len(queue)
      BY <2>1, <2>2, <2>3
    <2>4. CASE n # Len(queue)
      <3>1. n + 1 \in 1 .. Len(queue)
        BY <2>1, <2>4
      <3>2. queue[n + 1].id = e.outgoingAckId + (n + 1)
        <4> HIDE DEF n
        <4> QED BY <1>1, <3>1
      <3>3. queue[n + 1].id > ack
        BY <1>1, <3>2
      <3> QED BY <2>1, <2>2, <3>3
    <2> QED BY <2>3, <2>4
  <1>3. ASSUME NEW k \in 0 .. Len(queue), Popped(k)
        PROVE  k = n
    <2>1. ~(k < n)
      BY <1>1, <1>2, <1>3
    <2>2. ~(n < k)
      <3> SUFFICES ASSUME n < k PROVE FALSE
        OBVIOUS
      <3>1. n + 1 \in 1 .. k /\ n + 1 \in 1 .. Len(queue)
        BY <1>1, <1>2
      <3>2. queue[n + 1].id = ack + 1
        BY <1>1, <3>1
      <3>3. queue[n + 1].id <= ack
        BY <1>3, <3>1
      <3> QED BY <3>2, <3>3
    <2> QED BY <1>1, <1>2, <2>1, <2>2
  <1>4. (CHOOSE k \in 0 .. Len(queue) : Popped(k)) = n
    BY <1>2, <1>3
  <1> QED BY <1>4 DEF DropAcked, queue

(* What a message may change of an end, and what sending may change.       *)
Stays(e, f) == SameCore(e, f)

(* e was asked to send one more message.                                   *)
Sends(e, f) ==
    /\ \E d \in Payload : f.sent = Append(e.sent, d)
    /\ f.outgoingMsgId = e.outgoingMsgId + 1
    /\ f.delivered = e.delivered
    /\ f.incomingMsgId = e.incomingMsgId
    /\ f.outgoingAckId = e.outgoingAckId

(* e took over the acknowledgement that m carries, or did not.             *)
Acked(e, f, m) ==
    \/ f.outgoingAckId = e.outgoingAckId
    \/ e.outgoingAckId < m.ack /\ f.outgoingAckId = m.ack

(* e delivered m, the next in order, or nothing.                           *)
Delivered(e, f, m) ==
    \/ /\ f.incomingMsgId = e.incomingMsgId
       /\ f.delivered = e.delivered
    \/ /\ m.type = "Regular"
       /\ m.id = e.incomingMsgId + 1
       /\ f.incomingMsgId = m.id
       /\ f.delivered = Append(e.delivered, m.data)

Receives(e, f, m) ==
    /\ f.sent = e.sent
    /\ f.outgoingMsgId = e.outgoingMsgId
    /\ Acked(e, f, m)
    /\ Delivered(e, f, m)

(* An incoming acknowledgement of something sent keeps EndInv.             *)
LEMMA AcceptAckInv ==
  ASSUME NEW e, EndInv(e), NEW ack \in Nat, ack <= e.outgoingMsgId
  PROVE  LET f == AcceptAck(e, ack)
         IN  /\ EndInv(f)
             /\ f.sent = e.sent /\ f.outgoingMsgId = e.outgoingMsgId
             /\ f.delivered = e.delivered /\ f.incomingMsgId = e.incomingMsgId
             /\ f.data = e.data
             /\ \/ f.outgoingAckId = e.outgoingAckId
                \/ e.outgoingAckId < ack /\ f.outgoingAckId = ack
  <1> DEFINE f == AcceptAck(e, ack)
             queue == e.outgoingUnackMsg
             rest == SubSeq(queue, ack - e.outgoingAckId + 1, Len(queue))
  <1>1. CASE ack <= e.outgoingAckId
    <2>1. e.outgoingAckId \in Nat
      BY DEF EndInv, Endpoint
    <2>2. f = e
      BY <1>1, <2>1 DEF AcceptAck
    <2> QED BY <2>2
  <1>2. CASE e.outgoingAckId < ack
    <2>1. e \in Endpoint
      BY DEF EndInv
    <2>2. f = [e EXCEPT !.outgoingAckId = ack, !.outgoingUnackMsg = rest]
      BY <1>2, <2>1, DropAckedExact DEF AcceptAck, Endpoint
    <2>3. /\ queue \in Seq(Message) /\ AllGood(e, queue)
          /\ e.outgoingAckId \in Nat /\ e.outgoingMsgId \in Nat
          /\ Len(queue) = e.outgoingMsgId - e.outgoingAckId
          /\ \A i \in 1 .. Len(queue) :
                queue[i].type = "Regular" /\ queue[i].id = e.outgoingAckId + i
      BY DEF EndInv, Endpoint, QueueExact
    <2>4. /\ rest \in Seq(Message)
          /\ Len(rest) = e.outgoingMsgId - ack
          /\ \A i \in 1 .. Len(rest) :
                /\ (ack - e.outgoingAckId) + i \in 1 .. Len(queue)
                /\ rest[i] = queue[(ack - e.outgoingAckId) + i]
      <3> DEFINE n == ack - e.outgoingAckId
      <3> HIDE DEF queue
      <3>1. n \in 0 .. Len(queue) /\ Len(queue) - n = e.outgoingMsgId - ack
        BY <1>2, <2>3
      <3>2. rest = SubSeq(queue, n + 1, Len(queue))
        OBVIOUS
      <3> HIDE DEF n, rest
      <3>3. /\ rest \in Seq(Message)
            /\ Len(rest) = Len(queue) - n
            /\ \A i \in 1 .. Len(rest) :
                  n + i \in 1 .. Len(queue) /\ rest[i] = queue[n + i]
        BY <2>3, <3>1, <3>2, SuffixProperties
      <3> QED BY <3>1, <3>3 DEF n
    <2>5. \A i \in 1 .. Len(rest) :
             /\ GoodMessage(e, rest[i])
             /\ rest[i].type = "Regular" /\ rest[i].id = ack + i
      <3> HIDE DEF queue, rest
      <3> TAKE i \in 1 .. Len(rest)
      <3> DEFINE j == (ack - e.outgoingAckId) + i
      <3>1. j \in 1 .. Len(queue) /\ rest[i] = queue[j]
        BY <2>4
      <3>2. GoodMessage(e, queue[j])
        BY <2>3, <3>1 DEF AllGood
      <3>3. e.outgoingAckId + j = ack + i
        BY <2>3, <2>4
      <3>4. queue[j].type = "Regular" /\ queue[j].id = ack + i
        <4> HIDE DEF j
        <4> QED BY <2>3, <3>1, <3>3
      <3> QED BY <3>1, <3>2, <3>4
    <2> HIDE DEF queue, rest
    <2>6. f \in Endpoint
      BY <2>1, <2>2, <2>4 DEF Endpoint
    <2>7. /\ f.sent = e.sent /\ f.outgoingMsgId = e.outgoingMsgId
          /\ f.delivered = e.delivered /\ f.incomingMsgId = e.incomingMsgId
          /\ f.data = e.data /\ f.outgoingAckId = ack /\ f.outgoingUnackMsg = rest
      BY <2>1, <2>2 DEF Endpoint
    <2> HIDE DEF f
    <2>8. QueueExact(f)
      BY <2>3, <2>4, <2>5, <2>7 DEF QueueExact
    <2>9. AllGood(f, f.outgoingUnackMsg) /\ AllGood(f, f.data)
      BY <2>4, <2>5, <2>7 DEF AllGood, GoodMessage, EndInv
    <2>10. EndInv(f)
      BY <2>6, <2>7, <2>8, <2>9 DEF EndInv
    <2> QED BY <1>2, <2>7, <2>10 DEF f
  <1>3. e.outgoingAckId \in Nat
    BY DEF EndInv, Endpoint
  <1> QED BY <1>1, <1>2, <1>3

(* A Regular message is delivered if it is the next one, or not at all.    *)
LEMMA AcceptRegularInv ==
  ASSUME NEW e, EndInv(e), NEW m, m \in Message, m.type = "Regular", m.data \in Payload
  PROVE  LET f == AcceptRegular(e, m)
         IN  /\ EndInv(f)
             /\ f.sent = e.sent /\ f.outgoingMsgId = e.outgoingMsgId
             /\ f.outgoingAckId = e.outgoingAckId
             /\ Delivered(e, f, m)
  <1> DEFINE f == AcceptRegular(e, m)
  <1> SUFFICES /\ EndInv(f)
               /\ f.sent = e.sent /\ f.outgoingMsgId = e.outgoingMsgId
               /\ f.outgoingAckId = e.outgoingAckId
               /\ Delivered(e, f, m)
    OBVIOUS
  <1>1. e \in Endpoint /\ e.incomingMsgId \in Nat /\ m.id \in Nat
    BY DEF EndInv, Endpoint, Message
  <1>2. CASE m.id <= e.incomingMsgId
    <2>1. f = e
      BY <1>2 DEF AcceptRegular
    <2> QED BY <2>1 DEF Delivered
  <1>3. CASE m.id > e.incomingMsgId /\ m.id # e.incomingMsgId + 1
    <2> DEFINE g == [e EXCEPT !.replayRequested = TRUE]
               r == Plain("ReplayRequest")
    <2>1. g \in Endpoint /\ SameCore(e, g) /\ g.data = e.data
      BY <1>1 DEF Endpoint, SameCore
    <2>2. EndInv(g)
      BY <2>1, SameCoreInv DEF EndInv
    <2>3. "ReplayRequest" \in MessageType \ {"Regular"}
      BY DEF MessageType
    <2>4. EndInv(Write(g, r)) /\ SameCore(g, Write(g, r))
      BY <2>2, <2>3, PlainGood, WriteAllInv DEF Write
    <2>5. f = e \/ f = Write(g, r)
      BY <1>1, <1>3 DEF AcceptRegular
    <2> HIDE DEF f, g, r
    <2> QED BY <2>1, <2>4, <2>5 DEF SameCore, Delivered
  <1>4. CASE m.id = e.incomingMsgId + 1
    <2> DEFINE g == [e EXCEPT !.incomingMsgId = m.id,
                              !.delivered = Append(@, m.data)]
    <2>1. Append(e.delivered, m.data) \in Seq(Payload)
      BY <1>1 DEF Endpoint
    <2>2. g \in Endpoint
      BY <1>1, <2>1 DEF Endpoint
    <2>3. /\ g.sent = e.sent /\ g.outgoingMsgId = e.outgoingMsgId
          /\ g.outgoingAckId = e.outgoingAckId
          /\ g.outgoingUnackMsg = e.outgoingUnackMsg /\ g.data = e.data
          /\ g.incomingMsgId = m.id /\ g.delivered = Append(e.delivered, m.data)
      BY <1>1 DEF Endpoint
    <2> HIDE DEF g
    <2>4. Len(g.delivered) = g.incomingMsgId
      BY <1>1, <1>4, <2>3 DEF EndInv, Endpoint
    <2>5. QueueExact(g)
      BY <2>3 DEF EndInv, QueueExact
    <2>6. AllGood(g, g.outgoingUnackMsg) /\ AllGood(g, g.data)
      <3>1. ASSUME NEW k, GoodMessage(e, k)
            PROVE  GoodMessage(g, k)
        BY <1>1, <1>4, <2>3, <3>1 DEF GoodMessage, Message
      <3> QED BY <2>3, <3>1 DEF EndInv, AllGood
    <2>7. EndInv(g)
      BY <2>2, <2>3, <2>4, <2>5, <2>6 DEF EndInv
    <2>8. EndInv(SendAckCheck(g)) /\ SameCore(g, SendAckCheck(g))
      BY <2>7, SendAckCheckInv
    <2>9. f = SendAckCheck(g)
      BY <1>1, <1>4 DEF AcceptRegular, g
    <2> HIDE DEF f
    <2> QED BY <1>4, <2>3, <2>8, <2>9 DEF SameCore, Delivered
  <1> QED BY <1>1, <1>2, <1>3, <1>4

(* _receiveMessage, for every type of message.                             *)
LEMMA ReceiveMessageInv ==
  ASSUME NEW e, EndInv(e), NEW overdue,
         NEW m, m \in Message, m.ack <= e.outgoingMsgId,
         m.type = "Regular" => m.data \in Payload
  PROVE  LET f == ReceiveMessage(e, m, overdue)
         IN  EndInv(f) /\ Receives(e, f, m)
  <1> DEFINE a == AcceptAck(e, m.ack)
             f == ReceiveMessage(e, m, overdue)
  <1> SUFFICES EndInv(f) /\ Receives(e, f, m)
    OBVIOUS
  <1>1. m.ack \in Nat /\ m.type \in MessageType
    BY DEF Message
  <1>2. /\ EndInv(a)
        /\ a.sent = e.sent /\ a.outgoingMsgId = e.outgoingMsgId
        /\ a.delivered = e.delivered /\ a.incomingMsgId = e.incomingMsgId
        /\ Acked(e, a, m)
    BY <1>1, AcceptAckInv DEF Acked
  <1>3. a \in Endpoint
    BY <1>2 DEF EndInv
  <1> HIDE DEF a
  <1>4. ASSUME NEW g, EndInv(g), SameCore(a, g)
        PROVE  EndInv(g) /\ Receives(e, g, m)
    BY <1>2, <1>4 DEF SameCore, Receives, Acked, Delivered
  <1>5. CASE m.type = "Regular"
    <2>1. f = AcceptRegular(a, m)
      BY <1>5 DEF ReceiveMessage, a
    <2>2. /\ EndInv(f)
          /\ f.sent = a.sent /\ f.outgoingMsgId = a.outgoingMsgId
          /\ f.outgoingAckId = a.outgoingAckId
          /\ Delivered(a, f, m)
      BY <1>2, <1>5, <2>1, AcceptRegularInv
    <2> HIDE DEF f
    <2> QED BY <1>2, <2>2 DEF Receives, Acked, Delivered
  <1>6. CASE m.type \in {"Control", "Ack"}
    <2>1. f = a
      BY <1>6 DEF ReceiveMessage, a
    <2> QED BY <1>2, <1>4, <2>1 DEF SameCore
  <1>7. CASE m.type \in {"Disconnect", "Pause", "Resume"}
    <2>1. /\ f \in Endpoint /\ SameCore(a, f) /\ f.data = a.data
      <3>1. CASE m.type = "Disconnect"
        <4>1. f = [a EXCEPT !.didDispose = TRUE]
          BY <3>1 DEF ReceiveMessage, a
        <4> QED BY <1>3, <4>1 DEF Endpoint, SameCore
      <3>2. CASE m.type = "Pause"
        <4>1. f = Pause(a)
          BY <3>2 DEF ReceiveMessage, a
        <4> QED BY <1>3, <4>1 DEF Endpoint, SameCore, Pause
      <3>3. CASE m.type = "Resume"
        <4>1. f = Resume(a)
          BY <3>3 DEF ReceiveMessage, a
        <4> QED BY <1>3, <4>1 DEF Endpoint, SameCore, Resume
      <3> QED BY <1>7, <3>1, <3>2, <3>3
    <2>2. EndInv(f)
      BY <1>2, <2>1, SameCoreInv DEF EndInv
    <2> QED BY <1>4, <2>1, <2>2
  <1>8. CASE m.type = "ReplayRequest"
    <2>1. f = ReplayUnacknowledged(a, overdue)
      BY <1>8 DEF ReceiveMessage, a
    <2> QED BY <1>2, <1>4, <2>1, ReplayInv
  <1> QED BY <1>1, <1>5, <1>6, <1>7, <1>8 DEF MessageType

(* send(), during a reconnection or outside one.                           *)
LEMMA SendRegularInv ==
  ASSUME NEW e, EndInv(e), NEW d \in Payload, NEW overdue
  PROVE  LET f == SendRegular(e, d, overdue)
         IN  EndInv(f) /\ Sends(e, f)
  <1> DEFINE id == e.outgoingMsgId + 1
             m == [type |-> "Regular", id |-> id, ack |-> e.incomingMsgId, data |-> d]
             g == [e EXCEPT !.outgoingMsgId = id,
                            !.incomingAckId = e.incomingMsgId,
                            !.outgoingUnackMsg = Append(@, m),
                            !.sent = Append(@, d)]
             f == SendRegular(e, d, overdue)
  <1> SUFFICES EndInv(f) /\ Sends(e, f)
    OBVIOUS
  <1>1. /\ e \in Endpoint /\ e.incomingMsgId \in Nat /\ e.outgoingMsgId \in Nat
        /\ e.outgoingAckId \in Nat /\ e.outgoingAckId <= e.outgoingMsgId
        /\ e.outgoingUnackMsg \in Seq(Message) /\ e.sent \in Seq(Payload)
        /\ Len(e.sent) = e.outgoingMsgId
        /\ Len(e.outgoingUnackMsg) = e.outgoingMsgId - e.outgoingAckId
    BY DEF EndInv, Endpoint, QueueExact
  <1>2. m \in Message
    BY <1>1 DEF Message, MessageType
  <1>3. /\ Append(e.outgoingUnackMsg, m) \in Seq(Message)
        /\ Append(e.sent, d) \in Seq(Payload)
    BY <1>1, <1>2
  <1>4. m.type = "Regular" /\ m.id = id /\ m.ack = e.incomingMsgId /\ m.data = d
    OBVIOUS
  <1> HIDE DEF m
  <1>5. g \in Endpoint
    <2> DEFINE queue == Append(e.outgoingUnackMsg, m)
               all == Append(e.sent, d)
    <2>1. id \in Nat
      BY <1>1
    <2>2. g = [e EXCEPT !.outgoingMsgId = id,
                        !.incomingAckId = e.incomingMsgId,
                        !.outgoingUnackMsg = queue,
                        !.sent = all]
      OBVIOUS
    <2>3. queue \in Seq(Message) /\ all \in Seq(Payload)
      BY <1>3
    <2> HIDE DEF queue, all, id, g
    <2> QED BY <1>1, <2>1, <2>2, <2>3 DEF Endpoint
  <1>6. /\ g.outgoingMsgId = id /\ g.outgoingAckId = e.outgoingAckId
        /\ g.outgoingUnackMsg = Append(e.outgoingUnackMsg, m)
        /\ g.sent = Append(e.sent, d) /\ g.delivered = e.delivered
        /\ g.incomingMsgId = e.incomingMsgId /\ g.data = e.data
    BY <1>1 DEF Endpoint
  <1> HIDE DEF g
  <1>7. /\ Len(g.sent) = id /\ g.sent[id] = d
        /\ \A i \in 1 .. e.outgoingMsgId : g.sent[i] = e.sent[i]
    BY <1>1, <1>6
  <1>8. ASSUME NEW k, GoodMessage(e, k)
        PROVE  GoodMessage(g, k)
    BY <1>1, <1>6, <1>7, <1>8 DEF GoodMessage
  <1>9. GoodMessage(g, m)
    BY <1>1, <1>2, <1>4, <1>6, <1>7 DEF GoodMessage
  <1>10. AllGood(g, g.data)
    BY <1>6, <1>8 DEF EndInv, AllGood
  <1>11. AllGood(g, <<m>>)
    BY <1>2, <1>9 DEF AllGood
  <1>12. AllGood(g, g.outgoingUnackMsg)
    <2>1. AllGood(g, e.outgoingUnackMsg)
      BY <1>8 DEF EndInv, AllGood
    <2>2. g.outgoingUnackMsg = e.outgoingUnackMsg \o <<m>>
      BY <1>1, <1>2, <1>6
    <2> QED BY <1>11, <2>1, <2>2, AllGoodConcat
  <1>13. QueueExact(g)
    <2>1. Len(g.outgoingUnackMsg) = id - e.outgoingAckId
      BY SMTT(20), <1>1, <1>6
    <2>2. ASSUME NEW i \in 1 .. Len(g.outgoingUnackMsg)
          PROVE  /\ g.outgoingUnackMsg[i].type = "Regular"
                 /\ g.outgoingUnackMsg[i].id = e.outgoingAckId + i
      <3>1. CASE i = id - e.outgoingAckId
        BY SMTT(20), <1>1, <1>2, <1>4, <1>6, <2>1, <3>1
      <3>2. CASE i # id - e.outgoingAckId
        <4>1. i \in 1 .. Len(e.outgoingUnackMsg)
          BY <1>1, <2>1, <3>2
        <4>2. g.outgoingUnackMsg[i] = e.outgoingUnackMsg[i]
          BY <1>1, <1>2, <1>6, <4>1
        <4> QED BY <4>1, <4>2 DEF EndInv, QueueExact
      <3> QED BY <3>1, <3>2
    <2>3. g.outgoingAckId <= g.outgoingMsgId
      BY <1>1, <1>6
    <2> QED BY <1>6, <2>1, <2>2, <2>3 DEF QueueExact
  <1>14. EndInv(g)
    BY <1>1, <1>5, <1>6, <1>7, <1>10, <1>12, <1>13 DEF EndInv
  <1>15. EndInv(Write(g, m)) /\ SameCore(g, Write(g, m))
    BY <1>11, <1>14, WriteAllInv DEF Write
  <1>16. /\ EndInv(RecvAckCheck(Write(g, m), overdue))
         /\ SameCore(Write(g, m), RecvAckCheck(Write(g, m), overdue))
    BY <1>15, RecvAckCheckInv
  <1>17. f = g \/ f = RecvAckCheck(Write(g, m), overdue)
    BY DEF SendRegular, g, m
  <1>18. EndInv(f) /\ SameCore(g, f)
    <2>1. SameCore(g, g)
      BY DEF SameCore
    <2> HIDE DEF f
    <2> QED BY <1>14, <1>15, <1>16, <1>17, <2>1 DEF SameCore
  <1> HIDE DEF f
  <1> QED BY <1>6, <1>18 DEF SameCore, Sends

(* beginAcceptReconnection drops the writer and keeps the queue.           *)
LEMMA RebindInv ==
  ASSUME NEW e, EndInv(e), NEW s \in Socket
  PROVE  EndInv(Rebind(e, s)) /\ SameCore(e, Rebind(e, s))
  <1> DEFINE f == Rebind(e, s)
  <1>1. e \in Endpoint
    BY DEF EndInv
  <1>2. f \in Endpoint /\ SameCore(e, f) /\ f.data = <<>>
    <2> DEFINE none == <<>>
    <2>1. none \in Seq(Message)
      OBVIOUS
    <2>2. f = [e EXCEPT !.isReconnecting = TRUE, !.disposed = FALSE,
                        !.replayRequested = FALSE, !.socketTimeout = FALSE,
                        !.socket = s, !.data = none, !.isPaused = FALSE,
                        !.writeNowTimeout = FALSE]
      BY DEF Rebind
    <2>3. none = <<>>
      OBVIOUS
    <2> HIDE DEF f, none
    <2>4. f \in Endpoint
      BY ZenonT(30), <1>1, <2>1, <2>2 DEF Endpoint
    <2>5. SameCore(e, f) /\ f.data = none
      BY <1>1, <2>2 DEF Endpoint, SameCore
    <2> QED BY <2>3, <2>4, <2>5
  <1>3. AllGood(e, f.data)
    BY <1>2 DEF AllGood
  <1> QED BY <1>2, <1>3, SameCoreInv

(* endAcceptReconnection acknowledges and replays.                         *)
LEMMA EndReconnectionInv ==
  ASSUME NEW e, NEW overdue, EndInv(e)
  PROVE  /\ EndInv(EndReconnection(e, overdue))
         /\ SameCore(e, EndReconnection(e, overdue))
  <1> DEFINE g == [e EXCEPT !.isReconnecting = FALSE, !.incomingAckId = e.incomingMsgId]
             m == AckMessage(e.incomingMsgId)
  <1>1. e \in Endpoint /\ AllGood(e, e.data)
    BY DEF EndInv
  <1>2. g \in Endpoint /\ SameCore(e, g) /\ g.data = e.data
    BY <1>1 DEF Endpoint, SameCore
  <1>3. EndInv(g)
    BY <1>1, <1>2, SameCoreInv
  <1>4. AllGood(g, <<m>>)
    <2>1. g.incomingMsgId = e.incomingMsgId
      BY <1>2 DEF SameCore
    <2> QED BY <1>3, <2>1, AckGood
  <1>5. EndInv(Write(g, m)) /\ SameCore(g, Write(g, m))
    BY <1>3, <1>4, WriteAllInv DEF Write
  <1>6. /\ EndInv(ReplayUnacknowledged(Write(g, m), overdue))
        /\ SameCore(Write(g, m), ReplayUnacknowledged(Write(g, m), overdue))
    BY <1>5, ReplayInv
  <1>7. EndReconnection(e, overdue) = ReplayUnacknowledged(Write(g, m), overdue)
    BY DEF EndReconnection
  <1> HIDE DEF g, m
  <1> QED BY <1>2, <1>5, <1>6, <1>7 DEF SameCore

(* _writeNow hands good messages to the socket.                            *)
LEMMA FlushedInv ==
  ASSUME NEW e, EndInv(e)
  PROVE  /\ EndInv(Flushed(e)) /\ SameCore(e, Flushed(e))
         /\ AllGood(e, Flushable(e))
  <1> DEFINE f == Flushed(e)
  <1>1. e \in Endpoint /\ AllGood(e, e.data)
    BY DEF EndInv
  <1>2. AllGood(e, <<>>)
    BY DEF AllGood
  <1>3. f \in Endpoint /\ SameCore(e, f) /\ (f.data = e.data \/ f.data = <<>>)
    <2> DEFINE rest == IF e.isPaused THEN e.data ELSE <<>>
    <2>1. rest \in Seq(Message) /\ (rest = e.data \/ rest = <<>>)
      BY <1>1 DEF AllGood
    <2>2. f = [e EXCEPT !.data = rest]
      BY DEF Flushed
    <2> HIDE DEF rest, f
    <2> QED BY <1>1, <2>1, <2>2 DEF Endpoint, SameCore
  <1> QED BY <1>1, <1>2, <1>3, SameCoreInv DEF Flushable

(* Timers, flags and the socket play no part in the invariant. *)
LEMMA FlagsInv ==
  ASSUME NEW e, EndInv(e)
  PROVE  /\ \A f \in {[e EXCEPT !.writeNowTimeout = FALSE],
                      [e EXCEPT !.incomingAckTimeout = FALSE],
                      [e EXCEPT !.outgoingAckTimeout = FALSE],
                      [e EXCEPT !.replayRequested = FALSE],
                      [e EXCEPT !.didDispose = TRUE],
                      [e EXCEPT !.disposed = TRUE, !.outgoingAckTimeout = FALSE,
                                !.incomingAckTimeout = FALSE],
                      Pause(e)} :
              EndInv(f) /\ SameCore(e, f)
  <1>1. e \in Endpoint /\ AllGood(e, e.data)
    BY DEF EndInv
  <1>2. \A f : f \in Endpoint /\ SameCore(e, f) /\ f.data = e.data
                 => EndInv(f) /\ SameCore(e, f)
    BY <1>1, SameCoreInv
  <1>3. LET f == [e EXCEPT !.writeNowTimeout = FALSE]
        IN  f \in Endpoint /\ SameCore(e, f) /\ f.data = e.data
    BY <1>1 DEF Endpoint, SameCore
  <1>4. LET f == [e EXCEPT !.incomingAckTimeout = FALSE]
        IN  f \in Endpoint /\ SameCore(e, f) /\ f.data = e.data
    BY <1>1 DEF Endpoint, SameCore
  <1>5. LET f == [e EXCEPT !.outgoingAckTimeout = FALSE]
        IN  f \in Endpoint /\ SameCore(e, f) /\ f.data = e.data
    BY <1>1 DEF Endpoint, SameCore
  <1>6. LET f == [e EXCEPT !.replayRequested = FALSE]
        IN  f \in Endpoint /\ SameCore(e, f) /\ f.data = e.data
    BY <1>1 DEF Endpoint, SameCore
  <1>7. LET f == [e EXCEPT !.didDispose = TRUE]
        IN  f \in Endpoint /\ SameCore(e, f) /\ f.data = e.data
    BY <1>1 DEF Endpoint, SameCore
  <1>8. LET f == [e EXCEPT !.disposed = TRUE, !.outgoingAckTimeout = FALSE,
                           !.incomingAckTimeout = FALSE]
        IN  f \in Endpoint /\ SameCore(e, f) /\ f.data = e.data
    BY <1>1 DEF Endpoint, SameCore
  <1>9. LET f == Pause(e)
        IN  f \in Endpoint /\ SameCore(e, f) /\ f.data = e.data
    BY <1>1 DEF Endpoint, SameCore, Pause
  <1> QED BY <1>2, <1>3, <1>4, <1>5, <1>6, <1>7, <1>8, <1>9, Zenon

-----------------------------------------------------------------------------
(* The two ends together. *)

(* What e knows that g has received, what g has, and what e was asked to   *)
(* send, from the oldest to the newest.                                    *)
Paired(e, g) ==
    /\ e.outgoingAckId <= g.incomingMsgId
    /\ g.incomingMsgId <= e.outgoingMsgId
    /\ \A i \in 1 .. g.incomingMsgId : g.delivered[i] = e.sent[i]

(* Whatever a socket carries was written by the end it comes from.         *)
GoodPipes(q) ==
    /\ q \in [Socket -> [Peer -> Seq(Message)]]
    /\ \A s \in Socket, p \in Peer : AllGood(ep[p], q[s][p])

(* The inductive invariant. InOrderOnce alone is not inductive: a message  *)
(* on its way might carry any data, an acknowledgement any number, and a   *)
(* replay anything the queue holds. GoodPipes and EndInv rule that out.    *)
IInv ==
    /\ ep \in [Peer -> Endpoint]
    /\ \A p \in Peer : EndInv(ep[p])
    /\ \A p \in Peer : Paired(ep[p], ep[Other(p)])
    /\ GoodPipes(pipe)
    /\ closed \subseteq Socket
    /\ bound \in [Peer -> SUBSET Socket]

LEMMA PeerFacts ==
  ASSUME NEW p \in Peer
  PROVE  Other(p) \in Peer /\ Other(p) # p /\ Other(Other(p)) = p
         /\ Peer = {p, Other(p)}
  BY DEF Peer, Other

(* What a step of end p may do to it. *)
Effect(p, f) ==
    /\ EndInv(f)
    /\ \/ SameCore(ep[p], f)
       \/ Sends(ep[p], f)
       \/ \E m : GoodMessage(ep[Other(p)], m) /\ Receives(ep[p], f, m)

LEMMA InitInv == Init => IInv
  <1> SUFFICES ASSUME Init PROVE IInv
    OBVIOUS
  <1> DEFINE e == Constructed(FirstSocket)
  <1>1. e \in Endpoint
    <2> DEFINE none == <<>>
    <2>1. none \in Seq(Message) /\ none \in Seq(Payload)
      OBVIOUS
    <2> QED BY <2>1, SocketAssumption DEF Constructed, Endpoint
  <1>2. /\ e.sent = <<>> /\ e.delivered = <<>> /\ e.data = <<>>
        /\ e.outgoingUnackMsg = <<>> /\ e.outgoingMsgId = 0
        /\ e.outgoingAckId = 0 /\ e.incomingMsgId = 0
    BY DEF Constructed
  <1> HIDE DEF e
  <1>3. AllGood(e, <<>>)
    BY DEF AllGood
  <1>4. EndInv(e)
    BY <1>1, <1>2, <1>3 DEF EndInv, QueueExact
  <1>5. Paired(e, e)
    BY <1>2 DEF Paired
  <1>6. \A p \in Peer : ep[p] = e /\ ep[Other(p)] = e
    BY PeerFacts DEF Init, e
  <1>7. GoodPipes(pipe)
    <2>1. <<>> \in Seq(Message)
      OBVIOUS
    <2>2. /\ pipe \in [Socket -> [Peer -> Seq(Message)]]
          /\ \A s \in Socket, p \in Peer : pipe[s][p] = <<>>
      BY <2>1 DEF Init
    <2> QED BY <1>3, <1>6, <2>2 DEF GoodPipes
  <1> QED BY <1>1, <1>4, <1>5, <1>6, <1>7, SocketAssumption DEF IInv, Init, e

(* Writing to a socket what was good in the writer. *)
LEMMA TransmitGood ==
  ASSUME IInv, NEW p \in Peer, NEW ms, AllGood(ep[p], ms)
  PROVE  GoodPipes(Transmit(p, ms))
  <1> DEFINE s == ep[p].socket
             q == [pipe EXCEPT ![s][p] = @ \o ms]
  <1>1. s \in Socket
    BY DEF IInv, Endpoint
  <1>2. /\ pipe \in [Socket -> [Peer -> Seq(Message)]]
        /\ \A t \in Socket, r \in Peer : AllGood(ep[r], pipe[t][r])
    BY DEF IInv, GoodPipes
  <1>3. AllGood(ep[p], pipe[s][p] \o ms)
    BY <1>1, <1>2, AllGoodConcat
  <1>4. pipe[s][p] \o ms \in Seq(Message)
    BY <1>3 DEF AllGood
  <1> HIDE DEF s
  <1>5. q \in [Socket -> [Peer -> Seq(Message)]]
    BY <1>1, <1>2, <1>4
  <1>6. \A t \in Socket, r \in Peer :
           q[t][r] = IF t = s /\ r = p THEN pipe[s][p] \o ms ELSE pipe[t][r]
    BY <1>1, <1>2
  <1>7. GoodPipes(q)
    <2> HIDE DEF q
    <2> QED BY <1>2, <1>3, <1>5, <1>6 DEF GoodPipes
  <1>8. GoodPipes(pipe)
    BY DEF IInv
  <1> QED BY <1>7, <1>8 DEF Transmit, s

(* A pipe that keeps a part of what it carried stays good. *)
LEMMA ShorterGood ==
  ASSUME IInv, NEW q, q \in [Socket -> [Peer -> Seq(Message)]], NEW g, GoodPipes(g),
         \A t \in Socket, r \in Peer : \A i \in 1 .. Len(q[t][r]) :
             \E j \in 1 .. Len(g[t][r]) : q[t][r][i] = g[t][r][j]
  PROVE  GoodPipes(q)
  <1> SUFFICES ASSUME NEW t \in Socket, NEW r \in Peer
               PROVE  AllGood(ep[r], q[t][r])
    BY DEF GoodPipes
  <1>1. q[t][r] \in Seq(Message) /\ AllGood(ep[r], g[t][r])
    BY DEF GoodPipes
  <1> QED BY <1>1 DEF AllGood

(* An end that changed as Effect allows keeps every old message good. *)
LEMMA EffectGood ==
  ASSUME IInv, NEW p \in Peer, NEW f, Effect(p, f), NEW m, GoodMessage(ep[p], m)
  PROVE  GoodMessage(f, m)
  <1> DEFINE e == ep[p]
  <1>1. EndInv(e) /\ EndInv(f)
    BY DEF IInv, Effect
  <1>2. /\ e \in Endpoint /\ f \in Endpoint /\ Len(e.sent) = e.outgoingMsgId
    BY <1>1 DEF EndInv
  <1>3. m.ack \in Nat /\ m \in Message
    BY DEF GoodMessage, Message
  <1> HIDE DEF e
  <1>4. CASE SameCore(e, f)
    BY <1>4 DEF SameCore, GoodMessage, e
  <1>5. CASE Sends(e, f)
    <2>1. PICK d \in Payload : f.sent = Append(e.sent, d)
      BY <1>5 DEF Sends
    <2>2. \A i \in 1 .. e.outgoingMsgId : f.sent[i] = e.sent[i]
      <3>1. e.sent \in Seq(Payload) /\ Len(e.sent) = e.outgoingMsgId
        BY <1>2 DEF Endpoint
      <3> QED BY <2>1, <3>1, AppendProperties
    <2>3. /\ e.outgoingMsgId \in Nat /\ f.outgoingMsgId = e.outgoingMsgId + 1
          /\ f.incomingMsgId = e.incomingMsgId
      BY <1>2, <1>5 DEF Sends, Endpoint
    <2>4. GoodMessage(e, m)
      BY DEF e
    <2> QED BY <2>2, <2>3, <2>4 DEF GoodMessage
  <1>6. CASE \E k : GoodMessage(ep[Other(p)], k) /\ Receives(e, f, k)
    <2>1. f.sent = e.sent /\ f.outgoingMsgId = e.outgoingMsgId
          /\ e.incomingMsgId <= f.incomingMsgId
      BY SMTT(20), <1>2, <1>6 DEF Receives, Delivered, Endpoint
    <2>2. e.incomingMsgId \in Nat /\ f.incomingMsgId \in Nat
      BY <1>2 DEF Endpoint
    <2>3. GoodMessage(e, m)
      BY DEF e
    <2> QED BY <1>3, <2>1, <2>2, <2>3 DEF GoodMessage
  <1>7. \/ SameCore(e, f)
        \/ Sends(e, f)
        \/ \E k : GoodMessage(ep[Other(p)], k) /\ Receives(e, f, k)
    BY DEF Effect, e
  <1> QED BY <1>4, <1>5, <1>6, <1>7

(* A step of one end with an effect of that kind keeps the invariant.      *)
LEMMA EffectInv ==
  ASSUME IInv, NEW p \in Peer, NEW f, Effect(p, f), ep' = [ep EXCEPT ![p] = f],
         GoodPipes(pipe'), closed' \subseteq Socket, bound' \in [Peer -> SUBSET Socket]
  PROVE  IInv'
  <1> DEFINE e == ep[p]
             o == Other(p)
             g == ep[o]
  <1>1. /\ o \in Peer /\ o # p /\ Other(o) = p /\ Peer = {p, o}
    BY PeerFacts
  <1>2. /\ ep \in [Peer -> Endpoint] /\ EndInv(e) /\ EndInv(g) /\ EndInv(f)
        /\ Paired(e, g) /\ Paired(g, e)
    BY <1>1 DEF IInv, Effect
  <1>3. /\ e \in Endpoint /\ g \in Endpoint /\ f \in Endpoint
        /\ Len(e.sent) = e.outgoingMsgId /\ Len(e.delivered) = e.incomingMsgId
    BY <1>2 DEF EndInv
  <1>4. ep' \in [Peer -> Endpoint] /\ ep'[p] = f /\ ep'[o] = g
    BY <1>1, <1>2, <1>3
  <1> HIDE DEF e, o, g
  <1>5. Paired(f, g) /\ Paired(g, f)
    <2>1. CASE SameCore(e, f)
      BY <1>2, <2>1 DEF SameCore, Paired
    <2>2. CASE Sends(e, f)
      <3>1. PICK d \in Payload : f.sent = Append(e.sent, d)
        BY <2>2 DEF Sends
      <3>2. e.sent \in Seq(Payload) /\ e.outgoingMsgId \in Nat /\ g.incomingMsgId \in Nat
        BY <1>3 DEF Endpoint
      <3>3. \A i \in 1 .. e.outgoingMsgId : f.sent[i] = e.sent[i]
        BY <1>3, <3>1, <3>2, AppendProperties
      <3>4. Paired(f, g)
        <4>1. /\ f.outgoingAckId = e.outgoingAckId
              /\ f.outgoingMsgId = e.outgoingMsgId + 1
          BY <2>2 DEF Sends
        <4>2. /\ e.outgoingAckId <= g.incomingMsgId
              /\ g.incomingMsgId <= e.outgoingMsgId
              /\ \A i \in 1 .. g.incomingMsgId : g.delivered[i] = e.sent[i]
          BY <1>2 DEF Paired
        <4>3. \A i \in 1 .. g.incomingMsgId : g.delivered[i] = f.sent[i]
          <5> TAKE i \in 1 .. g.incomingMsgId
          <5>1. i \in 1 .. e.outgoingMsgId
            BY <3>2, <4>2
          <5> QED BY <3>3, <4>2, <5>1
        <4>4. g.incomingMsgId <= f.outgoingMsgId
          BY <3>2, <4>1, <4>2
        <4> QED BY <4>1, <4>2, <4>3, <4>4 DEF Paired
      <3>5. Paired(g, f)
        BY <1>2, <2>2 DEF Sends, Paired
      <3> QED BY <3>4, <3>5
    <2>3. ASSUME NEW m, GoodMessage(g, m), Receives(e, f, m)
          PROVE  Paired(f, g) /\ Paired(g, f)
      <3>1. Paired(f, g)
        BY <1>2, <2>3 DEF Paired, GoodMessage, Receives, Acked
      <3>2. Paired(g, f)
        <4>1. CASE f.delivered = e.delivered /\ f.incomingMsgId = e.incomingMsgId
          BY <1>2, <4>1 DEF Paired
        <4>2. CASE /\ m.type = "Regular" /\ m.id = e.incomingMsgId + 1
                   /\ f.incomingMsgId = m.id
                   /\ f.delivered = Append(e.delivered, m.data)
          <5>1. /\ e.incomingMsgId \in Nat /\ g.outgoingAckId \in Nat
                /\ g.outgoingMsgId \in Nat /\ g.sent \in Seq(Payload)
                /\ e.delivered \in Seq(Payload) /\ Len(g.sent) = g.outgoingMsgId
            BY <1>2, <1>3 DEF Endpoint, EndInv
          <5>2. m.id \in 1 .. g.outgoingMsgId /\ m.data = g.sent[m.id]
            BY <2>3, <4>2 DEF GoodMessage
          <5>3. m.data \in Payload
            BY <5>1, <5>2
          <5>4. /\ f.delivered[e.incomingMsgId + 1] = m.data
                /\ \A i \in 1 .. e.incomingMsgId : f.delivered[i] = e.delivered[i]
            BY <1>3, <4>2, <5>1, <5>3, AppendProperties
          <5>5. \A i \in 1 .. f.incomingMsgId : f.delivered[i] = g.sent[i]
            <6> TAKE i \in 1 .. f.incomingMsgId
            <6>1. CASE i = m.id
              BY <4>2, <5>2, <5>4, <6>1
            <6>2. CASE i # m.id
              <7>1. i \in 1 .. e.incomingMsgId
                BY <4>2, <5>1, <6>2
              <7> QED BY <1>2, <5>4, <7>1 DEF Paired
            <6> QED BY <6>1, <6>2
          <5>6. g.outgoingAckId <= e.incomingMsgId
            BY <1>2 DEF Paired
          <5>7. g.outgoingAckId <= f.incomingMsgId /\ f.incomingMsgId <= g.outgoingMsgId
            BY <4>2, <5>1, <5>2, <5>6
          <5> QED BY <5>5, <5>7 DEF Paired
        <4> QED BY <2>3, <4>1, <4>2 DEF Receives, Delivered
      <3> QED BY <3>1, <3>2
    <2> QED BY <2>1, <2>2, <2>3 DEF Effect, e, g, o
  <1>6. GoodPipes(pipe)'
    <2> SUFFICES ASSUME NEW s \in Socket, NEW r \in Peer
                 PROVE  AllGood(ep'[r], pipe'[s][r])
      BY DEF GoodPipes
    <2>1. AllGood(ep[r], pipe'[s][r])
      BY DEF GoodPipes
    <2>2. CASE r = o
      BY <1>4, <2>1, <2>2 DEF g
    <2>3. CASE r = p
      <3>1. \A m : GoodMessage(ep[p], m) => GoodMessage(f, m)
        BY EffectGood
      <3> QED BY <1>4, <2>1, <2>3, <3>1 DEF AllGood
    <2> QED BY <1>1, <2>2, <2>3
  <1>7. \A r \in Peer : EndInv(ep'[r])
    BY <1>1, <1>2, <1>4
  <1>8. \A r \in Peer : Paired(ep'[r], ep'[Other(r)])
    BY <1>1, <1>4, <1>5 DEF o
  <1> QED BY <1>4, <1>6, <1>7, <1>8 DEF IInv

-----------------------------------------------------------------------------
(* One lemma for each kind of step of an end. *)

(* What every step of end p turns out to do.                               *)
Stepped(p) ==
    /\ \E f : Effect(p, f) /\ ep' = [ep EXCEPT ![p] = f]
    /\ GoodPipes(pipe')
    /\ closed' \subseteq Socket
    /\ bound' \in [Peer -> SUBSET Socket]

(* Steps that leave the sockets alone. *)
LEMMA EndOnly ==
  ASSUME IInv, NEW p \in Peer, NEW f, Effect(p, f), Update(p, f),
         UNCHANGED <<pipe, closed, bound>>
  PROVE  Stepped(p)
  BY DEF IInv, Stepped, Update, GoodPipes

LEMMA SendStep ==
  ASSUME IInv, NEW p \in Peer, Send(p)
  PROVE  Stepped(p)
  <1>1. EndInv(ep[p])
    BY DEF IInv
  <1>2. PICK d \in Payload, overdue \in BOOLEAN : Update(p, SendRegular(ep[p], d, overdue))
    BY DEF Send
  <1>3. Effect(p, SendRegular(ep[p], d, overdue))
    BY <1>1, SendRegularInv DEF Effect
  <1> QED BY <1>2, <1>3, EndOnly DEF Send

LEMMA PlainStep ==
  ASSUME IInv, NEW p \in Peer,
         SendControl(p) \/ SendPause(p) \/ SendResume(p)
  PROVE  Stepped(p)
  <1>1. PICK type \in {"Control", "Pause", "Resume"} :
          Update(p, Write(ep[p], Plain(type))) /\ UNCHANGED <<pipe, closed, bound>>
    BY DEF SendControl, SendPause, SendResume
  <1>2. EndInv(ep[p]) /\ type \in MessageType \ {"Regular"}
    BY DEF IInv, MessageType
  <1>3. Effect(p, Write(ep[p], Plain(type)))
    BY <1>2, PlainGood, WriteAllInv DEF Effect, Write
  <1> QED BY <1>1, <1>3, EndOnly

LEMMA FlagStep ==
  ASSUME IInv, NEW p \in Peer,
         PauseSocketWriting(p) \/ ReplayWindowElapses(p) \/ AcceptDisconnect(p)
  PROVE  Stepped(p)
  <1>1. PICK f \in {Pause(ep[p]), [ep[p] EXCEPT !.replayRequested = FALSE],
                    [ep[p] EXCEPT !.didDispose = TRUE]} :
          Update(p, f) /\ UNCHANGED <<pipe, closed, bound>>
    BY DEF PauseSocketWriting, ReplayWindowElapses, AcceptDisconnect
  <1>2. EndInv(ep[p])
    BY DEF IInv
  <1>3. Effect(p, f)
    BY <1>2, FlagsInv DEF Effect
  <1> QED BY <1>1, <1>3, EndOnly

LEMMA TimerStep ==
  ASSUME IInv, NEW p \in Peer,
         IncomingAckTimer(p) \/ OutgoingAckTimer(p) \/ EndAcceptReconnection(p)
  PROVE  Stepped(p)
  <1> DEFINE e == ep[p]
             g == [e EXCEPT !.incomingAckTimeout = FALSE]
             h == [e EXCEPT !.outgoingAckTimeout = FALSE]
  <1>1. EndInv(e)
    BY DEF IInv
  <1>2. EndInv(g) /\ SameCore(e, g) /\ EndInv(h) /\ SameCore(e, h)
    BY <1>1, FlagsInv
  <1>3. CASE IncomingAckTimer(p)
    <2>1. EndInv(SendAck(g)) /\ SameCore(g, SendAck(g))
      BY <1>2, SendAckInv
    <2>2. Effect(p, SendAck(g))
      BY <1>2, <2>1 DEF Effect, SameCore
    <2> QED BY <1>3, <2>2, EndOnly DEF IncomingAckTimer
  <1>4. CASE OutgoingAckTimer(p)
    <2>1. PICK overdue \in BOOLEAN : Update(p, RecvAckCheck(h, overdue))
      BY <1>4 DEF OutgoingAckTimer
    <2>2. EndInv(RecvAckCheck(h, overdue)) /\ SameCore(h, RecvAckCheck(h, overdue))
      BY <1>2, RecvAckCheckInv
    <2>3. Effect(p, RecvAckCheck(h, overdue))
      BY <1>2, <2>2 DEF Effect, SameCore
    <2> QED BY <1>4, <2>1, <2>3, EndOnly DEF OutgoingAckTimer
  <1>5. CASE EndAcceptReconnection(p)
    <2>1. PICK overdue \in BOOLEAN : Update(p, EndReconnection(e, overdue))
      BY <1>5 DEF EndAcceptReconnection
    <2>2. Effect(p, EndReconnection(e, overdue))
      BY <1>1, EndReconnectionInv DEF Effect
    <2> QED BY <1>5, <2>1, <2>2, EndOnly DEF EndAcceptReconnection
  <1> QED BY <1>3, <1>4, <1>5

LEMMA FlushStep ==
  ASSUME IInv, NEW p \in Peer,
         WriteNow(p) \/ SendDisconnect(p) \/ Dispose(p)
  PROVE  Stepped(p)
  <1> DEFINE e == ep[p]
             w == Write(e, Plain("Disconnect"))
  <1>1. EndInv(e) /\ EndInv(Flushed(e)) /\ SameCore(e, Flushed(e)) /\ AllGood(e, Flushable(e))
    BY FlushedInv DEF IInv
  <1>2. closed \subseteq Socket /\ bound \in [Peer -> SUBSET Socket]
    BY DEF IInv
  <1>3. CASE WriteNow(p)
    <2> DEFINE f == [Flushed(e) EXCEPT !.writeNowTimeout = FALSE]
    <2>1. EndInv(f) /\ SameCore(Flushed(e), f)
      BY <1>1, FlagsInv
    <2>2. Effect(p, f)
      BY <1>1, <2>1 DEF Effect, SameCore
    <2>3. GoodPipes(Transmit(p, Flushable(e)))
      BY <1>1, TransmitGood
    <2> QED BY <1>2, <1>3, <2>2, <2>3 DEF WriteNow, Update, Stepped
  <1>4. CASE SendDisconnect(p)
    <2>1. EndInv(w) /\ SameCore(e, w)
      <3>1. "Disconnect" \in MessageType \ {"Regular"}
        BY DEF MessageType
      <3> QED BY <1>1, <3>1, PlainGood, WriteAllInv DEF Write
    <2> HIDE DEF w
    <2>2. EndInv(Flushed(w)) /\ SameCore(w, Flushed(w)) /\ AllGood(w, Flushable(w))
      BY <2>1, FlushedInv
    <2>3. Effect(p, Flushed(w))
      BY <2>1, <2>2 DEF Effect, SameCore
    <2>4. AllGood(e, Flushable(w))
      BY <2>1, <2>2 DEF AllGood, GoodMessage, SameCore
    <2>5. GoodPipes(Transmit(p, Flushable(w)))
      BY <2>4, TransmitGood
    <2>6. ep' = [ep EXCEPT ![p] = Flushed(w)] /\ pipe' = Transmit(p, Flushable(w))
          /\ UNCHANGED <<closed, bound>>
      BY <1>4 DEF SendDisconnect, Update, w
    <2> QED BY <1>2, <2>3, <2>5, <2>6 DEF Stepped
  <1>5. CASE Dispose(p)
    <2>1. EndInv(DisposeEndpoint(e)) /\ SameCore(Flushed(e), DisposeEndpoint(e))
      BY <1>1, FlagsInv DEF DisposeEndpoint
    <2>2. Effect(p, DisposeEndpoint(e))
      BY <1>1, <2>1 DEF Effect, SameCore
    <2>3. GoodPipes(Transmit(p, Flushable(e)))
      BY <1>1, TransmitGood
    <2> QED BY <1>2, <1>5, <2>2, <2>3 DEF Dispose, Update, Stepped
  <1> QED BY <1>3, <1>4, <1>5

(* A message about to be read acknowledges nothing its reader has not sent,*)
(* and carries a payload if it is a Regular one.                           *)
LEMMA ArrivingMessage ==
  ASSUME IInv, NEW p \in Peer, NEW m,
         pipe[ep[p].socket][Other(p)] # <<>>, m = Head(pipe[ep[p].socket][Other(p)])
  PROVE  /\ GoodMessage(ep[Other(p)], m)
         /\ m \in Message /\ m.ack <= ep[p].outgoingMsgId
         /\ m.type = "Regular" => m.data \in Payload
  <1> DEFINE e == ep[p]
             o == Other(p)
             s == e.socket
             incoming == pipe[s][o]
  <1>1. o \in Peer /\ EndInv(e) /\ EndInv(ep[o]) /\ Paired(e, ep[o]) /\ s \in Socket
    BY PeerFacts DEF IInv, Endpoint
  <1>2. AllGood(ep[o], incoming) /\ incoming # <<>>
    BY <1>1 DEF IInv, GoodPipes
  <1>3. incoming \in Seq(Message) /\ m = Head(incoming)
    BY <1>2 DEF AllGood
  <1> HIDE DEF e, o, s, incoming
  <1>4. GoodMessage(ep[o], m)
    <2>1. Len(incoming) \in Nat /\ Len(incoming) > 0 /\ m = incoming[1]
      BY <1>2, <1>3
    <2> QED BY <1>2, <2>1 DEF AllGood
  <1>5. m \in Message /\ m.ack \in Nat /\ m.ack <= ep[o].incomingMsgId
    BY <1>4 DEF GoodMessage, Message
  <1>6. /\ ep[o].incomingMsgId \in Nat /\ e.outgoingMsgId \in Nat
        /\ ep[o].outgoingMsgId \in Nat
        /\ ep[o].sent \in Seq(Payload) /\ Len(ep[o].sent) = ep[o].outgoingMsgId
        /\ ep[o].incomingMsgId <= e.outgoingMsgId
    BY <1>1 DEF EndInv, Endpoint, Paired
  <1>7. ASSUME m.type = "Regular"
        PROVE  m.data \in Payload
    <2>1. m.id \in 1 .. Len(ep[o].sent) /\ m.data = ep[o].sent[m.id]
      BY <1>4, <1>6, <1>7 DEF GoodMessage
    <2>2. \A i \in 1 .. Len(ep[o].sent) : ep[o].sent[i] \in Payload
      BY <1>6
    <2> QED BY <2>1, <2>2
  <1>8. m.ack <= e.outgoingMsgId
    BY <1>5, <1>6
  <1> QED BY <1>4, <1>5, <1>7, <1>8 DEF e, o

LEMMA ReceiveStep ==
  ASSUME IInv, NEW p \in Peer, Receive(p)
  PROVE  Stepped(p)
  <1> DEFINE e == ep[p]
             o == Other(p)
             s == e.socket
             incoming == pipe[s][o]
             m == Head(incoming)
             q == [pipe EXCEPT ![s][o] = Tail(incoming)]
  <1>1. o \in Peer /\ EndInv(e) /\ EndInv(ep[o]) /\ Paired(e, ep[o]) /\ s \in Socket
    BY PeerFacts DEF IInv, Endpoint
  <1>2. AllGood(ep[o], incoming) /\ incoming # <<>>
    BY <1>1 DEF IInv, GoodPipes, Receive
  <1>3. incoming \in Seq(Message)
    BY <1>2 DEF AllGood
  <1>4. /\ pipe \in [Socket -> [Peer -> Seq(Message)]]
        /\ closed \subseteq Socket /\ bound \in [Peer -> SUBSET Socket] /\ GoodPipes(pipe)
    BY DEF IInv, GoodPipes
  <1>5. PICK overdue \in BOOLEAN : ep' = [ep EXCEPT ![p] = ReceiveMessage(e, m, overdue)]
    BY DEF Receive, Update
  <1>6. pipe' = q /\ UNCHANGED <<closed, bound>>
    BY DEF Receive
  <1> HIDE DEF e, o, s, incoming
  <1>7. /\ GoodMessage(ep[o], m) /\ m \in Message /\ m.ack <= e.outgoingMsgId
        /\ m.type = "Regular" => m.data \in Payload
    BY <1>2, ArrivingMessage DEF e, o, s, incoming, m
  <1> HIDE DEF m
  <1>9. Effect(p, ReceiveMessage(e, m, overdue))
    BY <1>1, <1>7, ReceiveMessageInv DEF Effect, e, o
  <1>10. GoodPipes(q)
    <2>1. /\ Tail(incoming) \in Seq(Message)
          /\ \A i \in 1 .. Len(Tail(incoming)) :
                i + 1 \in 1 .. Len(incoming) /\ Tail(incoming)[i] = incoming[i + 1]
      BY <1>2, <1>3, HeadTailProperties
    <2>2. q \in [Socket -> [Peer -> Seq(Message)]]
      BY <1>1, <1>4, <2>1
    <2>3. \A t \in Socket, r \in Peer :
             q[t][r] = IF t = s /\ r = o THEN Tail(incoming) ELSE pipe[t][r]
      BY <1>1, <1>4
    <2> HIDE DEF q
    <2>4. \A t \in Socket, r \in Peer : \A i \in 1 .. Len(q[t][r]) :
             \E j \in 1 .. Len(pipe[t][r]) : q[t][r][i] = pipe[t][r][j]
      <3> SUFFICES ASSUME NEW t \in Socket, NEW r \in Peer, NEW i \in 1 .. Len(q[t][r])
                   PROVE  \E j \in 1 .. Len(pipe[t][r]) : q[t][r][i] = pipe[t][r][j]
        OBVIOUS
      <3>1. CASE t = s /\ r = o
        BY ZenonT(30), <2>1, <2>3, <3>1 DEF incoming
      <3>2. CASE ~(t = s /\ r = o)
        BY <2>3, <3>2
      <3> QED BY <3>1, <3>2
    <2> QED BY <1>4, <2>2, <2>4, ShorterGood
  <1> QED BY <1>4, <1>5, <1>6, <1>9, <1>10 DEF Stepped

LEMMA BeginStep ==
  ASSUME IInv, NEW p \in Peer, NEW s \in Socket, BeginAcceptReconnection(p, s)
  PROVE  Stepped(p)
  <1> DEFINE e == ep[p]
             o == Other(p)
             old == e.socket
             ms == IF e.disposed THEN <<>> ELSE Flushable(e)
             g == Transmit(p, ms)
             outgoing == g[old][p]
  <1>1. /\ o \in Peer /\ o # p /\ Peer = {p, o} /\ EndInv(e) /\ old \in Socket
        /\ closed \subseteq Socket /\ bound \in [Peer -> SUBSET Socket]
        /\ pipe \in [Socket -> [Peer -> Seq(Message)]]
    BY PeerFacts DEF IInv, Endpoint, GoodPipes
  <1>2. AllGood(e, ms)
    <2>1. AllGood(e, <<>>)
      BY DEF AllGood
    <2> QED BY <1>1, <2>1, FlushedInv
  <1>3. GoodPipes(g)
    BY <1>2, TransmitGood
  <1>4. /\ ep' = [ep EXCEPT ![p] = Rebind(e, s)]
        /\ closed' = closed \cup {old} /\ bound' = [bound EXCEPT ![p] = @ \cup {s}]
    BY DEF BeginAcceptReconnection, Update
  <1>5. PICK n \in 0 .. Len(outgoing) :
          pipe' = [pipe EXCEPT ![old][p] = SubSeq(outgoing, 1, n), ![old][o] = <<>>]
    BY DEF BeginAcceptReconnection
  <1> HIDE DEF e, o, old, ms
  <1>6. g \in [Socket -> [Peer -> Seq(Message)]] /\ outgoing \in Seq(Message)
    BY <1>1, <1>3 DEF GoodPipes
  <1>7. \A t \in Socket, r \in Peer : t # old => g[t][r] = pipe[t][r]
    BY <1>1 DEF Transmit, old, e
  <1> HIDE DEF g, outgoing
  <1>8. LET k == SubSeq(outgoing, 1, n)
        IN  /\ k \in Seq(Message)
            /\ \A i \in 1 .. Len(k) : i \in 1 .. Len(outgoing) /\ k[i] = outgoing[i]
    BY <1>6, PrefixProperties
  <1>9. <<>> \in Seq(Message) /\ Len(<<>>) = 0
    OBVIOUS
  <1>10. pipe' \in [Socket -> [Peer -> Seq(Message)]]
    BY <1>1, <1>5, <1>8, <1>9
  <1>11. \A t \in Socket, r \in Peer :
            pipe'[t][r] = IF t = old
                          THEN IF r = p THEN SubSeq(outgoing, 1, n) ELSE <<>>
                          ELSE pipe[t][r]
    BY <1>1, <1>5
  <1>12. GoodPipes(pipe')
    <2> SUFFICES ASSUME NEW t \in Socket, NEW r \in Peer,
                        NEW i \in 1 .. Len(pipe'[t][r])
                 PROVE  \E j \in 1 .. Len(g[t][r]) : pipe'[t][r][i] = g[t][r][j]
      BY <1>3, <1>10, ShorterGood
    <2>1. CASE t # old
      BY <1>7, <1>11, <2>1
    <2>2. CASE t = old /\ r = p
      BY <1>8, <1>11, <2>2 DEF outgoing
    <2>3. CASE t = old /\ r # p
      BY <1>9, <1>11, <2>3
    <2> QED BY <2>1, <2>2, <2>3
  <1>13. Effect(p, Rebind(e, s))
    BY <1>1, RebindInv DEF Effect, e
  <1>14. closed' \subseteq Socket /\ bound' \in [Peer -> SUBSET Socket]
    BY <1>1, <1>4
  <1> QED BY <1>4, <1>12, <1>13, <1>14 DEF Stepped, e

(* All steps of an end together.                                           *)
LEMMA PeerStepStepped ==
  ASSUME IInv, NEW p \in Peer, PeerStep(p)
  PROVE  Stepped(p)
  <1>1. CASE Send(p)
    BY <1>1, SendStep
  <1>2. CASE SendControl(p) \/ SendPause(p) \/ SendResume(p)
    BY <1>2, PlainStep
  <1>3. CASE PauseSocketWriting(p) \/ ReplayWindowElapses(p) \/ AcceptDisconnect(p)
    BY <1>3, FlagStep
  <1>4. CASE WriteNow(p) \/ SendDisconnect(p) \/ Dispose(p)
    BY <1>4, FlushStep
  <1>5. CASE Receive(p)
    BY <1>5, ReceiveStep
  <1>6. CASE IncomingAckTimer(p) \/ OutgoingAckTimer(p) \/ EndAcceptReconnection(p)
    BY <1>6, TimerStep
  <1>7. CASE \E s \in Socket : BeginAcceptReconnection(p, s)
    BY <1>7, BeginStep
  <1> QED BY <1>1, <1>2, <1>3, <1>4, <1>5, <1>6, <1>7 DEF PeerStep

(* The network only shortens what sockets carry.                           *)
LEMMA NetworkStepInv ==
  ASSUME IInv, NetworkStep
  PROVE  IInv' /\ ep' = ep
  <1>1. PICK s \in Socket : CloseSocket(s) \/ \E p \in Peer : TakeAway(s, p)
    BY DEF NetworkStep
  <1>2. ep' = ep /\ bound' = bound /\ closed' \subseteq Socket
    BY <1>1 DEF CloseSocket, TakeAway, IInv
  <1>3. /\ pipe \in [Socket -> [Peer -> Seq(Message)]] /\ GoodPipes(pipe)
    BY DEF IInv, GoodPipes
  <1>4. GoodPipes(pipe')
    <2>1. CASE CloseSocket(s)
      <3> DEFINE c == pipe[s]["client"]
                 d == pipe[s]["server"]
      <3>1. PICK n \in 0 .. Len(c), k \in 0 .. Len(d) :
               pipe' = [pipe EXCEPT ![s]["client"] = SubSeq(c, 1, n),
                                    ![s]["server"] = SubSeq(d, 1, k)]
        BY <2>1 DEF CloseSocket
      <3>2. c \in Seq(Message) /\ d \in Seq(Message) /\ Peer = {"client", "server"}
        BY <1>3 DEF Peer
      <3> HIDE DEF c, d
      <3>3. /\ SubSeq(c, 1, n) \in Seq(Message)
            /\ \A i \in 1 .. Len(SubSeq(c, 1, n)) :
                  i \in 1 .. Len(c) /\ SubSeq(c, 1, n)[i] = c[i]
        BY <3>2, PrefixProperties
      <3>4. /\ SubSeq(d, 1, k) \in Seq(Message)
            /\ \A i \in 1 .. Len(SubSeq(d, 1, k)) :
                  i \in 1 .. Len(d) /\ SubSeq(d, 1, k)[i] = d[i]
        BY <3>2, PrefixProperties
      <3>5. pipe' \in [Socket -> [Peer -> Seq(Message)]]
        BY <1>3, <3>1, <3>2, <3>3, <3>4
      <3>6. \A t \in Socket, r \in Peer :
               pipe'[t][r] = IF t # s THEN pipe[t][r]
                             ELSE IF r = "client" THEN SubSeq(c, 1, n) ELSE SubSeq(d, 1, k)
        BY <1>3, <3>1, <3>2
      <3>7. \A t \in Socket, r \in Peer : \A i \in 1 .. Len(pipe'[t][r]) :
               \E j \in 1 .. Len(pipe[t][r]) : pipe'[t][r][i] = pipe[t][r][j]
        <4> SUFFICES ASSUME NEW t \in Socket, NEW r \in Peer,
                            NEW i \in 1 .. Len(pipe'[t][r])
                     PROVE  \E j \in 1 .. Len(pipe[t][r]) : pipe'[t][r][i] = pipe[t][r][j]
          OBVIOUS
        <4>1. CASE t # s
          BY <3>6, <4>1
        <4>2. CASE t = s /\ r = "client"
          BY <3>3, <3>6, <4>2 DEF c
        <4>3. CASE t = s /\ r = "server"
          BY <3>4, <3>6, <4>3 DEF d
        <4> QED BY <3>2, <4>1, <4>2, <4>3
      <3> QED BY <1>3, <3>5, <3>7, ShorterGood
    <2>2. CASE \E p \in Peer : TakeAway(s, p)
      <3>1. PICK p \in Peer : pipe[s][p] # <<>> /\ pipe' = [pipe EXCEPT ![s][p] = Tail(@)]
        BY <2>2 DEF TakeAway
      <3>2. /\ Tail(pipe[s][p]) \in Seq(Message)
            /\ \A i \in 1 .. Len(Tail(pipe[s][p])) :
                  /\ i + 1 \in 1 .. Len(pipe[s][p])
                  /\ Tail(pipe[s][p])[i] = pipe[s][p][i + 1]
        BY <1>3, <3>1, HeadTailProperties
      <3>3. pipe' \in [Socket -> [Peer -> Seq(Message)]]
        BY <1>3, <3>1, <3>2
      <3>4. \A t \in Socket, r \in Peer :
               pipe'[t][r] = IF t = s /\ r = p THEN Tail(pipe[s][p]) ELSE pipe[t][r]
        BY <1>3, <3>1
      <3>5. \A t \in Socket, r \in Peer : \A i \in 1 .. Len(pipe'[t][r]) :
               \E j \in 1 .. Len(pipe[t][r]) : pipe'[t][r][i] = pipe[t][r][j]
        <4> SUFFICES ASSUME NEW t \in Socket, NEW r \in Peer,
                            NEW i \in 1 .. Len(pipe'[t][r])
                     PROVE  \E j \in 1 .. Len(pipe[t][r]) : pipe'[t][r][i] = pipe[t][r][j]
          OBVIOUS
        <4>1. CASE t = s /\ r = p
          BY ZenonT(30), <3>2, <3>4, <4>1
        <4>2. CASE ~(t = s /\ r = p)
          BY <3>4, <4>2
        <4> QED BY <4>1, <4>2
      <3> QED BY <1>3, <3>3, <3>5, ShorterGood
    <2> QED BY <1>1, <2>1, <2>2
  <1> QED BY <1>2, <1>4 DEF IInv, GoodPipes

LEMMA NextInv == IInv /\ [Next]_vars => IInv'
  <1> SUFFICES ASSUME IInv, [Next]_vars PROVE IInv'
    OBVIOUS
  <1>1. ASSUME NEW p \in Peer, PeerStep(p) PROVE IInv'
    BY <1>1, PeerStepStepped, EffectInv DEF Stepped
  <1>2. CASE NetworkStep
    BY <1>2, NetworkStepInv
  <1>3. CASE UNCHANGED vars
    BY <1>3 DEF vars, IInv, GoodPipes
  <1> QED BY <1>1, <1>2, <1>3 DEF Next

(* IInv holds in every state of every instance.                            *)
THEOREM Invariance == Spec => []IInv
  <1> QED BY InitInv, NextInv, PTL DEF Spec

-----------------------------------------------------------------------------
(* The state of both ends, of the sockets and of what they carry always    *)
(* has its type (class PersistentProtocol and ProtocolWriter).             *)
THEOREM TypeCorrect == Spec => []TypeOK
  <1>1. IInv => TypeOK
    BY DEF IInv, GoodPipes, TypeOK
  <1> QED BY <1>1, Invariance, PTL

(* What _receiveMessage fires on onMessage is what the other end passed to *)
(* send(), in order and once, over any number of sockets, for any loss.    *)
THEOREM DeliversInOrderOnce == Spec => []InOrderOnce
  <1>1. IInv => InOrderOnce
    <2> SUFFICES ASSUME IInv, NEW p \in Peer
                 PROVE  LET q == Other(p)
                        IN  /\ Len(ep[q].delivered) <= Len(ep[p].sent)
                            /\ \A i \in 1 .. Len(ep[q].delivered) :
                                  ep[q].delivered[i] = ep[p].sent[i]
      BY DEF InOrderOnce
    <2>1. EndInv(ep[p]) /\ EndInv(ep[Other(p)]) /\ Paired(ep[p], ep[Other(p)])
      BY PeerFacts DEF IInv
    <2> QED BY <2>1 DEF EndInv, Paired
  <1> QED BY <1>1, Invariance, PTL

(* A message leaves outgoingUnackMsg only once it was delivered, and the   *)
(* queue holds exactly the messages whose ids exceed outgoingAckId.        *)
THEOREM ForgetsNothing == Spec => []NothingForgotten
  <1>1. IInv => NothingForgotten
    <2> SUFFICES ASSUME IInv, NEW p \in Peer
                 PROVE  LET e == ep[p]
                        IN  /\ e.outgoingAckId <= Len(ep[Other(p)].delivered)
                            /\ Len(e.outgoingUnackMsg) = e.outgoingMsgId - e.outgoingAckId
                            /\ \A i \in 1 .. Len(e.outgoingUnackMsg) :
                                  /\ e.outgoingUnackMsg[i].id = e.outgoingAckId + i
                                  /\ e.outgoingUnackMsg[i].data = e.sent[e.outgoingAckId + i]
      BY DEF NothingForgotten
    <2>1. EndInv(ep[p]) /\ EndInv(ep[Other(p)]) /\ Paired(ep[p], ep[Other(p)])
      BY PeerFacts DEF IInv
    <2>2. \A i \in 1 .. Len(ep[p].outgoingUnackMsg) :
             GoodMessage(ep[p], ep[p].outgoingUnackMsg[i])
      BY <2>1 DEF EndInv, AllGood
    <2> QED BY <2>1, <2>2 DEF EndInv, Paired, QueueExact, GoodMessage
  <1> QED BY <1>1, Invariance, PTL

-----------------------------------------------------------------------------
(* The mapping to the abstract channel. *)

(* Initial states map to initial states.                                   *)
LEMMA InitMapped == Init => Channel!Init
  BY DEF Init, Constructed, Channel!Init, Channel!Peer, Peer

(* A step of an end is a Send, an Arrive or a stutter of the channel.      *)
LEMMA StepMapped ==
  ASSUME IInv, NEW p \in Peer, PeerStep(p)
  PROVE  [Channel!Next]_(Channel!channel)
  <1> DEFINE S(x) == [r \in Peer |-> x[r].sent]
             D(x) == [r \in Peer |-> x[r].delivered]
             A(x) == [r \in Peer |-> x[r].outgoingAckId]
             e == ep[p]
             o == Other(p)
             g == ep[o]
  <1>1. PICK f : Effect(p, f) /\ ep' = [ep EXCEPT ![p] = f]
    BY PeerStepStepped DEF Stepped
  <1>2. /\ o \in Peer /\ o # p /\ Peer = {p, o} /\ EndInv(e) /\ EndInv(g)
        /\ Paired(g, e) /\ Paired(e, g) /\ ep \in [Peer -> Endpoint]
    BY PeerFacts DEF IInv
  <1>3. /\ e.outgoingAckId \in Nat /\ g.delivered \in Seq(Payload)
        /\ g.incomingMsgId \in Nat /\ g.outgoingMsgId \in Nat
        /\ Len(g.delivered) = g.incomingMsgId
        /\ e.delivered \in Seq(Payload) /\ Len(e.delivered) = e.incomingMsgId
        /\ Len(g.sent) = g.outgoingMsgId
    BY <1>2 DEF EndInv, Endpoint
  <1>4. /\ S(ep') = [S(ep) EXCEPT ![p] = f.sent]
        /\ D(ep') = [D(ep) EXCEPT ![p] = f.delivered]
        /\ A(ep') = [A(ep) EXCEPT ![p] = f.outgoingAckId]
    BY <1>1, <1>2
  <1>5. /\ S(ep)[p] = e.sent /\ D(ep)[p] = e.delivered /\ A(ep)[p] = e.outgoingAckId
        /\ S(ep)[o] = g.sent /\ D(ep)[o] = g.delivered
        /\ S(ep) = [S(ep) EXCEPT ![p] = e.sent]
        /\ D(ep) = [D(ep) EXCEPT ![p] = e.delivered]
        /\ A(ep) = [A(ep) EXCEPT ![p] = e.outgoingAckId]
    BY <1>2
  <1>6. Channel!Peer = Peer /\ Channel!Other(p) = o
    BY DEF Channel!Peer, Channel!Other, Peer, Other
  <1>7. CASE SameCore(e, f)
    <2>1. S(ep') = S(ep) /\ D(ep') = D(ep) /\ A(ep') = A(ep)
      BY <1>4, <1>5, <1>7 DEF SameCore
    <2> QED BY <2>1 DEF Channel!channel
  <1>8. CASE Sends(e, f)
    <2>1. PICK d \in Payload : f.sent = Append(e.sent, d)
      BY <1>8 DEF Sends
    <2>2. /\ S(ep') = [S(ep) EXCEPT ![p] = Append(@, d)]
          /\ D(ep') = D(ep) /\ A(ep') = A(ep)
      BY <1>4, <1>5, <1>8, <2>1 DEF Sends
    <2>3. Channel!Send(p)
      BY <2>2 DEF Channel!Send
    <2> QED BY <1>6, <2>3 DEF Channel!Next
  <1>9. ASSUME NEW m, GoodMessage(g, m), Receives(e, f, m)
        PROVE  [Channel!Next]_(Channel!channel)
    <2>1. S(ep') = S(ep)
      BY <1>4, <1>5, <1>9 DEF Receives
    <2>2. Channel!Confirm(p) \/ A(ep') = A(ep)
      <3>1. CASE f.outgoingAckId = e.outgoingAckId
        BY <1>4, <1>5, <3>1
      <3>2. CASE e.outgoingAckId < m.ack /\ f.outgoingAckId = m.ack
        <4>1. m.ack \in e.outgoingAckId + 1 .. Len(g.delivered)
          BY <1>3, <1>9, <3>2 DEF GoodMessage, Message
        <4>2. m.ack \in A(ep)[p] + 1 .. Len(D(ep)[o]) /\ A(ep') = [A(ep) EXCEPT ![p] = m.ack]
          BY <1>4, <1>5, <3>2, <4>1
        <4> QED BY <1>6, <4>2 DEF Channel!Confirm
      <3> QED BY <1>9, <3>1, <3>2 DEF Receives, Acked
    <2>3. Channel!Deliver(p) \/ D(ep') = D(ep)
      <3>1. CASE f.delivered = e.delivered
        BY <1>4, <1>5, <3>1
      <3>2. CASE /\ m.type = "Regular" /\ m.id = e.incomingMsgId + 1
                 /\ f.delivered = Append(e.delivered, m.data)
        <4> DEFINE next == Len(D(ep)[p]) + 1
        <4>1. next = m.id
          BY <1>3, <1>5, <3>2
        <4>2. m.id <= g.outgoingMsgId /\ m.data = g.sent[m.id]
          BY <1>3, <1>9, <3>2 DEF GoodMessage
        <4>3. next <= Len(S(ep)[o]) /\ m.data = S(ep)[o][next]
          BY <1>3, <1>5, <4>1, <4>2
        <4>4. D(ep') = [D(ep) EXCEPT ![p] = Append(@, S(ep)[o][next])]
          BY <1>4, <1>5, <3>2, <4>3
        <4> QED BY <1>6, <4>3, <4>4 DEF Channel!Deliver
      <3> QED BY <1>9, <3>1, <3>2 DEF Receives, Delivered
    <2>4. Channel!Arrive(p)
      BY <2>1, <2>2, <2>3 DEF Channel!Arrive
    <2> QED BY <1>6, <2>4 DEF Channel!Next
  <1> QED BY <1>1, <1>7, <1>8, <1>9 DEF Effect

LEMMA NextMapped == IInv /\ [Next]_vars => [Channel!Next]_(Channel!channel)
  <1> SUFFICES ASSUME IInv, [Next]_vars PROVE [Channel!Next]_(Channel!channel)
    OBVIOUS
  <1>1. ASSUME ep' = ep PROVE [Channel!Next]_(Channel!channel)
    BY <1>1 DEF Channel!channel
  <1>2. CASE \E p \in Peer : PeerStep(p)
    BY <1>2, StepMapped
  <1>3. CASE NetworkStep
    BY <1>1, <1>3, NetworkStepInv
  <1>4. CASE UNCHANGED vars
    BY <1>1, <1>4 DEF vars
  <1> QED BY <1>2, <1>3, <1>4 DEF Next

(* The protocol implements the abstract channel (initial states, and every *)
(* step of an end or of the network).                                      *)
THEOREM Implementation == Spec => ImplementsChannel
  <1> QED BY InitMapped, NextMapped, Invariance, PTL DEF Spec, Channel!Spec, ImplementsChannel

-----------------------------------------------------------------------------
(* No gap. *)

(* A Regular message of ms has at least the id n.                          *)
Reaches(ms, n) ==
    \E i \in 1 .. Len(ms) : ms[i].type = "Regular" /\ ms[i].id >= n

(* The Regular messages of ms continue the ids up to b without a gap.      *)
Continues(b, ms) ==
    \A i \in 1 .. Len(ms) :
        ms[i].type = "Regular" =>
            \/ ms[i].id <= b + 1
            \/ \E j \in 1 .. i - 1 : ms[j].type = "Regular" /\ ms[j].id >= ms[i].id - 1

(* An end that writes what it is asked to send.                            *)
Writing(e) == ~e.isReconnecting /\ ~e.disposed

(* What e has on its socket (x) and in its writer continues the ids up to  *)
(* b, and is complete if e writes: the next message sent continues it too. *)
Flows(b, x, e) ==
    /\ Continues(b, x \o e.data)
    /\ Writing(e) => b >= e.outgoingMsgId \/ Reaches(x \o e.data, e.outgoingMsgId)

(* The inductive invariant of NoGap.  A closed socket carries a part that  *)
(* continues what the reader has, an open one all that its writer owes.    *)
GapFree ==
    \A p \in Peer :
        LET b == ep[Other(p)].incomingMsgId
            s == ep[p].socket
        IN  /\ \A t \in Socket : Continues(b, pipe[t][p])
            /\ s \notin closed => Flows(b, pipe[s][p], ep[p])

(* Element by element, a sequence that is joined from two.                 *)
LEMMA JoinedElements ==
  ASSUME NEW x \in Seq(Message), NEW y \in Seq(Message)
  PROVE  /\ x \o y \in Seq(Message)
         /\ Len(x) \in Nat /\ Len(y) \in Nat /\ Len(x \o y) = Len(x) + Len(y)
         /\ \A i \in 1 .. Len(x) : (x \o y)[i] = x[i]
         /\ \A i \in 1 .. Len(y) : (x \o y)[Len(x) + i] = y[i]
  OBVIOUS

LEMMA JoinedThrice ==
  ASSUME NEW x \in Seq(Message), NEW y \in Seq(Message), NEW z \in Seq(Message)
  PROVE  x \o (y \o z) = (x \o y) \o z
  BY SMTT(20), ConcatAssociative

LEMMA MessageIds ==
  ASSUME NEW x \in Seq(Message), NEW i \in 1 .. Len(x)
  PROVE  x[i] \in Message /\ x[i].id \in Nat
  <1>1. x[i] \in Message
    OBVIOUS
  <1> QED BY <1>1 DEF Message

(* What reaches an id still does when something is put before or after it. *)
LEMMA ReachesJoined ==
  ASSUME NEW x \in Seq(Message), NEW y \in Seq(Message), NEW n,
         Reaches(x, n) \/ Reaches(y, n)
  PROVE  Reaches(x \o y, n)
  <1>1. CASE Reaches(x, n)
    <2>1. PICK i \in 1 .. Len(x) : x[i].type = "Regular" /\ x[i].id >= n
      BY <1>1 DEF Reaches
    <2>2. i \in 1 .. Len(x \o y) /\ (x \o y)[i] = x[i]
      BY JoinedElements
    <2> QED BY <2>1, <2>2 DEF Reaches
  <1>2. CASE Reaches(y, n)
    <2>1. PICK i \in 1 .. Len(y) : y[i].type = "Regular" /\ y[i].id >= n
      BY <1>2 DEF Reaches
    <2>2. Len(x) + i \in 1 .. Len(x \o y) /\ (x \o y)[Len(x) + i] = y[i]
      BY JoinedElements
    <2> QED BY <2>1, <2>2 DEF Reaches
  <1> QED BY <1>1, <1>2

(* A reader that has more is continued by the same messages.               *)
LEMMA ContinuesGrown ==
  ASSUME NEW b \in Nat, NEW c \in Nat, b <= c, NEW ms \in Seq(Message), Continues(b, ms)
  PROVE  Continues(c, ms)
  <1> SUFFICES ASSUME NEW i \in 1 .. Len(ms), ms[i].type = "Regular"
               PROVE  \/ ms[i].id <= c + 1
                      \/ \E j \in 1 .. i - 1 :
                            ms[j].type = "Regular" /\ ms[j].id >= ms[i].id - 1
    BY DEF Continues
  <1>1. ms[i].id \in Nat
    BY MessageIds
  <1>2. \/ ms[i].id <= b + 1
        \/ \E j \in 1 .. i - 1 : ms[j].type = "Regular" /\ ms[j].id >= ms[i].id - 1
    BY DEF Continues
  <1>3. CASE ms[i].id <= b + 1
    BY <1>1, <1>3
  <1> QED BY <1>2, <1>3

LEMMA ContinuesPrefix ==
  ASSUME NEW b \in Nat, NEW ms \in Seq(Message), Continues(b, ms), NEW n \in 0 .. Len(ms)
  PROVE  Continues(b, SubSeq(ms, 1, n))
  <1> DEFINE r == SubSeq(ms, 1, n)
  <1>1. r \in Seq(Message) /\ Len(r) = n /\ \A i \in 1 .. n : i \in 1 .. Len(ms) /\ r[i] = ms[i]
    BY PrefixProperties
  <1> HIDE DEF r
  <1> SUFFICES ASSUME NEW i \in 1 .. n, r[i].type = "Regular"
               PROVE  \/ r[i].id <= b + 1
                      \/ \E j \in 1 .. i - 1 :
                            r[j].type = "Regular" /\ r[j].id >= r[i].id - 1
    BY <1>1 DEF Continues, r
  <1>2. i \in 1 .. Len(ms) /\ r[i] = ms[i]
    BY <1>1
  <1>3. \A j \in 1 .. i - 1 : j \in 1 .. n /\ r[j] = ms[j]
    BY <1>1
  <1> QED BY <1>2, <1>3 DEF Continues

(* What is joined from two parts, of which each continues what the reader  *)
(* has, or the second continues the first.                                 *)
LEMMA ContinuesJoined ==
  ASSUME NEW b \in Nat, NEW x \in Seq(Message), NEW y \in Seq(Message),
         Continues(b, x),
         \A i \in 1 .. Len(y) :
             y[i].type = "Regular" =>
                 \/ y[i].id <= b + 1
                 \/ Reaches(x, y[i].id - 1)
                 \/ \E j \in 1 .. i - 1 : y[j].type = "Regular" /\ y[j].id >= y[i].id - 1
  PROVE  Continues(b, x \o y)
  <1> DEFINE z == x \o y
  <1>1. /\ z \in Seq(Message)
        /\ Len(x) \in Nat /\ Len(y) \in Nat /\ Len(z) = Len(x) + Len(y)
        /\ \A i \in 1 .. Len(x) : z[i] = x[i]
        /\ \A i \in 1 .. Len(y) : z[Len(x) + i] = y[i]
    BY JoinedElements
  <1> HIDE DEF z
  <1> SUFFICES ASSUME NEW i \in 1 .. Len(z), z[i].type = "Regular"
               PROVE  \/ z[i].id <= b + 1
                      \/ \E j \in 1 .. i - 1 :
                            z[j].type = "Regular" /\ z[j].id >= z[i].id - 1
    BY DEF Continues, z
  <1>2. CASE i <= Len(x)
    <2>1. i \in 1 .. Len(x) /\ z[i] = x[i]
      BY <1>1, <1>2
    <2>2. \A j \in 1 .. i - 1 : j \in 1 .. Len(x) /\ z[j] = x[j]
      BY <1>1, <1>2
    <2> QED BY <2>1, <2>2 DEF Continues
  <1>3. CASE i > Len(x)
    <2> DEFINE k == i - Len(x)
    <2>1. k \in 1 .. Len(y) /\ i = Len(x) + k
      BY <1>1, <1>3
    <2> HIDE DEF k
    <2>2. z[i] = y[k]
      BY <1>1, <2>1
    <2>3. CASE y[k].id <= b + 1
      BY <2>2, <2>3
    <2>4. CASE Reaches(x, y[k].id - 1)
      <3>1. PICK j \in 1 .. Len(x) : x[j].type = "Regular" /\ x[j].id >= y[k].id - 1
        BY <2>4 DEF Reaches
      <3>2. j \in 1 .. i - 1 /\ z[j] = x[j]
        BY <1>1, <1>3
      <3> QED BY <2>2, <3>1, <3>2
    <2>5. CASE \E j \in 1 .. k - 1 : y[j].type = "Regular" /\ y[j].id >= y[k].id - 1
      <3>1. PICK j \in 1 .. k - 1 : y[j].type = "Regular" /\ y[j].id >= y[k].id - 1
        BY <2>5
      <3>2. j \in 1 .. Len(y) /\ Len(x) + j \in 1 .. i - 1
        BY <1>1, <2>1
      <3>3. z[Len(x) + j] = y[j]
        BY <1>1, <3>2
      <3> QED BY <2>2, <3>1, <3>2, <3>3
    <2> QED BY <2>1, <2>2, <2>3, <2>4, <2>5
  <1> QED BY <1>1, <1>2, <1>3

(* The first message of a socket is the next one or an old one, and when   *)
(* it is read the rest continues what the reader then has.                 *)
LEMMA ContinuesTail ==
  ASSUME NEW b \in Nat, NEW c \in Nat, b <= c, NEW ms \in Seq(Message), ms # <<>>,
         Continues(b, ms), Head(ms).type = "Regular" => Head(ms).id <= c
  PROVE  Continues(c, Tail(ms))
  <1> DEFINE r == Tail(ms)
  <1>1. /\ r \in Seq(Message) /\ Len(r) = Len(ms) - 1 /\ Len(ms) \in Nat
        /\ \A i \in 1 .. Len(r) : i + 1 \in 1 .. Len(ms) /\ r[i] = ms[i + 1]
        /\ Head(ms) = ms[1]
    BY HeadTailProperties
  <1> HIDE DEF r
  <1> SUFFICES ASSUME NEW i \in 1 .. Len(r), r[i].type = "Regular"
               PROVE  \/ r[i].id <= c + 1
                      \/ \E j \in 1 .. i - 1 :
                            r[j].type = "Regular" /\ r[j].id >= r[i].id - 1
    BY DEF Continues, r
  <1>2. i + 1 \in 1 .. Len(ms) /\ r[i] = ms[i + 1] /\ r[i].id \in Nat
    BY <1>1, MessageIds
  <1>3. CASE ms[i + 1].id <= b + 1
    BY <1>2, <1>3
  <1>4. CASE \E j \in 1 .. i : ms[j].type = "Regular" /\ ms[j].id >= ms[i + 1].id - 1
    <2>1. PICK j \in 1 .. i : ms[j].type = "Regular" /\ ms[j].id >= ms[i + 1].id - 1
      BY <1>4
    <2>2. CASE j = 1
      <3>1. ms[1].id <= c /\ ms[1].id >= r[i].id - 1
        BY <1>1, <1>2, <2>1, <2>2
      <3>2. 1 \in 1 .. Len(ms)
        BY <1>1, <1>2
      <3>3. ms[1].id \in Nat
        BY <3>2, MessageIds
      <3> QED BY <1>2, <3>1, <3>3
    <2>3. CASE j # 1
      <3> DEFINE k == j - 1
      <3>1. k \in 1 .. i - 1 /\ k \in 1 .. Len(r) /\ k + 1 = j
        BY <1>1, <2>3
      <3> HIDE DEF k
      <3>2. r[k] = ms[j]
        BY <1>1, <3>1
      <3> QED BY <1>2, <2>1, <3>1, <3>2
    <2> QED BY <2>2, <2>3
  <1>5. i + 1 - 1 = i
    OBVIOUS
  <1>6. \/ ms[i + 1].id <= b + 1
        \/ \E j \in 1 .. i + 1 - 1 : ms[j].type = "Regular" /\ ms[j].id >= ms[i + 1].id - 1
    BY <1>2 DEF Continues
  <1> QED BY <1>3, <1>4, <1>5, <1>6

LEMMA ReachesTail ==
  ASSUME NEW ms \in Seq(Message), ms # <<>>, NEW n, Reaches(ms, n)
  PROVE  Reaches(Tail(ms), n) \/ (Head(ms).type = "Regular" /\ Head(ms).id >= n)
  <1> DEFINE r == Tail(ms)
  <1>1. /\ Len(r) = Len(ms) - 1 /\ Len(ms) \in Nat
        /\ \A i \in 1 .. Len(r) : i + 1 \in 1 .. Len(ms) /\ r[i] = ms[i + 1]
        /\ Head(ms) = ms[1]
    BY HeadTailProperties
  <1>2. PICK i \in 1 .. Len(ms) : ms[i].type = "Regular" /\ ms[i].id >= n
    BY DEF Reaches
  <1> HIDE DEF r
  <1>3. CASE i = 1
    BY <1>1, <1>2, <1>3
  <1>4. CASE i # 1
    <2> DEFINE k == i - 1
    <2>1. k \in 1 .. Len(r) /\ k + 1 = i
      BY <1>1, <1>4
    <2> HIDE DEF k
    <2>2. r[k] = ms[i]
      BY <1>1, <2>1
    <2>3. Reaches(r, n)
      BY <1>2, <2>1, <2>2 DEF Reaches
    <2> QED BY <2>3 DEF r
  <1> QED BY <1>3, <1>4

-----------------------------------------------------------------------------
(* No gap: the operations of an end. *)

(* No operation of an end but beginAcceptReconnection changes its socket.  *)
LEMMA SocketKept ==
  ASSUME NEW e, "socket" \in DOMAIN e
  PROVE  /\ \A ms : /\ WriteAll(e, ms).socket = e.socket
                    /\ "socket" \in DOMAIN WriteAll(e, ms)
         /\ \A overdue : RecvAckCheck(e, overdue).socket = e.socket
         /\ SendAckCheck(e).socket = e.socket
         /\ \A ack : /\ AcceptAck(e, ack).socket = e.socket
                     /\ "socket" \in DOMAIN AcceptAck(e, ack)
         /\ Flushed(e).socket = e.socket /\ "socket" \in DOMAIN Flushed(e)
  BY DEF WriteAll, RecvAckCheck, SendAckCheck, AcceptAck, Flushed

LEMMA OperationSocketKept ==
  ASSUME NEW e, "socket" \in DOMAIN e
  PROVE  /\ SendAck(e).socket = e.socket
         /\ \A d, overdue : SendRegular(e, d, overdue).socket = e.socket
         /\ \A overdue : ReplayUnacknowledged(e, overdue).socket = e.socket
         /\ \A overdue : EndReconnection(e, overdue).socket = e.socket
         /\ \A m : AcceptRegular(e, m).socket = e.socket
  <1>1. SendAck(e).socket = e.socket
    <2> DEFINE g == [e EXCEPT !.incomingAckId = e.incomingMsgId]
    <2>1. g.socket = e.socket /\ "socket" \in DOMAIN g
      OBVIOUS
    <2>2. SendAck(e) = e \/ SendAck(e) = WriteAll(g, <<AckMessage(e.incomingMsgId)>>)
      BY DEF SendAck, Write
    <2> HIDE DEF g
    <2> QED BY <2>1, <2>2, SocketKept
  <1>2. ASSUME NEW d, NEW overdue
        PROVE  SendRegular(e, d, overdue).socket = e.socket
    <2> DEFINE id == e.outgoingMsgId + 1
               m == [type |-> "Regular", id |-> id, ack |-> e.incomingMsgId, data |-> d]
               g == [e EXCEPT !.outgoingMsgId = id, !.incomingAckId = e.incomingMsgId,
                              !.outgoingUnackMsg = Append(@, m), !.sent = Append(@, d)]
    <2>1. g.socket = e.socket /\ "socket" \in DOMAIN g
      OBVIOUS
    <2>2. SendRegular(e, d, overdue)
            = IF e.isReconnecting THEN g ELSE RecvAckCheck(WriteAll(g, <<m>>), overdue)
      BY DEF SendRegular, Write
    <2> HIDE DEF g, m
    <2> QED BY <2>1, <2>2, SocketKept
  <1>3. ASSUME NEW f, "socket" \in DOMAIN f, NEW overdue
        PROVE  ReplayUnacknowledged(f, overdue).socket = f.socket
    BY <1>3, SocketKept DEF ReplayUnacknowledged
  <1>4. ASSUME NEW overdue
        PROVE  EndReconnection(e, overdue).socket = e.socket
    <2> DEFINE g == [e EXCEPT !.isReconnecting = FALSE, !.incomingAckId = e.incomingMsgId]
               h == WriteAll(g, <<AckMessage(e.incomingMsgId)>>)
    <2>1. g.socket = e.socket /\ "socket" \in DOMAIN g
      OBVIOUS
    <2>2. EndReconnection(e, overdue) = ReplayUnacknowledged(h, overdue)
      BY DEF EndReconnection, Write
    <2> HIDE DEF g
    <2>3. h.socket = e.socket /\ "socket" \in DOMAIN h
      BY <2>1, SocketKept
    <2> HIDE DEF h
    <2> QED BY <1>3, <2>2, <2>3
  <1>5. ASSUME NEW m
        PROVE  AcceptRegular(e, m).socket = e.socket
    <2> DEFINE f == AcceptRegular(e, m)
               g == [e EXCEPT !.replayRequested = TRUE]
               h == [e EXCEPT !.incomingMsgId = m.id, !.delivered = Append(e.delivered, m.data)]
    <2>1. /\ g.socket = e.socket /\ "socket" \in DOMAIN g
          /\ h.socket = e.socket /\ "socket" \in DOMAIN h
      OBVIOUS
    <2>2. f = e \/ f = WriteAll(g, <<Plain("ReplayRequest")>>) \/ f = SendAckCheck(h)
      BY DEF AcceptRegular, Write
    <2> HIDE DEF f, g, h
    <2>3. f.socket = e.socket
      BY SMTT(20), <2>1, <2>2, SocketKept
    <2> QED BY <2>3 DEF f
  <1> QED BY <1>1, <1>2, <1>3, <1>4, <1>5

LEMMA ReceiveSocketKept ==
  ASSUME NEW e, "socket" \in DOMAIN e, NEW m, NEW overdue, m.type \in MessageType
  PROVE  ReceiveMessage(e, m, overdue).socket = e.socket
  <1> DEFINE a == AcceptAck(e, m.ack)
             f == ReceiveMessage(e, m, overdue)
  <1>1. a.socket = e.socket /\ "socket" \in DOMAIN a
    BY SocketKept
  <1>2. \/ f = AcceptRegular(a, m) \/ f = a \/ f = [a EXCEPT !.didDispose = TRUE]
        \/ f = ReplayUnacknowledged(a, overdue) \/ f = Pause(a) \/ f = Resume(a)
    BY DEF ReceiveMessage, MessageType
  <1> HIDE DEF a, f
  <1>3. Pause(a).socket = a.socket /\ Resume(a).socket = a.socket
    BY <1>1 DEF Pause, Resume
  <1>4. f.socket = e.socket
    BY <1>1, <1>2, <1>3, OperationSocketKept
  <1> QED BY <1>4 DEF f

(* The writer and the flags that Flows speaks of after WriteAll.           *)
LEMMA WriteAllFields ==
  ASSUME NEW e, EndInv(e), NEW ms \in Seq(Message)
  PROVE  LET f == WriteAll(e, ms)
         IN  /\ f.data = IF e.disposed THEN e.data ELSE e.data \o ms
             /\ f.disposed = e.disposed /\ f.isReconnecting = e.isReconnecting
            
  <1>1. e \in Endpoint /\ e.data \in Seq(Message)
    BY DEF EndInv, Endpoint
  <1>2. CASE e.disposed \/ ms = <<>>
    <2>1. WriteAll(e, ms) = e
      BY <1>2 DEF WriteAll
    <2>2. ms = <<>> => e.data \o ms = e.data
      BY <1>1
    <2> QED BY <1>2, <2>1, <2>2
  <1>3. CASE ~e.disposed /\ ms # <<>>
    <2>1. WriteAll(e, ms) = [e EXCEPT !.data = e.data \o ms,
                                      !.writeNowTimeout = e.writeNowTimeout \/ e.data = <<>>]
      BY <1>1, <1>3 DEF WriteAll, Endpoint
    <2> QED BY <1>1, <1>3, <2>1 DEF Endpoint
  <1> QED BY <1>2, <1>3

(* Timers and flags of the writer do not disturb the flow, nor does it     *)
(* matter that an end stops writing.                                       *)
LEMMA SameFlow ==
  ASSUME NEW b, NEW x, NEW e, NEW f, Flows(b, x, e), f.data = e.data,
         f.outgoingMsgId = e.outgoingMsgId, Writing(f) => Writing(e)
  PROVE  Flows(b, x, f)
  BY DEF Flows

(* The fields of _recvAckCheck's result that Flows speaks of.              *)
LEMMA RecvAckCheckFlows ==
  ASSUME NEW b, NEW x, NEW e, EndInv(e), Flows(b, x, e), NEW overdue
  PROVE  Flows(b, x, RecvAckCheck(e, overdue))
  <1> DEFINE f == RecvAckCheck(e, overdue)
  <1>1. e \in Endpoint
    BY DEF EndInv
  <1>2. /\ f.data = e.data /\ f.outgoingMsgId = e.outgoingMsgId
        /\ f.isReconnecting = e.isReconnecting /\ f.disposed = e.disposed
       
    BY <1>1 DEF RecvAckCheck, Endpoint
  <1> HIDE DEF f
  <1>3. Flows(b, x, f)
    BY <1>2, SameFlow DEF Writing
  <1> QED BY <1>2, <1>3 DEF f

LEMMA SendAckCheckFlows ==
  ASSUME NEW b, NEW x, NEW e, EndInv(e), Flows(b, x, e)
  PROVE  Flows(b, x, SendAckCheck(e))
  <1> DEFINE f == SendAckCheck(e)
  <1>1. e \in Endpoint
    BY DEF EndInv
  <1>2. /\ f.data = e.data /\ f.outgoingMsgId = e.outgoingMsgId
        /\ f.isReconnecting = e.isReconnecting /\ f.disposed = e.disposed
       
    BY <1>1 DEF SendAckCheck, Endpoint
  <1> HIDE DEF f
  <1>3. Flows(b, x, f)
    BY <1>2, SameFlow DEF Writing
  <1> QED BY <1>2, <1>3 DEF f

(* A message that is not Regular can be written at any time.               *)
LEMMA WriteFlows ==
  ASSUME NEW b \in Nat, NEW x \in Seq(Message), NEW e, EndInv(e), Flows(b, x, e),
         NEW m, AllGood(e, <<m>>), m.type # "Regular"
  PROVE  Flows(b, x, Write(e, m))
  <1> DEFINE ms == <<m>>
             f == WriteAll(e, ms)
  <1>1. ms \in Seq(Message) /\ Len(ms) = 1 /\ ms[1] = m
    BY DEF AllGood
  <1>2. e.data \in Seq(Message)
    BY DEF EndInv, Endpoint
  <1>3. SameCore(e, f)
    BY WriteAllInv
  <1> HIDE DEF ms
  <1>4. /\ f.data = IF e.disposed THEN e.data ELSE e.data \o ms
        /\ f.disposed = e.disposed /\ f.isReconnecting = e.isReconnecting
       
    BY <1>1, WriteAllFields
  <1>5. f.outgoingMsgId = e.outgoingMsgId
    BY <1>3 DEF SameCore
  <1> HIDE DEF f
  <1>6. CASE e.disposed
    <2>1. Flows(b, x, f)
      BY <1>4, <1>5, <1>6, SameFlow DEF Writing
    <2> QED BY <1>4, <2>1 DEF Write, f, ms
  <1>7. CASE ~e.disposed
    <2> DEFINE z == x \o e.data
    <2>1. z \in Seq(Message) /\ x \o (e.data \o ms) = z \o ms
      <3>1. ms \in Seq(Message)
        BY <1>1
      <3>2. z \in Seq(Message)
        BY <1>2, JoinedElements
      <3>3. x \o (e.data \o ms) = (x \o e.data) \o ms
        BY <1>2, <3>1, JoinedThrice
      <3> QED BY <3>2, <3>3
    <2> HIDE DEF z
    <2>2. Continues(b, z)
      BY DEF Flows, z
    <2>3. Continues(b, z \o ms)
      BY <1>1, <2>1, <2>2, ContinuesJoined
    <2>4. Reaches(z, e.outgoingMsgId) => Reaches(z \o ms, e.outgoingMsgId)
      BY <1>1, <2>1, ReachesJoined
    <2>5. x \o f.data = z \o ms
      BY <1>4, <1>7, <2>1
    <2>6. Writing(f) => b >= e.outgoingMsgId \/ Reaches(z, e.outgoingMsgId)
      BY <1>4 DEF Flows, Writing, z
    <2>7. Flows(b, x, f)
      BY <1>5, <2>3, <2>4, <2>5, <2>6 DEF Flows
    <2> QED BY <1>4, <2>7 DEF Write, f, ms
  <1> QED BY <1>6, <1>7

(* Writing the queue again continues what the other end has and completes  *)
(* the flow, whatever was not written before.                              *)
LEMMA ReplayFlows ==
  ASSUME NEW b \in Nat, NEW x \in Seq(Message), NEW e, EndInv(e),
         Continues(b, x \o e.data), e.outgoingAckId <= b, NEW overdue
  PROVE  Flows(b, x, ReplayUnacknowledged(e, overdue))
  <1> DEFINE queue == e.outgoingUnackMsg
             f == WriteAll(e, queue)
             z == x \o e.data
  <1>1. /\ queue \in Seq(Message) /\ AllGood(e, queue) /\ e.data \in Seq(Message)
        /\ e.outgoingAckId \in Nat /\ e.outgoingMsgId \in Nat
        /\ e.outgoingAckId <= e.outgoingMsgId
        /\ Len(queue) = e.outgoingMsgId - e.outgoingAckId
        /\ \A i \in 1 .. Len(queue) :
              queue[i].type = "Regular" /\ queue[i].id = e.outgoingAckId + i
    BY DEF EndInv, Endpoint, QueueExact
  <1>2. EndInv(f) /\ SameCore(e, f)
    BY <1>1, WriteAllInv
  <1>3. /\ f.data = IF e.disposed THEN e.data ELSE e.data \o queue
        /\ f.disposed = e.disposed /\ f.isReconnecting = e.isReconnecting
       
    BY <1>1, WriteAllFields
  <1>4. f.outgoingMsgId = e.outgoingMsgId
    BY <1>2 DEF SameCore
  <1>5. z \in Seq(Message) /\ x \o (e.data \o queue) = z \o queue
    BY ZenonT(30), <1>1, JoinedThrice, JoinedElements
  <1>6. Continues(b, z)
    OBVIOUS
  <1> HIDE DEF queue, f, z
  <1>7. ASSUME NEW i \in 1 .. Len(queue)
        PROVE  \/ queue[i].id <= b + 1
               \/ Reaches(z, queue[i].id - 1)
               \/ \E j \in 1 .. i - 1 :
                     queue[j].type = "Regular" /\ queue[j].id >= queue[i].id - 1
    <2>1. CASE i = 1
      BY <1>1, <2>1
    <2>2. CASE i # 1
      <3> DEFINE k == i - 1
      <3>1. k \in 1 .. i - 1 /\ k \in 1 .. Len(queue) /\ k + 1 = i
        BY <1>1, <2>2
      <3> HIDE DEF k
      <3>2. /\ queue[k].type = "Regular" /\ queue[k].id = e.outgoingAckId + k
            /\ queue[i].id = e.outgoingAckId + i
        BY <1>1, <3>1
      <3>3. queue[k].id >= queue[i].id - 1
        BY <1>1, <3>1, <3>2
      <3> QED BY <3>1, <3>2, <3>3
    <2> QED BY <2>1, <2>2
  <1>8. Continues(b, z \o queue)
    BY <1>1, <1>5, <1>6, <1>7, ContinuesJoined
  <1>9. b >= e.outgoingMsgId \/ Reaches(z \o queue, e.outgoingMsgId)
    <2>1. CASE Len(queue) = 0
      BY <1>1, <2>1
    <2>2. CASE Len(queue) # 0
      <3> DEFINE k == Len(queue)
      <3>1. k \in 1 .. Len(queue)
        BY <1>1, <2>2
      <3>2. queue[k].type = "Regular" /\ queue[k].id >= e.outgoingMsgId
        BY <1>1, <3>1
      <3> HIDE DEF k
      <3>3. Reaches(queue, e.outgoingMsgId)
        BY <3>1, <3>2 DEF Reaches
      <3> QED BY <1>1, <1>5, <3>3, ReachesJoined
    <2> QED BY <2>1, <2>2
  <1>10. Flows(b, x, f)
    <2>1. CASE e.disposed
      BY <1>3, <1>6, <2>1 DEF Flows, Writing, z
    <2>2. CASE ~e.disposed
      <3>1. x \o f.data = z \o queue
        BY <1>3, <1>5, <2>2
      <3> QED BY <1>4, <1>8, <1>9, <3>1 DEF Flows
    <2> QED BY <2>1, <2>2
  <1>11. /\ Flows(b, x, RecvAckCheck(f, overdue))
        
    BY <1>2, <1>10, RecvAckCheckFlows
  <1> QED BY <1>3, <1>11 DEF ReplayUnacknowledged, f, queue

(* The end of a reconnection makes up for every write it suppressed.       *)
LEMMA EndReconnectionFlows ==
  ASSUME NEW b \in Nat, NEW x \in Seq(Message), NEW e, EndInv(e), Flows(b, x, e),
         e.outgoingAckId <= b, NEW overdue
  PROVE  Flows(b, x, EndReconnection(e, overdue))
  <1> DEFINE g == [e EXCEPT !.isReconnecting = FALSE, !.incomingAckId = e.incomingMsgId]
             m == AckMessage(e.incomingMsgId)
             ms == <<m>>
             h == WriteAll(g, ms)
  <1>1. e \in Endpoint /\ AllGood(e, e.data)
    BY DEF EndInv
  <1>2. g \in Endpoint /\ SameCore(e, g) /\ g.data = e.data
        /\ g.disposed = e.disposed
    BY <1>1 DEF Endpoint, SameCore
  <1>3. EndInv(g)
    BY <1>1, <1>2, SameCoreInv
  <1>4. AllGood(g, ms)
    <2>1. g.incomingMsgId = e.incomingMsgId
      BY <1>2 DEF SameCore
    <2> QED BY <1>3, <2>1, AckGood
  <1>5. ms \in Seq(Message) /\ Len(ms) = 1 /\ ms[1].type # "Regular"
    BY <1>4 DEF AllGood, AckMessage
  <1>6. EndReconnection(e, overdue) = ReplayUnacknowledged(h, overdue)
    BY DEF EndReconnection, Write
  <1> HIDE DEF g, ms
  <1>7. EndInv(h) /\ SameCore(g, h)
    BY <1>3, <1>4, WriteAllInv
  <1>8. h.data = (IF g.disposed THEN g.data ELSE g.data \o ms)
    BY <1>3, <1>5, WriteAllFields
  <1> HIDE DEF h
  <1>9. Continues(b, x \o h.data)
    <2> DEFINE z == x \o e.data
    <2>1. e.data \in Seq(Message)
      BY <1>1 DEF AllGood
    <2>2. z \in Seq(Message) /\ x \o (e.data \o ms) = z \o ms
      <3>1. ms \in Seq(Message)
        BY <1>5
      <3>2. z \in Seq(Message)
        BY <2>1, JoinedElements
      <3>3. x \o (e.data \o ms) = (x \o e.data) \o ms
        BY <2>1, <3>1, JoinedThrice
      <3> QED BY <3>2, <3>3
    <2>3. Continues(b, z)
      BY DEF Flows
    <2> HIDE DEF z
    <2>4. Continues(b, z \o ms)
      BY <1>5, <2>2, <2>3, ContinuesJoined
    <2> QED BY <1>2, <1>8, <2>2, <2>3, <2>4 DEF z
  <1>10. h.outgoingAckId <= b
    BY <1>2, <1>7 DEF SameCore
  <1>11. /\ Flows(b, x, ReplayUnacknowledged(h, overdue))
        
    BY <1>7, <1>9, <1>10, ReplayFlows
  <1> QED BY <1>2, <1>6, <1>8, <1>11

(* A message sent continues a flow that is complete; during a reconnection *)
(* it is queued and not written.                                           *)
LEMMA SendRegularFlows ==
  ASSUME NEW b \in Nat, NEW x \in Seq(Message), NEW e, EndInv(e), Flows(b, x, e),
         NEW d \in Payload, NEW overdue
  PROVE  Flows(b, x, SendRegular(e, d, overdue))
  <1> DEFINE id == e.outgoingMsgId + 1
             m == [type |-> "Regular", id |-> id, ack |-> e.incomingMsgId, data |-> d]
             ms == <<m>>
             g == [e EXCEPT !.outgoingMsgId = id,
                            !.incomingAckId = e.incomingMsgId,
                            !.outgoingUnackMsg = Append(@, m),
                            !.sent = Append(@, d)]
             h == WriteAll(g, ms)
             f == SendRegular(e, d, overdue)
             z == x \o e.data
  <1>1. /\ e \in Endpoint /\ e.outgoingMsgId \in Nat /\ e.incomingMsgId \in Nat
        /\ e.data \in Seq(Message)
    BY DEF EndInv, Endpoint
  <1>2. m \in Message /\ m.type = "Regular" /\ m.id = id
    BY <1>1 DEF Message, MessageType
  <1>3. ms \in Seq(Message) /\ Len(ms) = 1 /\ ms[1] = m
    BY <1>2
  <1>4. /\ g.data = e.data /\ g.outgoingMsgId = id
        /\ g.isReconnecting = e.isReconnecting /\ g.disposed = e.disposed
    BY <1>1 DEF Endpoint
  <1>5. f = IF e.isReconnecting THEN g ELSE RecvAckCheck(h, overdue)
    BY DEF SendRegular, Write
  <1>6. h = IF g.disposed THEN g
            ELSE [g EXCEPT !.data = g.data \o ms,
                           !.writeNowTimeout = g.writeNowTimeout \/ g.data = <<>>]
    BY DEF WriteAll
  <1>7. DOMAIN g = DOMAIN e
    OBVIOUS
  <1> HIDE DEF m, ms, g
  <1>8. /\ h.data = IF e.disposed THEN e.data ELSE e.data \o ms
        /\ h.outgoingMsgId = id
        /\ h.isReconnecting = e.isReconnecting /\ h.disposed = e.disposed
    BY <1>1, <1>4, <1>6, <1>7 DEF Endpoint
  <1> HIDE DEF h
  <1>9. /\ RecvAckCheck(h, overdue).data = h.data
         /\ RecvAckCheck(h, overdue).outgoingMsgId = h.outgoingMsgId
        
         /\ RecvAckCheck(h, overdue).isReconnecting = h.isReconnecting
         /\ RecvAckCheck(h, overdue).disposed = h.disposed
    BY DEF RecvAckCheck
  <1> HIDE DEF f
  <1>10. Continues(b, z) /\ z \in Seq(Message)
    BY <1>1, JoinedElements DEF Flows
  <1>11. CASE e.isReconnecting
    BY <1>4, <1>5, <1>10, <1>11 DEF Flows, Writing, f
  <1>12. CASE ~e.isReconnecting /\ e.disposed
    BY <1>5, <1>8, <1>9, <1>10, <1>12 DEF Flows, Writing, f
  <1>13. CASE ~e.isReconnecting /\ ~e.disposed
    <2>1. f.data = e.data \o ms /\ f.outgoingMsgId = id
      BY <1>5, <1>8, <1>9, <1>13
    <2>2. x \o f.data = z \o ms
      <3>1. x \o (e.data \o ms) = (x \o e.data) \o ms
        BY <1>1, <1>3, JoinedThrice
      <3> QED BY <2>1, <3>1
    <2>3. b >= e.outgoingMsgId \/ Reaches(z, e.outgoingMsgId)
      BY <1>13 DEF Flows, Writing
    <2>4. ms[1].id - 1 = e.outgoingMsgId
      <3>1. ms[1].id = id
        BY <1>2, <1>3, Zenon
      <3> QED BY <1>1, <3>1
    <2> HIDE DEF z
    <2>5. Continues(b, z \o ms)
      <3> SUFFICES ASSUME NEW i \in 1 .. Len(ms)
                   PROVE  ms[i].id <= b + 1 \/ Reaches(z, ms[i].id - 1)
        BY <1>3, <1>10, ContinuesJoined
      <3>1. i = 1
        BY <1>3
      <3>2. CASE b >= e.outgoingMsgId
        BY <1>1, <1>2, <1>3, <3>1, <3>2
      <3>3. CASE Reaches(z, e.outgoingMsgId)
        BY <2>4, <3>1, <3>3
      <3> QED BY <2>3, <3>2, <3>3
    <2>6. Reaches(z \o ms, id)
      <3>1. ms[1].type = "Regular" /\ ms[1].id >= id
        BY <1>1, <1>2, <1>3
      <3> HIDE DEF id
      <3>2. Reaches(ms, id)
        BY <1>3, <3>1 DEF Reaches
      <3> QED BY <1>3, <1>10, <3>2, ReachesJoined
    <2>7. Flows(b, x, f)
      BY <2>1, <2>2, <2>5, <2>6 DEF Flows
    <2> QED BY <2>1, <2>7 DEF f
  <1> QED BY <1>11, <1>12, <1>13

(* _sendAck writes an acknowledgement.                                     *)
LEMMA SendAckFlows ==
  ASSUME NEW b \in Nat, NEW x \in Seq(Message), NEW e, EndInv(e), Flows(b, x, e)
  PROVE  Flows(b, x, SendAck(e))
  <1> DEFINE g == [e EXCEPT !.incomingAckId = e.incomingMsgId]
             m == AckMessage(e.incomingMsgId)
  <1>1. e \in Endpoint /\ AllGood(e, e.data)
    BY DEF EndInv
  <1>2. /\ g \in Endpoint /\ SameCore(e, g) /\ g.data = e.data
        /\ g.isReconnecting = e.isReconnecting /\ g.disposed = e.disposed
    BY <1>1 DEF Endpoint, SameCore
  <1>3. EndInv(g)
    BY <1>1, <1>2, SameCoreInv
  <1>4. AllGood(g, <<m>>)
    <2>1. g.incomingMsgId = e.incomingMsgId
      BY <1>2 DEF SameCore
    <2> QED BY <1>3, <2>1, AckGood
  <1>5. m.type # "Regular"
    BY DEF AckMessage
  <1>6. SendAck(e) = e \/ SendAck(e) = Write(g, m)
    BY DEF SendAck
  <1> HIDE DEF g, m
  <1>7. Flows(b, x, g)
    <2>1. g.outgoingMsgId = e.outgoingMsgId
      BY <1>2 DEF SameCore
    <2> QED BY <1>2, <2>1, SameFlow DEF Writing
  <1>8. Flows(b, x, Write(g, m))
    BY <1>3, <1>4, <1>5, <1>7, WriteFlows
  <1> QED BY <1>2, <1>6, <1>8

(* Messages that are read make an end write nothing but a replay.          *)
LEMMA AcceptAckFlows ==
  ASSUME NEW b, NEW x, NEW e, EndInv(e), Flows(b, x, e), NEW ack \in Nat
  PROVE  Flows(b, x, AcceptAck(e, ack))
  <1> DEFINE f == AcceptAck(e, ack)
  <1>1. e \in Endpoint
    BY DEF EndInv
  <1>2. /\ f.data = e.data /\ f.outgoingMsgId = e.outgoingMsgId
        /\ f.isReconnecting = e.isReconnecting /\ f.disposed = e.disposed
    BY <1>1 DEF AcceptAck, Endpoint
  <1> HIDE DEF f
  <1>3. Flows(b, x, f)
    BY <1>2, SameFlow DEF Writing
  <1> QED BY <1>2, <1>3 DEF f

LEMMA AcceptRegularFlows ==
  ASSUME NEW b \in Nat, NEW x \in Seq(Message), NEW e, EndInv(e), Flows(b, x, e),
         NEW m, m \in Message, m.type = "Regular", m.data \in Payload
  PROVE  Flows(b, x, AcceptRegular(e, m))
  <1> DEFINE f == AcceptRegular(e, m)
             g == [e EXCEPT !.replayRequested = TRUE]
             r == Plain("ReplayRequest")
             h == [e EXCEPT !.incomingMsgId = m.id, !.delivered = Append(e.delivered, m.data)]
  <1>1. e \in Endpoint /\ e.incomingMsgId \in Nat /\ m.id \in Nat
    BY DEF EndInv, Endpoint, Message
  <1>2. f = e \/ f = Write(g, r) \/ f = SendAckCheck(h)
    BY DEF AcceptRegular
  <1>3. Flows(b, x, Write(g, r))
    <2>1. /\ g \in Endpoint /\ SameCore(e, g) /\ g.data = e.data
          /\ g.isReconnecting = e.isReconnecting /\ g.disposed = e.disposed
      BY <1>1 DEF Endpoint, SameCore
    <2> HIDE DEF g
    <2>2. EndInv(g)
      BY <2>1, SameCoreInv DEF EndInv
    <2>3. "ReplayRequest" \in MessageType \ {"Regular"} /\ r.type # "Regular"
      BY DEF MessageType, Plain
    <2>4. AllGood(g, <<r>>)
      BY <2>2, <2>3, PlainGood
    <2>5. Flows(b, x, g)
      <3>1. g.outgoingMsgId = e.outgoingMsgId
        BY <2>1 DEF SameCore
      <3> QED BY <2>1, <3>1, SameFlow DEF Writing
    <2> HIDE DEF r
    <2>6. Flows(b, x, Write(g, r))
      BY <2>2, <2>3, <2>4, <2>5, WriteFlows
    <2> QED BY <2>1, <2>6
  <1>4. Flows(b, x, SendAckCheck(h))
    <2> DEFINE k == SendAckCheck(h)
    <2>1. /\ k.data = e.data /\ k.outgoingMsgId = e.outgoingMsgId
          /\ k.isReconnecting = e.isReconnecting /\ k.disposed = e.disposed
      BY <1>1 DEF SendAckCheck, Endpoint
    <2> HIDE DEF k
    <2>2. Flows(b, x, k)
      BY <2>1, SameFlow DEF Writing
    <2> QED BY <2>1, <2>2 DEF k
  <1> HIDE DEF f, g, r, h
  <1>5. Flows(b, x, f)
    BY <1>2, <1>3, <1>4
  <1> QED BY <1>5 DEF f

(* _receiveMessage, for every type of message.                             *)
LEMMA ReceiveMessageFlows ==
  ASSUME NEW b \in Nat, NEW x \in Seq(Message), NEW e, EndInv(e), Flows(b, x, e),
         e.outgoingAckId <= b, NEW overdue,
         NEW m, m \in Message, m.ack <= e.outgoingMsgId, m.ack <= b,
         m.type = "Regular" => m.data \in Payload
  PROVE  Flows(b, x, ReceiveMessage(e, m, overdue))
  <1> DEFINE a == AcceptAck(e, m.ack)
             f == ReceiveMessage(e, m, overdue)
  <1>1. m.ack \in Nat /\ m.type \in MessageType
    BY DEF Message
  <1>2. EndInv(a) /\ a.outgoingAckId <= b
    BY <1>1, AcceptAckInv
  <1>3. Flows(b, x, a)
    BY <1>1, AcceptAckFlows
  <1>4. a \in Endpoint
    BY <1>2 DEF EndInv
  <1>5. f = CASE m.type = "Regular" -> AcceptRegular(a, m)
              [] m.type \in {"Control", "Ack"} -> a
              [] m.type = "Disconnect" -> [a EXCEPT !.didDispose = TRUE]
              [] m.type = "ReplayRequest" -> ReplayUnacknowledged(a, overdue)
              [] m.type = "Pause" -> Pause(a)
              [] m.type = "Resume" -> Resume(a)
    BY DEF ReceiveMessage
  <1> HIDE DEF a, f
  <1>6. CASE m.type = "Regular"
    <2>1. f = AcceptRegular(a, m)
      BY <1>5, <1>6
    <2>2. Flows(b, x, AcceptRegular(a, m))
      BY <1>2, <1>3, <1>6, AcceptRegularFlows
    <2> QED BY <1>3, <2>1, <2>2 DEF f
  <1>7. CASE m.type \in {"Control", "Ack"}
    <2>1. f = a
      BY <1>5, <1>7
    <2> QED BY <1>3, <2>1 DEF f
  <1>8. CASE m.type \in {"Disconnect", "Pause", "Resume"}
    <2>1. f \in {[a EXCEPT !.didDispose = TRUE], Pause(a), Resume(a)}
      BY <1>5, <1>8
    <2>2. /\ f.data = a.data /\ f.outgoingMsgId = a.outgoingMsgId
          /\ f.isReconnecting = a.isReconnecting /\ f.disposed = a.disposed
      BY <1>4, <2>1 DEF Endpoint, Pause, Resume
    <2>3. Flows(b, x, f)
      BY <1>3, <2>2, SameFlow DEF Writing
    <2> QED BY <1>3, <2>2, <2>3 DEF f
  <1>9. CASE m.type = "ReplayRequest"
    <2>1. f = ReplayUnacknowledged(a, overdue)
      BY <1>5, <1>9
    <2>2. a.data \in Seq(Message) /\ Continues(b, x \o a.data)
      BY <1>3, <1>4 DEF Flows, Endpoint
    <2>3. /\ Flows(b, x, ReplayUnacknowledged(a, overdue))
         
      BY <1>2, <2>2, ReplayFlows
    <2> QED BY <1>3, <2>1, <2>3 DEF f
  <1> QED BY <1>1, <1>6, <1>7, <1>8, <1>9 DEF MessageType

(* What is flushed is on the socket instead of in the writer.              *)
LEMMA FlushedFlows ==
  ASSUME NEW b \in Nat, NEW x \in Seq(Message), NEW e, EndInv(e), Flows(b, x, e),
         Continues(b, x)
  PROVE  /\ Flushable(e) \in Seq(Message)
         /\ Continues(b, x \o Flushable(e))
         /\ Flows(b, x \o Flushable(e), Flushed(e))
        
  <1> DEFINE f == Flushed(e)
             z == x \o Flushable(e)
  <1>1. e \in Endpoint /\ e.data \in Seq(Message) /\ <<>> \in Seq(Message)
    BY DEF EndInv, Endpoint
  <1>2. /\ f.outgoingMsgId = e.outgoingMsgId
        /\ f.isReconnecting = e.isReconnecting /\ f.disposed = e.disposed
        /\ f.data = IF e.isPaused THEN e.data ELSE <<>>
    BY <1>1 DEF Flushed, Endpoint
  <1> HIDE DEF f
  <1>3. CASE e.isPaused
    <2>1. Flushable(e) = <<>> /\ x \o <<>> = x
      BY <1>3 DEF Flushable
    <2>2. Flows(b, x, f)
      BY <1>2, <1>3, SameFlow DEF Writing
    <2> QED BY <1>1, <1>2, <2>1, <2>2 DEF f
  <1>4. CASE ~e.isPaused
    <2>1. Flushable(e) = e.data
      BY <1>4 DEF Flushable
    <2>2. (x \o e.data) \o <<>> = x \o e.data /\ f.data = <<>>
      BY <1>1, <1>2, <1>4
    <2>3. Flows(b, x \o e.data, f) /\ Continues(b, x \o e.data)
      BY <1>2, <2>2 DEF Flows, Writing
    <2> QED BY <1>1, <1>2, <2>1, <2>3 DEF f
  <1> QED BY <1>3, <1>4

(* A reader that has more is continued by the same flow.                   *)
LEMMA FlowsGrown ==
  ASSUME NEW b \in Nat, NEW c \in Nat, b <= c, NEW x \in Seq(Message),
         NEW e, EndInv(e), Flows(b, x, e)
  PROVE  Flows(c, x, e)
  <1>1. e.data \in Seq(Message) /\ e.outgoingMsgId \in Nat
    BY DEF EndInv, Endpoint
  <1>2. x \o e.data \in Seq(Message)
    BY <1>1, JoinedElements
  <1>3. Continues(c, x \o e.data)
    BY <1>2, ContinuesGrown DEF Flows
  <1>4. b >= e.outgoingMsgId => c >= e.outgoingMsgId
    BY <1>1
  <1> QED BY <1>3, <1>4 DEF Flows

-----------------------------------------------------------------------------
(* No gap: the steps of an end and of the network. *)

(* Facts about both ends that every step uses.                             *)
LEMMA GapFacts ==
  ASSUME IInv, GapFree, NEW p \in Peer
  PROVE  /\ EndInv(ep[p]) /\ ep[p].socket \in Socket /\ ep[p].incomingMsgId \in Nat
         /\ Other(p) \in Peer /\ Other(p) # p /\ Other(Other(p)) = p
         /\ EndInv(ep[Other(p)]) /\ ep[Other(p)].socket \in Socket
         /\ ep[Other(p)].incomingMsgId \in Nat
         /\ ep[p].outgoingAckId <= ep[Other(p)].incomingMsgId
         /\ \A t \in Socket, r \in Peer : pipe[t][r] \in Seq(Message)
         /\ \A t \in Socket : Continues(ep[Other(p)].incomingMsgId, pipe[t][p])
         /\ \A t \in Socket : Continues(ep[p].incomingMsgId, pipe[t][Other(p)])
         /\ ep[p].socket \notin closed =>
               Flows(ep[Other(p)].incomingMsgId, pipe[ep[p].socket][p], ep[p])
         /\ ep[Other(p)].socket \notin closed =>
               Flows(ep[p].incomingMsgId, pipe[ep[Other(p)].socket][Other(p)], ep[Other(p)])
  <1>1. Other(p) \in Peer /\ Other(p) # p /\ Other(Other(p)) = p
    BY PeerFacts
  <1>2. /\ EndInv(ep[p]) /\ EndInv(ep[Other(p)]) /\ Paired(ep[p], ep[Other(p)])
    BY <1>1 DEF IInv
  <1>3. \A t \in Socket, r \in Peer : pipe[t][r] \in Seq(Message)
    BY DEF IInv, GoodPipes
  <1>4. /\ ep[p].socket \in Socket /\ ep[p].incomingMsgId \in Nat
        /\ ep[Other(p)].socket \in Socket /\ ep[Other(p)].incomingMsgId \in Nat
    BY <1>2 DEF EndInv, Endpoint
  <1>5. /\ \A t \in Socket : Continues(ep[Other(p)].incomingMsgId, pipe[t][p])
        /\ ep[p].socket \notin closed =>
              Flows(ep[Other(p)].incomingMsgId, pipe[ep[p].socket][p], ep[p])
    BY DEF GapFree
  <1>6. /\ \A t \in Socket : Continues(ep[p].incomingMsgId, pipe[t][Other(p)])
        /\ ep[Other(p)].socket \notin closed =>
              Flows(ep[p].incomingMsgId, pipe[ep[Other(p)].socket][Other(p)], ep[Other(p)])
    BY <1>1 DEF GapFree
  <1> QED BY <1>1, <1>2, <1>3, <1>4, <1>5, <1>6 DEF Paired

(* What has to be shown of a step of p: its own flow, and that of the      *)
(* other end.                                                              *)
LEMMA GapFreeBoth ==
  ASSUME NEW p \in Peer, NEW f, ep \in [Peer -> Endpoint], ep' = [ep EXCEPT ![p] = f],
         \A t \in Socket : Continues(ep[Other(p)].incomingMsgId, pipe'[t][p]),
         f.socket \notin closed' =>
             Flows(ep[Other(p)].incomingMsgId, pipe'[f.socket][p], f),
         \A t \in Socket : Continues(f.incomingMsgId, pipe'[t][Other(p)]),
         ep[Other(p)].socket \notin closed' =>
             Flows(f.incomingMsgId, pipe'[ep[Other(p)].socket][Other(p)], ep[Other(p)])
  PROVE  GapFree'
  <1> DEFINE o == Other(p)
  <1>1. o \in Peer /\ o # p /\ Other(o) = p /\ Peer = {p, o}
    BY PeerFacts
  <1>2. ep'[p] = f /\ ep'[o] = ep[o]
    BY <1>1
  <1> SUFFICES ASSUME NEW r \in Peer
               PROVE  LET b == ep'[Other(r)].incomingMsgId
                          s == ep'[r].socket
                      IN  /\ \A t \in Socket : Continues(b, pipe'[t][r])
                          /\ s \notin closed' => Flows(b, pipe'[s][r], ep'[r])
    BY DEF GapFree
  <1>3. CASE r = p
    BY <1>2, <1>3
  <1>4. CASE r = o
    BY <1>1, <1>2, <1>4
  <1> QED BY <1>1, <1>3, <1>4

(* Steps of p that leave the sockets alone and read nothing.               *)
LEMMA GapEndOnly ==
  ASSUME IInv, GapFree, NEW p \in Peer, NEW f, Update(p, f),
         UNCHANGED <<pipe, closed, bound>>,
         f.socket = ep[p].socket, f.incomingMsgId = ep[p].incomingMsgId,
         ep[p].socket \notin closed =>
             Flows(ep[Other(p)].incomingMsgId, pipe[ep[p].socket][p], f)
  PROVE  GapFree'
  <1>1. ep \in [Peer -> Endpoint] /\ ep' = [ep EXCEPT ![p] = f]
    BY DEF IInv, Update
  <1>2. /\ \A t \in Socket : Continues(ep[Other(p)].incomingMsgId, pipe[t][p])
        /\ \A t \in Socket : Continues(ep[p].incomingMsgId, pipe[t][Other(p)])
        /\ ep[Other(p)].socket \notin closed =>
              Flows(ep[p].incomingMsgId, pipe[ep[Other(p)].socket][Other(p)], ep[Other(p)])
    BY GapFacts
  <1> QED BY <1>1, <1>2, GapFreeBoth

(* Sending, control messages, timers, flags and the end of a reconnection. *)
LEMMA GapWriteSteps ==
  ASSUME IInv, GapFree, NEW p \in Peer,
         \/ Send(p) \/ SendControl(p) \/ SendPause(p) \/ SendResume(p)
         \/ PauseSocketWriting(p) \/ ReplayWindowElapses(p) \/ AcceptDisconnect(p)
         \/ IncomingAckTimer(p) \/ OutgoingAckTimer(p) \/ EndAcceptReconnection(p)
  PROVE  GapFree'
  <1> DEFINE e == ep[p]
             b == ep[Other(p)].incomingMsgId
             x == pipe[e.socket][p]
             Open == e.socket \notin closed
             Fits(f) == /\ f.socket = e.socket /\ f.incomingMsgId = e.incomingMsgId
                        /\ Open => Flows(b, x, f)
  <1>1. /\ EndInv(e) /\ b \in Nat /\ x \in Seq(Message) /\ e.outgoingAckId <= b
        /\ Open => Flows(b, x, e)
    BY GapFacts
  <1>2. UNCHANGED <<pipe, closed, bound>>
    BY DEF Send, SendControl, SendPause, SendResume, PauseSocketWriting, ReplayWindowElapses,
           AcceptDisconnect, IncomingAckTimer, OutgoingAckTimer, EndAcceptReconnection
  <1>3. ASSUME NEW f, Update(p, f), Fits(f)
        PROVE  GapFree'
    BY <1>2, <1>3, GapEndOnly
  <1>4. e \in Endpoint /\ "socket" \in DOMAIN e
    <2>1. e \in Endpoint
      BY <1>1 DEF EndInv
    <2> QED BY <2>1 DEF Endpoint
  <1> HIDE DEF e, b, x, Open
  (* Timers and flags alone. *)
  <1>5. ASSUME NEW f, f \in Endpoint, SameCore(e, f), f.data = e.data, f.socket = e.socket,
               f.isReconnecting = e.isReconnecting, f.disposed = e.disposed
        PROVE  Fits(f) /\ EndInv(f) /\ f.outgoingAckId <= b
    <2>1. EndInv(f)
      BY <1>1, <1>5, SameCoreInv DEF EndInv
    <2>2. Open => Flows(b, x, f)
      BY <1>1, <1>5, SameFlow DEF SameCore, Writing
    <2> QED BY <1>1, <1>5, <2>1, <2>2 DEF SameCore
  <1>6. CASE Send(p)
    <2>1. PICK d \in Payload, overdue \in BOOLEAN : Update(p, SendRegular(e, d, overdue))
      BY <1>6 DEF Send, e
    <2> DEFINE f == SendRegular(e, d, overdue)
    <2>2. EndInv(f) /\ Sends(e, f)
      BY <1>1, SendRegularInv
    <2>3. f.socket = e.socket
      BY <1>4, OperationSocketKept
    <2>4. Open => Flows(b, x, f)
      BY <1>1, SendRegularFlows
    <2> QED BY <1>3, <2>1, <2>2, <2>3, <2>4 DEF Sends
  <1>7. CASE SendControl(p) \/ SendPause(p) \/ SendResume(p)
    <2>1. PICK type \in {"Control", "Pause", "Resume"} : Update(p, Write(e, Plain(type)))
      BY <1>7 DEF SendControl, SendPause, SendResume, e
    <2> DEFINE m == Plain(type)
    <2>2. type \in MessageType \ {"Regular"} /\ m.type # "Regular"
      BY DEF MessageType, Plain
    <2>3. AllGood(e, <<m>>)
      BY <1>1, <2>2, PlainGood
    <2> HIDE DEF m
    <2>5. Write(e, m).socket = e.socket /\ SameCore(e, Write(e, m))
      BY <1>1, <1>4, <2>3, SocketKept, WriteAllInv DEF Write
    <2>6. Open => Flows(b, x, Write(e, m))
      BY <1>1, <2>2, <2>3, WriteFlows
    <2> QED BY <1>3, <2>1, <2>5, <2>6 DEF SameCore, m
  <1>8. CASE PauseSocketWriting(p) \/ ReplayWindowElapses(p) \/ AcceptDisconnect(p)
    <2>1. PICK f \in {Pause(e), [e EXCEPT !.replayRequested = FALSE],
                      [e EXCEPT !.didDispose = TRUE]} : Update(p, f)
      BY <1>8 DEF PauseSocketWriting, ReplayWindowElapses, AcceptDisconnect, e
    <2>2. /\ f \in Endpoint /\ SameCore(e, f) /\ f.data = e.data /\ f.socket = e.socket
          /\ f.isReconnecting = e.isReconnecting /\ f.disposed = e.disposed
      BY ZenonT(30), <1>4 DEF Endpoint, SameCore, Pause
    <2> QED BY <1>3, <1>5, <2>1, <2>2
  <1>9. CASE IncomingAckTimer(p)
    <2> DEFINE g == [e EXCEPT !.incomingAckTimeout = FALSE]
    <2>1. /\ g \in Endpoint /\ SameCore(e, g) /\ g.data = e.data /\ g.socket = e.socket
          /\ g.isReconnecting = e.isReconnecting /\ g.disposed = e.disposed
      BY <1>4 DEF Endpoint, SameCore
    <2>2. Update(p, SendAck(g))
      BY <1>9 DEF IncomingAckTimer, e
    <2> HIDE DEF g
    <2>3. Fits(g) /\ EndInv(g)
      BY <1>5, <2>1
    <2>4. SameCore(g, SendAck(g))
      BY <2>3, SendAckInv
    <2>5. SendAck(g).socket = g.socket
      BY <1>4, OperationSocketKept DEF g
    <2>6. Open => Flows(b, x, SendAck(g))
      BY <1>1, <2>3, SendAckFlows
    <2> QED BY <1>3, <2>2, <2>3, <2>4, <2>5, <2>6 DEF SameCore
  <1>10. CASE OutgoingAckTimer(p)
    <2> DEFINE g == [e EXCEPT !.outgoingAckTimeout = FALSE]
    <2>1. /\ g \in Endpoint /\ SameCore(e, g) /\ g.data = e.data /\ g.socket = e.socket
          /\ g.isReconnecting = e.isReconnecting /\ g.disposed = e.disposed
      BY <1>4 DEF Endpoint, SameCore
    <2>2. PICK overdue \in BOOLEAN : Update(p, RecvAckCheck(g, overdue))
      BY <1>10 DEF OutgoingAckTimer, e
    <2> HIDE DEF g
    <2>3. Fits(g) /\ EndInv(g)
      BY <1>5, <2>1
    <2>4. SameCore(g, RecvAckCheck(g, overdue))
      BY <2>3, RecvAckCheckInv
    <2>5. RecvAckCheck(g, overdue).socket = g.socket
      BY <1>4, SocketKept DEF g
    <2>6. Open => Flows(b, x, RecvAckCheck(g, overdue))
      BY <2>3, RecvAckCheckFlows
    <2> QED BY <1>3, <2>2, <2>3, <2>4, <2>5, <2>6 DEF SameCore
  <1>11. CASE EndAcceptReconnection(p)
    <2>1. PICK overdue \in BOOLEAN : Update(p, EndReconnection(e, overdue))
      BY <1>11 DEF EndAcceptReconnection, e
    <2>2. SameCore(e, EndReconnection(e, overdue))
      BY <1>1, EndReconnectionInv
    <2>3. EndReconnection(e, overdue).socket = e.socket
      BY <1>4, OperationSocketKept
    <2>4. Open => Flows(b, x, EndReconnection(e, overdue))
      BY <1>1, EndReconnectionFlows
    <2> QED BY <1>3, <2>1, <2>2, <2>3, <2>4 DEF SameCore
  <1> QED BY <1>6, <1>7, <1>8, <1>9, <1>10, <1>11

(* Flushing moves messages from the writer to the socket.                  *)
LEMMA GapFlush ==
  ASSUME IInv, GapFree, NEW p \in Peer, NEW w, EndInv(w), NEW f,
         w.socket = ep[p].socket, w.incomingMsgId = ep[p].incomingMsgId,
         ep[p].socket \notin closed =>
             Flows(ep[Other(p)].incomingMsgId, pipe[ep[p].socket][p], w),
         f.data = Flushed(w).data, f.outgoingMsgId = w.outgoingMsgId,
         f.incomingMsgId = w.incomingMsgId, f.socket = w.socket,
         Writing(f) => Writing(w),
         Update(p, f), pipe' = Transmit(p, Flushable(w)), UNCHANGED <<closed, bound>>
  PROVE  GapFree'
  <1> DEFINE e == ep[p]
             o == Other(p)
             b == ep[o].incomingMsgId
             s == e.socket
             x == pipe[s][p]
             Open == s \notin closed
  <1>1. /\ b \in Nat /\ s \in Socket /\ x \in Seq(Message) /\ o \in Peer /\ o # p
        /\ \A t \in Socket : Continues(b, pipe[t][p])
        /\ \A t \in Socket : Continues(e.incomingMsgId, pipe[t][o])
        /\ ep[o].socket \in Socket
        /\ ep[o].socket \notin closed =>
              Flows(e.incomingMsgId, pipe[ep[o].socket][o], ep[o])
    BY GapFacts
  <1>2. ep \in [Peer -> Endpoint] /\ ep' = [ep EXCEPT ![p] = f] /\ f.socket = s
    BY DEF IInv, Update
  <1>3. Open => Flows(b, x, w)
    OBVIOUS
  <1>4. pipe' = IF s \in closed THEN pipe ELSE [pipe EXCEPT ![s][p] = x \o Flushable(w)]
    BY DEF Transmit
  <1>5. pipe \in [Socket -> [Peer -> Seq(Message)]]
    BY DEF IInv, GoodPipes
  <1> HIDE DEF e, o, b, s, x, Open
  <1>6. CASE s \in closed
    <2>1. /\ \A t \in Socket : Continues(b, pipe'[t][p])
          /\ \A t \in Socket : Continues(f.incomingMsgId, pipe'[t][o])
      BY <1>1, <1>4, <1>6 DEF e
    <2>2. ep[o].socket \notin closed' =>
             Flows(f.incomingMsgId, pipe'[ep[o].socket][o], ep[o])
      BY <1>1, <1>4, <1>6 DEF e
    <2>3. f.socket \in closed'
      BY <1>2, <1>6
    <2> QED BY <1>2, <2>1, <2>2, <2>3, GapFreeBoth DEF o, b
  <1>7. CASE s \notin closed
    <2>1. /\ Flushable(w) \in Seq(Message)
          /\ Continues(b, x \o Flushable(w))
          /\ Flows(b, x \o Flushable(w), Flushed(w))
      <3>1. Flows(b, x, w) /\ Continues(b, x)
        BY <1>1, <1>3, <1>7 DEF Open, x
      <3> QED BY <1>1, <3>1, FlushedFlows
    <2>2. x \o Flushable(w) \in Seq(Message)
      BY <1>1, <2>1, JoinedElements
    <2>3. \A t \in Socket, r \in Peer :
             pipe'[t][r] = IF t = s /\ r = p THEN x \o Flushable(w) ELSE pipe[t][r]
      BY <1>1, <1>4, <1>5, <1>7
    <2>4. Flows(b, pipe'[s][p], f)
      <3>1. Writing(f) => Writing(Flushed(w))
        BY DEF Writing, Flushed, EndInv, Endpoint
      <3>2. Flushed(w).outgoingMsgId = w.outgoingMsgId
        BY DEF Flushed, EndInv, Endpoint
      <3>3. Flows(b, x \o Flushable(w), f)
        BY <2>1, <3>1, <3>2, SameFlow
      <3> QED BY <1>1, <2>3, <3>3
    <2>5. \A t \in Socket : Continues(b, pipe'[t][p])
      BY <1>1, <2>1, <2>3
    <2>6. \A t \in Socket : Continues(f.incomingMsgId, pipe'[t][o])
      BY <1>1, <2>3 DEF e
    <2>7. ep[o].socket \notin closed' =>
             Flows(f.incomingMsgId, pipe'[ep[o].socket][o], ep[o])
      BY <1>1, <2>3 DEF e
    <2> QED BY <1>2, <2>4, <2>5, <2>6, <2>7, GapFreeBoth DEF o, b
  <1> QED BY <1>6, <1>7

LEMMA GapFlushSteps ==
  ASSUME IInv, GapFree, NEW p \in Peer,
         WriteNow(p) \/ SendDisconnect(p) \/ Dispose(p)
  PROVE  GapFree'
  <1> DEFINE e == ep[p]
             b == ep[Other(p)].incomingMsgId
             x == pipe[e.socket][p]
             Open == e.socket \notin closed
  <1>1. EndInv(e) /\ b \in Nat /\ x \in Seq(Message) /\ (Open => Flows(b, x, e))
    BY GapFacts
  <1>2. UNCHANGED <<closed, bound>>
    BY DEF WriteNow, SendDisconnect, Dispose
  <1>3. e \in Endpoint
    BY <1>1 DEF EndInv
  <1>4. /\ Flushed(e).outgoingMsgId = e.outgoingMsgId
        /\ Flushed(e).incomingMsgId = e.incomingMsgId /\ Flushed(e).socket = e.socket
        /\ Flushed(e).isReconnecting = e.isReconnecting /\ Flushed(e).disposed = e.disposed
    BY <1>3 DEF Flushed, Endpoint
  <1>5. CASE WriteNow(p)
    <2> DEFINE f == [Flushed(e) EXCEPT !.writeNowTimeout = FALSE]
    <2>1. /\ f.data = Flushed(e).data /\ f.outgoingMsgId = e.outgoingMsgId
          /\ f.incomingMsgId = e.incomingMsgId /\ f.socket = e.socket
          /\ f.isReconnecting = e.isReconnecting /\ f.disposed = e.disposed
      BY <1>3, <1>4 DEF Flushed, Endpoint
    <2>2. Update(p, f) /\ pipe' = Transmit(p, Flushable(e))
      BY <1>5 DEF WriteNow
    <2> HIDE DEF f
    <2>3. Writing(f) => Writing(e)
      BY <2>1 DEF Writing
    <2> QED BY <1>1, <1>2, <2>1, <2>2, <2>3, GapFlush
  <1>6. CASE Dispose(p)
    <2> DEFINE f == DisposeEndpoint(e)
    <2>1. /\ f.data = Flushed(e).data /\ f.outgoingMsgId = e.outgoingMsgId
          /\ f.incomingMsgId = e.incomingMsgId /\ f.socket = e.socket
          /\ f.disposed = TRUE
      BY <1>3, <1>4 DEF DisposeEndpoint, Flushed, Endpoint
    <2>2. Update(p, f) /\ pipe' = Transmit(p, Flushable(e))
      BY <1>6 DEF Dispose
    <2> HIDE DEF f
    <2>3. Writing(f) => Writing(e)
      BY <2>1 DEF Writing
    <2> QED BY <1>1, <1>2, <2>1, <2>2, <2>3, GapFlush
  <1>7. CASE SendDisconnect(p)
    <2> DEFINE m == Plain("Disconnect")
               w == Write(e, m)
    <2>1. "Disconnect" \in MessageType \ {"Regular"} /\ m.type # "Regular"
      BY DEF MessageType, Plain
    <2>2. AllGood(e, <<m>>)
      BY <1>1, <2>1, PlainGood
    <2>3. EndInv(w) /\ SameCore(e, w)
      BY <1>1, <2>2, WriteAllInv DEF Write
    <2>4. w.socket = e.socket
      BY <1>3, SocketKept DEF Write, Endpoint
    <2>5. Open => Flows(b, x, w)
      BY <1>1, <2>1, <2>2, WriteFlows
    <2>6. Update(p, Flushed(w)) /\ pipe' = Transmit(p, Flushable(w))
      BY <1>7 DEF SendDisconnect
    <2> HIDE DEF w
    <2>7. /\ Flushed(w).outgoingMsgId = w.outgoingMsgId
          /\ Flushed(w).incomingMsgId = w.incomingMsgId /\ Flushed(w).socket = w.socket
          /\ Flushed(w).isReconnecting = w.isReconnecting /\ Flushed(w).disposed = w.disposed
      BY <2>3 DEF Flushed, Endpoint, EndInv
    <2>8. Writing(Flushed(w)) => Writing(w)
      BY <2>7 DEF Writing
    <2>9. w.incomingMsgId = e.incomingMsgId
      BY <2>3 DEF SameCore
    <2> HIDE DEF Open, b, x
    <2> QED BY <1>2, <2>3, <2>4, <2>5, <2>6, <2>7, <2>8, <2>9, GapFlush DEF Open, b, x
  <1> QED BY <1>5, <1>6, <1>7

(* The next message in order is delivered at once.                         *)
LEMMA NextAccepted ==
  ASSUME NEW e, EndInv(e), NEW overdue, NEW m, m \in Message, m.ack <= e.outgoingMsgId,
         m.type = "Regular", m.id = e.incomingMsgId + 1
  PROVE  ReceiveMessage(e, m, overdue).incomingMsgId = m.id
  <1> DEFINE a == AcceptAck(e, m.ack)
             g == [a EXCEPT !.incomingMsgId = m.id, !.delivered = Append(a.delivered, m.data)]
  <1>1. m.ack \in Nat /\ e.incomingMsgId \in Nat
    BY DEF Message, EndInv, Endpoint
  <1>2. EndInv(a) /\ a.incomingMsgId = e.incomingMsgId
    BY <1>1, AcceptAckInv
  <1>3. a \in Endpoint
    BY <1>2 DEF EndInv
  <1>4. ReceiveMessage(e, m, overdue) = AcceptRegular(a, m)
    BY DEF ReceiveMessage
  <1> HIDE DEF a
  <1>5. AcceptRegular(a, m) = SendAckCheck(g)
    BY <1>1, <1>2 DEF AcceptRegular
  <1>6. g.incomingMsgId = m.id
    BY <1>3 DEF Endpoint
  <1>7. SendAckCheck(g).incomingMsgId = g.incomingMsgId
    BY DEF SendAckCheck
  <1> QED BY <1>4, <1>5, <1>6, <1>7

(* Once its first message is read, a socket flows on.                      *)
LEMMA FlowsRead ==
  ASSUME NEW b \in Nat, NEW c \in Nat, b <= c, NEW x \in Seq(Message), x # <<>>,
         Head(x).type = "Regular" => Head(x).id <= c,
         NEW e, EndInv(e), Flows(b, x, e)
  PROVE  Flows(c, Tail(x), e)
  <1> DEFINE z == x \o e.data
  <1>1. e.data \in Seq(Message) /\ e.outgoingMsgId \in Nat
    BY DEF EndInv, Endpoint
  <1>2. /\ z \in Seq(Message) /\ z # <<>> /\ Head(z) = Head(x)
        /\ Tail(z) = Tail(x) \o e.data
    BY <1>1
  <1>3. Head(x) \in Message /\ Head(x).id \in Nat
    <2>1. Head(x) \in Message
      OBVIOUS
    <2> QED BY <2>1 DEF Message
  <1>4. Continues(b, z) /\ (Writing(e) => b >= e.outgoingMsgId \/ Reaches(z, e.outgoingMsgId))
    BY DEF Flows
  <1> HIDE DEF z
  <1>5. Continues(c, Tail(z))
    BY <1>2, <1>4, ContinuesTail
  <1>6. Reaches(z, e.outgoingMsgId) =>
            Reaches(Tail(z), e.outgoingMsgId) \/ c >= e.outgoingMsgId
    <2> SUFFICES ASSUME Reaches(z, e.outgoingMsgId)
                 PROVE  Reaches(Tail(z), e.outgoingMsgId) \/ c >= e.outgoingMsgId
      OBVIOUS
    <2>1. \/ Reaches(Tail(z), e.outgoingMsgId)
          \/ (Head(z).type = "Regular" /\ Head(z).id >= e.outgoingMsgId)
      BY <1>2, ReachesTail
    <2> QED BY <1>1, <1>2, <1>3, <2>1
  <1>7. b >= e.outgoingMsgId => c >= e.outgoingMsgId
    BY <1>1
  <1> QED BY <1>2, <1>4, <1>5, <1>6, <1>7 DEF Flows

(* Reading takes the first message off a socket, which is no further than  *)
(* the next one: what is left, and what is owed, continues it.             *)
LEMMA GapReceive ==
  ASSUME IInv, GapFree, NEW p \in Peer, Receive(p)
  PROVE  GapFree'
  <1> DEFINE e == ep[p]
             o == Other(p)
             g == ep[o]
             b == g.incomingMsgId
             s == e.socket
             incoming == pipe[s][o]
             m == Head(incoming)
  <1>1. /\ EndInv(e) /\ EndInv(g) /\ s \in Socket /\ g.socket \in Socket
        /\ e.incomingMsgId \in Nat /\ b \in Nat
        /\ o \in Peer /\ o # p
        /\ e.outgoingAckId <= b
        /\ \A t \in Socket, r \in Peer : pipe[t][r] \in Seq(Message)
        /\ \A t \in Socket : Continues(b, pipe[t][p])
        /\ \A t \in Socket : Continues(e.incomingMsgId, pipe[t][o])
        /\ s \notin closed => Flows(b, pipe[s][p], e)
        /\ g.socket \notin closed => Flows(e.incomingMsgId, pipe[g.socket][o], g)
    BY GapFacts
  <1>2. incoming # <<>> /\ closed' = closed
    BY DEF Receive
  <1>3. PICK overdue \in BOOLEAN : ep' = [ep EXCEPT ![p] = ReceiveMessage(e, m, overdue)]
    BY DEF Receive, Update
  <1>4. pipe' = [pipe EXCEPT ![s][o] = Tail(incoming)]
    BY DEF Receive
  <1>5. /\ pipe \in [Socket -> [Peer -> Seq(Message)]] /\ ep \in [Peer -> Endpoint]
    BY DEF IInv, GoodPipes
  <1>6. GoodMessage(g, m) /\ m \in Message /\ m.ack <= e.outgoingMsgId
        /\ (m.type = "Regular" => m.data \in Payload)
    BY <1>2, ArrivingMessage
  <1> DEFINE f == ReceiveMessage(e, m, overdue)
  <1> HIDE DEF e, o, g, b, s, incoming, m
  <1>7. Receives(e, f, m) /\ EndInv(f)
    BY <1>1, <1>6, ReceiveMessageInv
  <1>8. f.socket = s
    <2>1. m.type \in MessageType /\ "socket" \in DOMAIN e
      BY <1>1, <1>6 DEF Message, EndInv, Endpoint
    <2> QED BY <2>1, ReceiveSocketKept DEF s
  <1>9. s \notin closed => Flows(b, pipe[s][p], f)
    <2>1. m.ack <= b
      BY <1>6 DEF GoodMessage, b
    <2>2. pipe[s][p] \in Seq(Message)
      BY <1>1
    <2> QED BY <1>1, <1>6, <2>1, <2>2, ReceiveMessageFlows
  <1> HIDE DEF f
  (* The reader has at least what it had, and the message itself if it is  *)
  (* Regular.                                                              *)
  <1>10. f.incomingMsgId \in Nat /\ e.incomingMsgId <= f.incomingMsgId
    <2>1. f.incomingMsgId \in Nat
      BY <1>7 DEF EndInv, Endpoint
    <2>2. f.incomingMsgId = e.incomingMsgId \/ f.incomingMsgId = e.incomingMsgId + 1
      BY <1>7 DEF Receives, Delivered
    <2>3. e.incomingMsgId \in Nat
      BY <1>1
    <2> QED BY <2>1, <2>2, <2>3
  <1>11. m.type = "Regular" => m.id <= f.incomingMsgId
    <2> SUFFICES ASSUME m.type = "Regular" PROVE m.id <= f.incomingMsgId
      OBVIOUS
    <2>1. m.id \in Nat
      BY <1>6 DEF Message
    <2>2. m.id <= e.incomingMsgId + 1
      <3>1. Len(incoming) >= 1 /\ m = incoming[1]
        BY <1>1, <1>2 DEF incoming, m
      <3>2. Continues(e.incomingMsgId, incoming)
        BY <1>1 DEF incoming
      <3> QED BY <3>1, <3>2 DEF Continues
    <2>3. CASE m.id <= e.incomingMsgId
      BY <1>1, <1>10, <2>1, <2>3
    <2>4. CASE m.id = e.incomingMsgId + 1
      <3>1. f.incomingMsgId = m.id
        BY <1>1, <1>6, <2>4, NextAccepted DEF f
      <3> QED BY <1>10, <3>1
    <2> QED BY <1>1, <2>1, <2>2, <2>3, <2>4
  <1>12. \A t \in Socket, r \in Peer :
            pipe'[t][r] = IF t = s /\ r = o THEN Tail(incoming) ELSE pipe[t][r]
    BY <1>1, <1>4, <1>5
  <1>13. \A t \in Socket : Continues(f.incomingMsgId, pipe'[t][o])
    <2> SUFFICES ASSUME NEW t \in Socket
                 PROVE  Continues(f.incomingMsgId, pipe'[t][o])
      OBVIOUS
    <2>1. CASE t = s
      <3>1. incoming \in Seq(Message) /\ Continues(e.incomingMsgId, incoming)
        BY <1>1 DEF incoming
      <3>2. Continues(f.incomingMsgId, Tail(incoming))
        BY <1>1, <1>2, <1>10, <1>11, <3>1, ContinuesTail DEF m
      <3> QED BY <1>1, <1>12, <2>1, <3>2
    <2>2. CASE t # s
      <3>1. Continues(f.incomingMsgId, pipe[t][o])
        BY <1>1, <1>10, ContinuesGrown
      <3> QED BY <1>1, <1>12, <2>2, <3>1
    <2> QED BY <2>1, <2>2
  <1>14. g.socket \notin closed =>
            Flows(f.incomingMsgId, pipe'[g.socket][o], g)
    <2> SUFFICES ASSUME g.socket \notin closed
                 PROVE  Flows(f.incomingMsgId, pipe'[g.socket][o], g)
      OBVIOUS
    <2>1. Flows(e.incomingMsgId, pipe[g.socket][o], g)
      BY <1>1
    <2>2. CASE g.socket # s
      <3>1. pipe[g.socket][o] \in Seq(Message)
        BY <1>1
      <3>2. Flows(f.incomingMsgId, pipe[g.socket][o], g)
        BY <1>1, <1>10, <2>1, <3>1, FlowsGrown
      <3> QED BY <1>1, <1>12, <2>2, <3>2
    <2>3. CASE g.socket = s
      <3>1. incoming \in Seq(Message) /\ Flows(e.incomingMsgId, incoming, g)
        BY <1>1, <2>1, <2>3 DEF incoming
      <3>2. Flows(f.incomingMsgId, Tail(incoming), g)
        BY <1>1, <1>2, <1>10, <1>11, <3>1, FlowsRead DEF m
      <3> QED BY <1>1, <1>12, <2>3, <3>2
    <2> QED BY <2>2, <2>3
  <1>15. \A t \in Socket : Continues(b, pipe'[t][p])
    BY <1>1, <1>12
  <1>16. f.socket \notin closed' => Flows(b, pipe'[f.socket][p], f)
    BY <1>1, <1>2, <1>8, <1>9, <1>12
  <1>17. ep' = [ep EXCEPT ![p] = f]
    BY <1>3 DEF f
  <1> QED BY <1>2, <1>5, <1>13, <1>14, <1>15, <1>16, <1>17, GapFreeBoth DEF b, g, o

(* A replaced socket and the writer on it are over: what the socket still  *)
(* carries is a part from the front, and the new writer is empty.          *)
LEMMA GapBegin ==
  ASSUME IInv, GapFree, NEW p \in Peer, NEW s \in Socket, BeginAcceptReconnection(p, s)
  PROVE  GapFree'
  <1> DEFINE e == ep[p]
             o == Other(p)
             b == ep[o].incomingMsgId
             old == e.socket
             x == pipe[old][p]
             ms == IF e.disposed THEN <<>> ELSE Flushable(e)
             outgoing == Transmit(p, ms)[old][p]
             f == Rebind(e, s)
  <1>1. /\ EndInv(e) /\ old \in Socket /\ ep[o].socket \in Socket
        /\ e.incomingMsgId \in Nat /\ b \in Nat /\ o \in Peer /\ o # p
        /\ \A t \in Socket, r \in Peer : pipe[t][r] \in Seq(Message)
        /\ \A t \in Socket : Continues(b, pipe[t][p])
        /\ \A t \in Socket : Continues(e.incomingMsgId, pipe[t][o])
        /\ old \notin closed => Flows(b, x, e)
        /\ ep[o].socket \notin closed =>
              Flows(e.incomingMsgId, pipe[ep[o].socket][o], ep[o])
    BY GapFacts
  <1>2. ep' = [ep EXCEPT ![p] = f] /\ closed' = closed \cup {old}
    BY DEF BeginAcceptReconnection, Update
  <1>3. PICK n \in 0 .. Len(outgoing) :
          pipe' = [pipe EXCEPT ![old][p] = SubSeq(outgoing, 1, n), ![old][o] = <<>>]
    BY DEF BeginAcceptReconnection
  <1>4. /\ pipe \in [Socket -> [Peer -> Seq(Message)]] /\ ep \in [Peer -> Endpoint]
        /\ Peer = {p, o}
    BY PeerFacts DEF IInv, GoodPipes
  <1>5. f.socket = s /\ f.data = <<>> /\ f.isReconnecting = TRUE
        /\ f.incomingMsgId = e.incomingMsgId
    BY <1>1 DEF Rebind, EndInv, Endpoint
  <1>6. outgoing \in Seq(Message) /\ Continues(b, outgoing)
    <2>1. x \in Seq(Message) /\ Continues(b, x)
      BY <1>1
    <2>2. CASE old \in closed
      <3>1. outgoing = x
        BY <2>2 DEF Transmit
      <3> QED BY <2>1, <3>1
    <2>3. CASE old \notin closed
      <3>1. outgoing = x \o ms
        BY <1>1, <1>4, <2>3 DEF Transmit
      <3>2. /\ Flushable(e) \in Seq(Message)
            /\ Continues(b, x \o Flushable(e))
        BY <1>1, <2>1, <2>3, FlushedFlows
      <3>3. x \o <<>> = x /\ <<>> \in Seq(Message)
        BY <2>1
      <3>4. ms = <<>> \/ ms = Flushable(e)
        OBVIOUS
      <3> HIDE DEF ms, x, outgoing
      <3>5. Continues(b, outgoing)
        BY <2>1, <3>1, <3>2, <3>3, <3>4
      <3>6. ms \in Seq(Message)
        BY <3>2, <3>3, <3>4
      <3>7. outgoing \in Seq(Message)
        BY <2>1, <3>1, <3>6, JoinedElements
      <3> QED BY <3>5, <3>7
    <2> QED BY <2>2, <2>3
  <1> HIDE DEF e, o, b, old, x, ms, outgoing, f
  <1>7. \A t \in Socket, r \in Peer :
            pipe'[t][r] = IF t = old
                          THEN IF r = p THEN SubSeq(outgoing, 1, n) ELSE <<>>
                          ELSE pipe[t][r]
    BY <1>1, <1>3, <1>4
  <1>8. \A t \in Socket : Continues(b, pipe'[t][p])
    <2> SUFFICES ASSUME NEW t \in Socket PROVE Continues(b, pipe'[t][p])
      OBVIOUS
    <2>1. CASE t = old
      <3>1. Continues(b, SubSeq(outgoing, 1, n))
        BY <1>1, <1>6, ContinuesPrefix
      <3> QED BY <1>7, <2>1, <3>1
    <2>2. CASE t # old
      BY <1>1, <1>7, <2>2
    <2> QED BY <2>1, <2>2
  <1>9. Flows(b, pipe'[s][p], f)
    <2>1. pipe'[s][p] \in Seq(Message)
      <3>1. SubSeq(outgoing, 1, n) \in Seq(Message)
        BY <1>6, PrefixProperties
      <3> QED BY <1>1, <1>7, <3>1
    <2>2. pipe'[s][p] \o f.data = pipe'[s][p]
      BY <1>5, <2>1
    <2> QED BY <1>5, <1>8, <2>2 DEF Flows, Writing
  <1>10. \A t \in Socket : Continues(f.incomingMsgId, pipe'[t][o])
    <2>1. Continues(e.incomingMsgId, <<>>)
      BY DEF Continues
    <2> QED BY <1>1, <1>5, <1>7, <2>1
  <1>11. ep[o].socket \notin closed' =>
            Flows(f.incomingMsgId, pipe'[ep[o].socket][o], ep[o])
    BY <1>1, <1>2, <1>5, <1>7
  <1> QED BY <1>2, <1>4, <1>5, <1>8, <1>9, <1>10, <1>11, GapFreeBoth DEF b, o

(* A network that closes a socket leaves a part from the front.            *)
LEMMA GapClose ==
  ASSUME IInv, GapFree, NEW s \in Socket, CloseSocket(s)
  PROVE  GapFree'
  <1> DEFINE c == pipe[s]["client"]
             d == pipe[s]["server"]
  <1>1. PICK n \in 0 .. Len(c), k \in 0 .. Len(d) :
           pipe' = [pipe EXCEPT ![s]["client"] = SubSeq(c, 1, n),
                                ![s]["server"] = SubSeq(d, 1, k)]
    BY DEF CloseSocket
  <1>2. ep' = ep /\ closed' = closed \cup {s}
    BY DEF CloseSocket
  <1>3. /\ pipe \in [Socket -> [Peer -> Seq(Message)]] /\ Peer = {"client", "server"}
    BY DEF IInv, GoodPipes, Peer
  <1>4. \A t \in Socket, r \in Peer :
           pipe'[t][r] = IF t # s THEN pipe[t][r]
                         ELSE IF r = "client" THEN SubSeq(c, 1, n) ELSE SubSeq(d, 1, k)
    BY <1>1, <1>3
  <1> SUFFICES ASSUME NEW p \in Peer
               PROVE  LET b == ep[Other(p)].incomingMsgId
                          t == ep[p].socket
                      IN  /\ \A u \in Socket : Continues(b, pipe'[u][p])
                          /\ t \notin closed' => Flows(b, pipe'[t][p], ep[p])
    BY <1>2 DEF GapFree
  <1> DEFINE b == ep[Other(p)].incomingMsgId
             t == ep[p].socket
  <1>5. /\ b \in Nat /\ t \in Socket /\ pipe[s][p] \in Seq(Message)
        /\ \A u \in Socket : Continues(b, pipe[u][p])
        /\ t \notin closed => Flows(b, pipe[t][p], ep[p])
    BY GapFacts
  <1>6. \A j \in 0 .. Len(pipe[s][p]) : Continues(b, SubSeq(pipe[s][p], 1, j))
    BY <1>5, ContinuesPrefix
  <1> HIDE DEF b
  <1>7. \A u \in Socket : Continues(b, pipe'[u][p])
    <2> SUFFICES ASSUME NEW u \in Socket PROVE Continues(b, pipe'[u][p])
      OBVIOUS
    <2>1. CASE u # s
      BY <1>4, <1>5, <2>1
    <2>2. CASE u = s /\ p = "client"
      BY <1>4, <1>6, <2>2
    <2>3. CASE u = s /\ p = "server"
      BY <1>4, <1>6, <2>3
    <2> QED BY <1>3, <2>1, <2>2, <2>3
  <1>8. t \notin closed' => Flows(b, pipe'[t][p], ep[p])
    BY <1>2, <1>4, <1>5
  <1> QED BY <1>7, <1>8 DEF b

LEMMA GapInit == Init => GapFree
  <1> SUFFICES ASSUME Init, NEW p \in Peer
               PROVE  LET b == ep[Other(p)].incomingMsgId
                          s == ep[p].socket
                      IN  /\ \A t \in Socket : Continues(b, pipe[t][p])
                          /\ s \notin closed => Flows(b, pipe[s][p], ep[p])
    BY DEF GapFree
  <1>1. /\ ep[p] = Constructed(FirstSocket) /\ ep[Other(p)] = Constructed(FirstSocket)
        /\ \A t \in Socket : pipe[t][p] = <<>>
    BY PeerFacts DEF Init
  <1>2. \A b : Continues(b, <<>>)
    BY DEF Continues
  <1>3. <<>> \o <<>> = <<>>
    OBVIOUS
  <1>4. ep[p].data = <<>> /\ ep[p].outgoingMsgId = 0 /\ ep[Other(p)].incomingMsgId = 0
        /\ ep[p].socket \in Socket
    BY <1>1, SocketAssumption DEF Constructed
  <1> QED BY <1>1, <1>2, <1>3, <1>4 DEF Flows

LEMMA GapNext ==
  ASSUME ~Lossy, IInv, GapFree, [Next]_vars
  PROVE  GapFree'
  <1>1. ASSUME NEW p \in Peer, PeerStep(p)
        PROVE  GapFree'
    <2>1. CASE \/ Send(p) \/ SendControl(p) \/ SendPause(p) \/ SendResume(p)
               \/ PauseSocketWriting(p) \/ ReplayWindowElapses(p) \/ AcceptDisconnect(p)
               \/ IncomingAckTimer(p) \/ OutgoingAckTimer(p) \/ EndAcceptReconnection(p)
      BY <2>1, GapWriteSteps
    <2>2. CASE WriteNow(p) \/ SendDisconnect(p) \/ Dispose(p)
      BY <2>2, GapFlushSteps
    <2>3. CASE Receive(p)
      BY <2>3, GapReceive
    <2>4. CASE \E s \in Socket : BeginAcceptReconnection(p, s)
      BY <2>4, GapBegin
    <2> QED BY <1>1, <2>1, <2>2, <2>3, <2>4 DEF PeerStep
  <1>2. CASE NetworkStep
    BY <1>2, GapClose DEF NetworkStep, TakeAway
  <1>3. CASE UNCHANGED vars
    BY <1>3 DEF vars, GapFree, Flows, Writing
  <1> QED BY <1>1, <1>2, <1>3 DEF Next

(* As long as nobody else takes messages off a socket, the Regular         *)
(* messages on their way to an end continue what it has without a gap,     *)
(* whatever a reconnection suppressed and whatever was lost with the       *)
(* sockets before (_isReconnecting, endAcceptReconnection).                *)
THEOREM LeavesNoGap ==
  ASSUME ~Lossy
  PROVE  Spec => []NoGap
  <1>1. IInv /\ GapFree => NoGap
    <2> SUFFICES ASSUME IInv, GapFree, NEW p \in Peer
                 PROVE  LET q == Other(p)
                            s == ep[q].socket
                            stream == pipe[s][p] \o
                                        (IF ep[p].socket = s /\ s \notin closed
                                         THEN ep[p].data ELSE <<>>)
                        IN  Continues(ep[q].incomingMsgId, stream)
      BY DEF NoGap, Continues
    <2> DEFINE q == Other(p)
               s == ep[q].socket
               b == ep[q].incomingMsgId
    <2>1. /\ s \in Socket /\ pipe[s][p] \in Seq(Message) /\ Continues(b, pipe[s][p])
          /\ ep[p].socket \notin closed => Flows(b, pipe[ep[p].socket][p], ep[p])
      BY GapFacts
    <2>2. pipe[s][p] \o <<>> = pipe[s][p]
      BY <2>1
    <2> HIDE DEF b, s
    <2>3. CASE ep[p].socket = s /\ s \notin closed
      BY <2>1, <2>3 DEF Flows, b, s
    <2>4. CASE ~(ep[p].socket = s /\ s \notin closed)
      BY <2>1, <2>2, <2>4 DEF b, s
    <2> QED BY <2>3, <2>4
  <1>2. Init => IInv /\ GapFree
    BY InitInv, GapInit
  <1>3. IInv /\ GapFree /\ [Next]_vars => (IInv /\ GapFree)'
    BY NextInv, GapNext
  <1> QED BY <1>1, <1>2, <1>3, PTL DEF Spec

=============================================================================
