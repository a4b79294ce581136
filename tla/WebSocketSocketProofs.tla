------------------------ MODULE WebSocketSocketProofs ------------------------
(***************************************************************************)
(* The safety properties of WebSocketSocket, for any number of messages    *)
(* and any high water mark: both ends hand over what was sent in order,    *)
(* once and readable, a fulfilled drain means written, and dispose waits   *)
(* for the write queue.                                                    *)
(*                                                                         *)
(* The invariant follows a message through all the places where it can     *)
(* be.  To the browser these are the write queue, node's buffer, the       *)
(* kernel, the queue of blobs and what was handed over; to the node end    *)
(* the wire, the read queue and what was handed over.                      *)
(***************************************************************************)
EXTENDS WebSocketSocket, SequenceTheorems, TLAPS

(* The way to the node end.                                                *)
Is(frame, k) == <<frame.msg, frame.part>> = parts[k]
Accepted == Len(node.got) + Len(node.readQueue)

HandedOver ==
    /\ Len(node.got) <= Len(parts)
    /\ \A k \in DOMAIN node.got : node.got[k].readable /\ Is(node.got[k], k)

OnTheWay ==
    ~node.disposed =>
        /\ Accepted + Len(toNode) <= Len(parts)
        /\ ~cut => Accepted + Len(toNode) = Len(parts)
        /\ \A k \in DOMAIN node.readQueue :
              /\ Is(node.readQueue[k].frame, Len(node.got) + k)
              /\ node.readQueue[k].frame.deflated = ToInflate(node.readQueue[k])
        /\ \A k \in DOMAIN toNode : Is(toNode[k], Accepted + k)

(* The first frame of a message says whether it is deflated, the others    *)
(* are as the one before; a message is sent with all its frames.           *)
Starts(k) == IF k = 1 THEN node.first ELSE toNode[k - 1].fin
Frames ==
    /\ \A k \in DOMAIN toNode :
          /\ toNode[k].deflated => node.deflate
          /\ Starts(k) => toNode[k].rsv1 = toNode[k].deflated
          /\ ~Starts(k) => toNode[k].deflated =
                              IF k = 1 THEN node.compressed ELSE toNode[k - 1].deflated
    /\ ~cut => Starts(Len(toNode) + 1)

(* The way to the browser: the messages are numbered, so what is on it     *)
(* counts on from one place to the next.                                   *)
Run(s, base) == \A k \in DOMAIN s : s[k] = base + k
Above(s, low) == \A k \in DOMAIN s : s[k] > low

Arrived == Len(browser.got) + Len(browser.blobs)
Taken == Arrived + Len(toBrowser)

Ordered ==
    /\ Run(browser.got, 0)
    /\ Run(browser.blobs, Len(browser.got))
    /\ Run(toBrowser, Arrived)

Waiting ==
    ~Destroyed /\ ~cut =>
        /\ Run(buffer, Taken)
        /\ ~node.ended =>
              /\ node.written = Taken + Len(buffer) + Len(node.queue)
              /\ Run(node.queue, Taken + Len(buffer))

Written ==
    /\ node.mark <= node.written
    /\ ~node.deflate => node.queue = <<>>
    /\ node.drain \in {"turn", "socket", "done"} => Above(node.queue, node.mark)
    /\ node.drain = "done" /\ ~Destroyed /\ ~node.ended /\ ~node.halfClosed
          => Above(buffer, node.mark)

ReadSide == HandedOver /\ OnTheWay /\ Frames
WriteSide == Ordered /\ Waiting /\ Written
IInv == TypeOK /\ ReadSide /\ WriteSide /\ DisposeWaits

-----------------------------------------------------------------------------
(* Sequences.                                                              *)

LEMMA Added ==
  ASSUME NEW S, NEW s \in Seq(S), NEW e \in S
  PROVE  LET t == Append(s, e)
         IN  /\ t \in Seq(S) /\ Len(t) = Len(s) + 1 /\ t # <<>>
             /\ DOMAIN t = 1 .. Len(s) + 1
             /\ \A k \in DOMAIN s : t[k] = s[k]
             /\ t[Len(s) + 1] = e
  BY AppendProperties, LenProperties

LEMMA Removed ==
  ASSUME NEW S, NEW s \in Seq(S), s # <<>>
  PROVE  LET t == Tail(s)
         IN  /\ t \in Seq(S) /\ Len(t) = Len(s) - 1 /\ Len(s) >= 1
             /\ DOMAIN t = 1 .. Len(s) - 1
             /\ \A k \in DOMAIN t : t[k] = s[k + 1]
             /\ Head(s) \in S /\ Head(s) = s[1]
  BY HeadTailProperties, LenProperties, EmptySeq

LEMMA Runs ==
  ASSUME NEW s \in Seq(Message), NEW base \in Nat, Run(s, base)
  PROVE  /\ \A e \in Message : e = base + Len(s) + 1 => Run(Append(s, e), base)
         /\ s # <<>> => Head(s) = base + 1 /\ Run(Tail(s), base + 1)
  <1>0. Len(s) \in Nat /\ DOMAIN s = 1 .. Len(s)
    BY LenProperties
  <1>1. ASSUME NEW e \in Message, e = base + Len(s) + 1
        PROVE  Run(Append(s, e), base)
    <2> DEFINE t == Append(s, e)
    <2>1. /\ DOMAIN t = 1 .. Len(s) + 1 /\ t[Len(s) + 1] = e
          /\ \A k \in DOMAIN s : t[k] = s[k]
      BY Added
    <2> HIDE DEF t
    <2>2. Run(t, base)
      BY <1>0, <1>1, <2>1 DEF Run
    <2> QED BY <2>2 DEF t
  <1>2. ASSUME s # <<>>
        PROVE  Head(s) = base + 1 /\ Run(Tail(s), base + 1)
    <2> DEFINE t == Tail(s)
    <2>1. /\ DOMAIN t = 1 .. Len(s) - 1 /\ \A k \in DOMAIN t : t[k] = s[k + 1]
          /\ Head(s) = s[1] /\ Len(s) >= 1
      BY <1>2, Removed
    <2> HIDE DEF t
    <2>2. Head(s) = base + 1
      BY <1>0, <2>1 DEF Run
    <2>3. ASSUME NEW k \in DOMAIN t
          PROVE  t[k] = base + 1 + k
      <3>1. k \in Nat /\ k + 1 \in DOMAIN s /\ t[k] = s[k + 1]
        BY <1>0, <2>1
      <3>2. s[k + 1] = base + (k + 1)
        BY <3>1 DEF Run
      <3> QED BY <3>1, <3>2
    <2>4. Run(t, base + 1)
      BY <2>3 DEF Run
    <2> QED BY <2>2, <2>4 DEF t
  <1> QED BY <1>1, <1>2

LEMMA Aboves ==
  ASSUME NEW s \in Seq(Message), NEW low \in Nat, Above(s, low)
  PROVE  /\ \A e \in Message : e > low => Above(Append(s, e), low)
         /\ s # <<>> => Head(s) > low /\ Above(Tail(s), low)
  <1>0. Len(s) \in Nat /\ DOMAIN s = 1 .. Len(s)
    BY LenProperties
  <1>1. ASSUME NEW e \in Message, e > low
        PROVE  Above(Append(s, e), low)
    <2> DEFINE t == Append(s, e)
    <2>1. /\ DOMAIN t = 1 .. Len(s) + 1 /\ t[Len(s) + 1] = e
          /\ \A k \in DOMAIN s : t[k] = s[k]
      BY Added
    <2> HIDE DEF t
    <2>2. Above(t, low)
      BY <1>0, <1>1, <2>1 DEF Above
    <2> QED BY <2>2 DEF t
  <1>2. ASSUME s # <<>>
        PROVE  Head(s) > low /\ Above(Tail(s), low)
    <2> DEFINE t == Tail(s)
    <2>1. /\ DOMAIN t = 1 .. Len(s) - 1 /\ \A k \in DOMAIN t : t[k] = s[k + 1]
          /\ Head(s) = s[1] /\ Len(s) >= 1
      BY <1>2, Removed
    <2> HIDE DEF t
    <2>2. Above(t, low) /\ Head(s) > low
      BY <1>0, <2>1 DEF Above
    <2> QED BY <2>2 DEF t
  <1> QED BY <1>1, <1>2

LEMMA Empty ==
  ASSUME NEW n
  PROVE  Run(<<>>, n) /\ Above(<<>>, n) /\ Len(<<>>) = 0
  BY DEF Run, Above

LEMMA Fields ==
  ASSUME TypeOK
  PROVE  /\ node.queue \in Seq(Message) /\ buffer \in Seq(Message)
         /\ toBrowser \in Seq(Message)
         /\ browser.got \in Seq(Message) /\ browser.blobs \in Seq(Message)
         /\ node.readQueue \in Seq(Queued) /\ node.got \in Seq(Data)
         /\ toNode \in Seq(Frame)
  BY DEF TypeOK, Node, Browser

LEMMA SumNat ==
  ASSUME NEW a \in Nat, NEW b \in Nat
  PROVE  a + b \in Nat
  OBVIOUS

LEMMA SumRegroup ==
  ASSUME NEW a \in Nat, NEW b \in Nat, NEW k \in Nat
  PROVE  a + (b + k) = (a + b) + k /\ a + (k + b) = (a + k) + b /\ (a + b) + k = (a + k) + b
  OBVIOUS

LEMMA SumNext ==
  ASSUME NEW a \in Nat, NEW b \in Nat
  PROVE  a + (b + 1) = (a + b) + 1
  OBVIOUS

LEMMA Numbers ==
  ASSUME TypeOK
  PROVE  /\ node.written \in Nat /\ node.mark \in Nat
         /\ Len(node.queue) \in Nat /\ Len(buffer) \in Nat /\ Len(toBrowser) \in Nat
         /\ Len(browser.got) \in Nat /\ Len(browser.blobs) \in Nat
         /\ Arrived \in Nat /\ Taken \in Nat
         /\ Len(node.readQueue) \in Nat /\ Len(node.got) \in Nat /\ Accepted \in Nat
         /\ Len(toNode) \in Nat /\ Len(parts) \in Nat
  <1>1. node.written \in Nat /\ node.mark \in Nat
    BY BoundAssumption DEF TypeOK, Node
  <1>2. /\ Len(node.queue) \in Nat /\ Len(buffer) \in Nat /\ Len(toBrowser) \in Nat
        /\ Len(browser.got) \in Nat /\ Len(browser.blobs) \in Nat
        /\ Len(node.readQueue) \in Nat /\ Len(node.got) \in Nat
        /\ Len(toNode) \in Nat
    BY Fields, LenProperties
  <1>3. Len(parts) \in Nat
    <2>1. parts \in Seq(Message \X {1, 2})
      BY DEF TypeOK
    <2> QED BY <2>1, LenProperties
  <1>4. Arrived \in Nat
    BY <1>2, SumNat DEF Arrived
  <1>5. Taken \in Nat
    BY <1>2, <1>4 DEF Taken
  <1>6. Accepted \in Nat
    BY <1>2, SumNat DEF Accepted
  <1> QED BY <1>1, <1>2, <1>3, <1>4, <1>5, <1>6

-----------------------------------------------------------------------------
(* What the actions of one direction leave alone.                          *)

ReadFields(n) == <<n.deflate, n.readQueue, n.inflating, n.compressed, n.first, n.got>>
WriteFields(n) ==
    <<n.deflate, n.written, n.queue, n.processing, n.ended, n.disposing, n.disposed,
      n.drain, n.mark, n.halfClosed>>

LEMMA ReadSame ==
  ASSUME ReadSide, ReadFields(node') = ReadFields(node), node.disposed => node'.disposed,
         UNCHANGED <<toNode, parts, cut>>
  PROVE  ReadSide'
  <1>1. /\ node'.deflate = node.deflate /\ node'.readQueue = node.readQueue
        /\ node'.compressed = node.compressed /\ node'.first = node.first
        /\ node'.got = node.got
    BY DEF ReadFields
  <1>2. HandedOver'
    BY <1>1 DEF ReadSide, HandedOver, Is
  <1>3. OnTheWay'
    BY <1>1 DEF ReadSide, OnTheWay, Is, Accepted, ToInflate
  <1>4. Frames'
    BY <1>1 DEF ReadSide, Frames, Starts
  <1> QED BY <1>2, <1>3, <1>4 DEF ReadSide

LEMMA WriteSame ==
  ASSUME WriteSide, WriteFields(node') = WriteFields(node), node.closed => node'.closed,
         UNCHANGED <<buffer, toBrowser, cut>>,
         browser'.got = browser.got, browser'.blobs = browser.blobs
  PROVE  WriteSide'
  <1>1. /\ node'.deflate = node.deflate /\ node'.queue = node.queue
        /\ node'.written = node.written /\ node'.ended = node.ended
        /\ node'.disposed = node.disposed /\ node'.drain = node.drain
        /\ node'.mark = node.mark /\ node'.halfClosed = node.halfClosed
    BY DEF WriteFields
  <1>2. Ordered'
    BY DEF WriteSide, Ordered, Arrived
  <1>3. Waiting'
    BY <1>1 DEF WriteSide, Waiting, Taken, Arrived, Destroyed
  <1>4. Written'
    BY <1>1 DEF WriteSide, Written, Destroyed
  <1> QED BY <1>2, <1>3, <1>4 DEF WriteSide

LEMMA InitIInv == Init => IInv
  <1> SUFFICES ASSUME Init PROVE IInv
    OBVIOUS
  <1> USE BoundAssumption
  <1>1. TypeOK
    <2>1. PICK deflate \in BOOLEAN :
             node = [deflate |-> deflate, written |-> 0, queue |-> <<>>, processing |-> FALSE,
                     ended |-> FALSE, disposing |-> FALSE, disposed |-> FALSE,
                     drain |-> "no", mark |-> 0, readQueue |-> <<>>, inflating |-> FALSE,
                     compressed |-> FALSE, first |-> TRUE, got |-> <<>>,
                     halfClosed |-> FALSE, closed |-> FALSE]
      BY DEF Init
    <2>2. \A S : <<>> \in Seq(S)
      BY EmptySeq
    <2>3. node \in Node
      BY <2>1, <2>2 DEF Node
    <2>4. browser \in Browser
      BY <2>2 DEF Init, Browser
    <2> QED BY <2>1, <2>2, <2>3, <2>4 DEF Init, TypeOK
  <1>2. ReadSide
    BY DEF Init, ReadSide, HandedOver, OnTheWay, Frames, Starts, Accepted
  <1>3. WriteSide
    BY Empty DEF Init, WriteSide, Ordered, Waiting, Written, Taken, Arrived
  <1>4. DisposeWaits
    BY DEF Init, DisposeWaits
  <1> QED BY <1>1, <1>2, <1>3, <1>4 DEF IInv

-----------------------------------------------------------------------------
(* The node end, writing.                                                  *)

(* A message that is written to the socket goes to the kernel, into the    *)
(* buffer or nowhere; rest is what is still to be deflated then.           *)
LEMMA SocketWriteKeeps ==
  ASSUME TypeOK, Ordered, UNCHANGED <<browser, cut>>,
         NEW m \in Message, SocketWrite(m), NEW rest \in Seq(Message), NEW written \in Nat,
         ~Destroyed /\ ~cut =>
            /\ Run(buffer, Taken)
            /\ ~node.ended => /\ m = Taken + Len(buffer) + 1
                              /\ written = Taken + Len(buffer) + 1 + Len(rest)
                              /\ Run(rest, Taken + Len(buffer) + 1)
  PROVE  /\ buffer' \in Seq(Message) /\ toBrowser' \in Seq(Message) /\ needDrain' \in BOOLEAN
         /\ Ordered'
         /\ ~Destroyed /\ ~cut =>
               /\ Run(buffer', Taken')
               /\ ~node.ended => /\ written = Taken' + Len(buffer') + Len(rest)
                                 /\ Run(rest, Taken' + Len(buffer'))
         /\ \A low \in Nat : m > low /\ Above(buffer, low) => Above(buffer', low)
  <1>0. /\ buffer \in Seq(Message) /\ toBrowser \in Seq(Message) /\ needDrain \in BOOLEAN
        /\ Arrived \in Nat /\ Taken \in Nat /\ Len(buffer) \in Nat /\ Len(toBrowser) \in Nat
        /\ Len(rest) \in Nat
    BY Fields, Numbers, LenProperties DEF TypeOK
  <1>1. Arrived' = Arrived
    BY DEF Arrived
  <1>2. CASE UNCHANGED <<buffer, needDrain, toBrowser>> /\ (node.ended \/ Destroyed)
    BY <1>0, <1>1, <1>2 DEF Ordered, Taken
  <1>3. CASE /\ ~node.ended /\ ~Destroyed /\ ~cut /\ buffer = <<>>
             /\ toBrowser' = Append(toBrowser, m)
             /\ UNCHANGED <<buffer, needDrain>>
    <2>1. m = Taken + 1 /\ Len(buffer) = 0
      BY <1>0, <1>3
    <2>2. toBrowser' \in Seq(Message) /\ Len(toBrowser') = Len(toBrowser) + 1
      BY <1>0, <1>3, Added
    <2>3. Run(toBrowser', Arrived)
      BY <1>0, <1>3, <2>1, Runs DEF Ordered, Taken
    <2>4. Taken' = Taken + 1
      BY <1>0, <1>1, <2>2 DEF Taken
    <2>5. Run(buffer', Taken')
      BY <1>3, Empty
    <2> QED BY <1>0, <1>1, <1>3, <2>1, <2>2, <2>3, <2>4, <2>5 DEF Ordered
  <1>4. CASE /\ ~node.ended /\ ~Destroyed
             /\ buffer' = Append(buffer, m)
             /\ needDrain' = (needDrain \/ Len(buffer) + 1 >= HighWaterMark)
             /\ UNCHANGED toBrowser
    <2>1. buffer' \in Seq(Message) /\ Len(buffer') = Len(buffer) + 1
      BY <1>0, <1>4, Added
    <2>2. Taken' = Taken
      BY <1>1, <1>4 DEF Taken
    <2>3. ~cut => Run(buffer', Taken)
      BY <1>0, <1>4, Runs
    <2>4. \A low \in Nat : m > low /\ Above(buffer, low) => Above(buffer', low)
      BY <1>0, <1>4, Aboves
    <2>5. Ordered'
      BY <1>1, <1>4 DEF Ordered
    <2>6. needDrain' \in BOOLEAN
      BY <1>4
    <2> QED BY <1>0, <1>4, <2>1, <2>2, <2>3, <2>4, <2>5, <2>6
  <1> QED BY <1>2, <1>3, <1>4 DEF SocketWrite

LEMMA WriteKeeps == IInv /\ Write => IInv'
  <1> SUFFICES ASSUME IInv, Write PROVE IInv'
    OBVIOUS
  <1> DEFINE m == node.written + 1
  <1>0. TypeOK /\ node \in Node /\ ReadSide /\ Ordered /\ Waiting /\ Written
    BY DEF IInv, TypeOK, WriteSide
  <1>1. /\ m \in Message /\ m \in 0 .. MaxMessages
        /\ ~node.disposing /\ ~node.disposed
        /\ UNCHANGED <<browser, toNode, parts, cut>>
    BY SMTT(20), <1>0, BoundAssumption DEF Write, More, Message, Node, Browser, TypeOK
  <1>2. CASE /\ node.deflate
             /\ node' = [node EXCEPT !.written = m, !.queue = Append(@, m),
                                     !.processing = TRUE]
             /\ UNCHANGED <<buffer, needDrain, toBrowser>>
    <2> DEFINE q == Append(node.queue, m)
    <2>1. q \in Seq(Message) /\ Len(q) = Len(node.queue) + 1 /\ q # <<>>
      <3>1. node.queue \in Seq(Message) /\ m \in Message
        BY <1>0, <1>1, Fields
      <3> HIDE DEF m
      <3> QED BY <3>1, Added
    <2>2. \A base \in Nat : Run(node.queue, base) /\ m = base + Len(node.queue) + 1
                                => Run(q, base)
      BY <1>0, <1>1, Fields, Runs
    <2>3. Above(node.queue, node.mark) => Above(q, node.mark)
      BY SMTT(20), <1>0, <1>1, Fields, Numbers, Aboves DEF Written
    <2> HIDE DEF q
    <2>4. node' = [node EXCEPT !.written = m, !.queue = q, !.processing = TRUE]
      BY <1>2 DEF q
    <2>5. /\ node' \in Node
          /\ ReadFields(node') = ReadFields(node)
          /\ node'.disposed = node.disposed /\ node'.closed = node.closed
          /\ node'.halfClosed = node.halfClosed
          /\ node'.ended = node.ended /\ node'.deflate = node.deflate
          /\ node'.mark = node.mark /\ node'.drain = node.drain
          /\ node'.written = m /\ node'.queue = q /\ node'.processing
          /\ node'.inflating = node.inflating /\ node'.readQueue = node.readQueue
      BY <1>0, <1>1, <2>1, <2>4 DEF Node, ReadFields
    <2>6. TypeOK'
      BY <1>0, <1>1, <1>2, <2>1, <2>5 DEF TypeOK
    <2>7. ReadSide'
      BY <1>0, <1>1, <2>5, ReadSame
    <2>8. Ordered'
      BY <1>0, <1>1, <1>2 DEF Ordered, Arrived
    <2>9. Waiting'
      <3>1. Taken' = Taken /\ Taken \in Nat /\ Len(buffer) \in Nat /\ Len(node.queue) \in Nat
        BY <1>0, <1>1, <1>2, Numbers DEF Taken, Arrived
      <3>2. /\ Destroyed' = Destroyed /\ cut' = cut /\ buffer' = buffer
            /\ node'.ended = node.ended /\ node'.queue = q
            /\ node'.written = node.written + 1 /\ node.written \in Nat
        BY <1>0, <1>1, <1>2, <2>5, Numbers DEF Destroyed
      <3>3. ASSUME ~Destroyed, ~cut, ~node.ended
            PROVE  /\ node.written + 1 = Taken + Len(buffer) + Len(q)
                   /\ Run(q, Taken + Len(buffer))
        <4>1. /\ node.written = Taken + Len(buffer) + Len(node.queue)
              /\ Run(node.queue, Taken + Len(buffer))
          BY <1>0, <3>3 DEF Waiting
        <4> QED BY <2>1, <2>2, <3>1, <3>2, <4>1
      <3> QED BY <1>0, <3>1, <3>2, <3>3 DEF Waiting
    <2>10. Written'
      <3>1. node.mark \in Nat /\ node.written \in Nat /\ Destroyed' = Destroyed
        BY <1>0, <2>5, Numbers DEF Destroyed
      <3>2. node'.mark <= node'.written
        BY <1>0, <2>5, <3>1 DEF Written
      <3>3. node'.drain \in {"turn", "socket", "done"} => Above(node'.queue, node'.mark)
        BY <1>0, <2>3, <2>5 DEF Written
      <3> QED BY <1>0, <1>2, <2>5, <3>1, <3>2, <3>3 DEF Written
    <2>11. DisposeWaits'
      BY <1>1, <2>5 DEF DisposeWaits
    <2> QED BY <2>6, <2>7, <2>8, <2>9, <2>10, <2>11 DEF IInv, WriteSide
  <1>3. CASE /\ ~node.deflate
             /\ node' = [node EXCEPT !.written = m]
             /\ SocketWrite(m)
    <2>1. /\ node' \in Node
          /\ ReadFields(node') = ReadFields(node)
          /\ node'.disposed = node.disposed /\ node'.closed = node.closed
          /\ node'.halfClosed = node.halfClosed
          /\ node'.ended = node.ended /\ node'.deflate = node.deflate
          /\ node'.mark = node.mark /\ node'.drain = node.drain
          /\ node'.written = m /\ node'.queue = node.queue
          /\ node'.processing = node.processing
          /\ node'.inflating = node.inflating /\ node'.readQueue = node.readQueue
      BY <1>0, <1>1, <1>3 DEF Node, ReadFields
    <2>2. node.queue = <<>> /\ node.queue \in Seq(Message) /\ Len(node.queue) = 0
      BY <1>0, <1>3, Fields, Empty DEF Written
    <2>3. ~Destroyed /\ ~cut /\ ~node.ended => m = Taken + Len(buffer) + 1
      BY <1>0, <2>2, Numbers DEF Waiting
    <2>4. /\ buffer' \in Seq(Message) /\ toBrowser' \in Seq(Message)
          /\ needDrain' \in BOOLEAN /\ Ordered'
          /\ ~Destroyed /\ ~cut =>
                /\ Run(buffer', Taken')
                /\ ~node.ended => m = Taken' + Len(buffer') + Len(node.queue)
          /\ \A low \in Nat : m > low /\ Above(buffer, low) => Above(buffer', low)
      <3>1. ~Destroyed /\ ~cut => Run(buffer, Taken)
        BY <1>0 DEF Waiting
      <3>2. Taken + Len(buffer) \in Nat
        BY SMTT(20), <1>0, Numbers
      <3>3. /\ m \in Nat
            /\ ~Destroyed /\ ~cut /\ ~node.ended =>
                  /\ m = Taken + Len(buffer) + 1 + Len(node.queue)
                  /\ Run(node.queue, Taken + Len(buffer) + 1)
        BY SMTT(20), <1>0, <2>2, <2>3, <3>2, Empty, Numbers
      <3> QED BY <1>0, <1>1, <1>3, <2>2, <2>3, <3>1, <3>3, SocketWriteKeeps
    <2>5. TypeOK'
      BY <1>0, <1>1, <2>1, <2>4 DEF TypeOK
    <2>6. ReadSide'
      BY <1>0, <1>1, <2>1, ReadSame
    <2>7. Waiting'
      BY <1>1, <2>1, <2>2, <2>4, Empty DEF Waiting, Destroyed
    <2>8. Written'
      BY SMTT(20), <1>0, <1>3, <2>1, <2>2, <2>4, Numbers, Empty DEF Written, Destroyed
    <2>9. DisposeWaits'
      BY <1>1, <2>1 DEF DisposeWaits
    <2> QED BY <2>4, <2>5, <2>6, <2>7, <2>8, <2>9 DEF IInv, WriteSide
  <1> QED BY <1>2, <1>3 DEF Write

LEMMA FinishFields ==
  ASSUME NEW n \in Node
  PROVE  LET f == Finish(n)
         IN  /\ f \in Node /\ ReadFields(f) = ReadFields(n)
             /\ f.closed = n.closed /\ f.ended = n.ended /\ f.deflate = n.deflate
             /\ f.halfClosed = n.halfClosed
             /\ f.written = n.written /\ f.mark = n.mark /\ f.queue = n.queue
             /\ f.processing = FALSE /\ f.inflating = n.inflating
             /\ f.readQueue = n.readQueue
             /\ f.drain = n.drain \/ f.drain = "turn"
  <1> DEFINE drain == IF n.drain = "queue" THEN "turn" ELSE n.drain
             disposed == n.disposed \/ n.disposing
             f == [n EXCEPT !.processing = FALSE, !.disposed = disposed, !.drain = drain]
  <1>1. drain \in {"no", "queue", "late", "turn", "socket", "done"}
    BY DEF Node
  <1>2. drain = n.drain \/ drain = "turn"
    OBVIOUS
  <1>3. Finish(n) = f
    BY DEF Finish
  <1>6. disposed \in BOOLEAN
    BY DEF Node
  <1> HIDE DEF drain, disposed
  <1>4. f \in Node
    BY <1>1, <1>6 DEF Node
  <1>5. /\ ReadFields(f) = ReadFields(n)
        /\ f.closed = n.closed /\ f.ended = n.ended /\ f.deflate = n.deflate
        /\ f.halfClosed = n.halfClosed
        /\ f.written = n.written /\ f.mark = n.mark /\ f.queue = n.queue
        /\ f.processing = FALSE /\ f.inflating = n.inflating
        /\ f.readQueue = n.readQueue /\ f.drain = drain
    BY DEF Node, ReadFields
  <1> HIDE DEF f
  <1> QED BY <1>2, <1>3, <1>4, <1>5

(* A message has been deflated: it is written, and the queue goes on.      *)
LEMMA DeflatedKeeps == IInv /\ Deflated => IInv'
  <1> SUFFICES ASSUME IInv, Deflated PROVE IInv'
    OBVIOUS
  <1> DEFINE m == Head(node.queue)
             q == Tail(node.queue)
             rest == [node EXCEPT !.queue = q]
  <1>0. /\ TypeOK /\ node \in Node /\ ReadSide /\ Ordered /\ Waiting /\ Written /\ DisposeWaits
        /\ UNCHANGED <<browser, toNode, parts, cut>> /\ node.processing
    BY DEF IInv, TypeOK, WriteSide, Deflated
  <1>1. node.queue # <<>> /\ node.queue \in Seq(Message) /\ ~node.disposed /\ node.deflate
    BY <1>0, Fields DEF TypeOK, DisposeWaits, Written, Node
  <1>2. m \in Message /\ q \in Seq(Message) /\ Len(q) = Len(node.queue) - 1
    BY <1>1, Removed
  <1>3. /\ \A base \in Nat : Run(node.queue, base) => m = base + 1 /\ Run(q, base + 1)
        /\ Above(node.queue, node.mark) => m > node.mark /\ Above(q, node.mark)
    BY <1>0, <1>1, Runs, Aboves, Numbers
  <1>4. /\ node' = IF q # <<>> THEN rest ELSE Finish(rest)
        /\ \/ (~node'.disposed \/ node.disposed) /\ SocketWrite(m)
           \/ /\ node'.disposed /\ ~node.disposed /\ buffer' = <<>>
              /\ \/ UNCHANGED toBrowser
                 \/ /\ buffer = <<>> /\ ~node.ended /\ ~node.closed /\ ~cut
                    /\ toBrowser' = Append(toBrowser, m)
              /\ UNCHANGED needDrain
    <2>1. rest.queue = q
      BY <1>0 DEF Node
    <2> QED BY <2>1 DEF Deflated
  <1> HIDE DEF m, q
  <1>5. /\ node' \in Node
        /\ ReadFields(node') = ReadFields(node)
        /\ node'.closed = node.closed /\ node'.ended = node.ended
        /\ node'.halfClosed = node.halfClosed
        /\ node'.deflate = node.deflate /\ node'.written = node.written
        /\ node'.mark = node.mark /\ node'.queue = q
        /\ node'.processing <=> q # <<>>
        /\ node'.inflating = node.inflating /\ node'.readQueue = node.readQueue
        /\ node'.drain = node.drain \/ (node'.drain = "turn" /\ q = <<>>)
        /\ node'.disposed => q = <<>>
    <2>1. CASE q # <<>>
      BY <1>0, <1>1, <1>2, <1>4, <2>1 DEF Node, ReadFields
    <2>2. CASE q = <<>>
      <3>1. /\ rest \in Node /\ rest.queue = q /\ ReadFields(rest) = ReadFields(node)
            /\ rest.closed = node.closed /\ rest.ended = node.ended
            /\ rest.halfClosed = node.halfClosed
            /\ rest.deflate = node.deflate /\ rest.written = node.written
            /\ rest.mark = node.mark /\ rest.drain = node.drain
            /\ rest.inflating = node.inflating /\ rest.readQueue = node.readQueue
        BY <1>0, <1>2 DEF Node, ReadFields
      <3>2. node' = Finish(rest)
        BY <1>4, <2>2
      <3> HIDE DEF rest
      <3> QED BY <2>2, <3>1, <3>2, FinishFields
    <2> QED BY <2>1, <2>2
  <1>6. ReadSide'
    BY <1>0, <1>1, <1>5, ReadSame
  <1>7. DisposeWaits'
    BY <1>5 DEF DisposeWaits
  <1>8. /\ node'.mark <= node'.written
        /\ ~node'.deflate => node'.queue = <<>>
        /\ node'.drain \in {"turn", "socket", "done"} => Above(node'.queue, node'.mark)
    <2>1. node'.mark <= node'.written /\ (~node'.deflate => node'.queue = <<>>)
      BY <1>0, <1>1, <1>5 DEF Written
    <2>2. ASSUME node'.drain \in {"turn", "socket", "done"}
          PROVE  Above(q, node.mark)
      <3>1. CASE node'.drain = node.drain
        <4>1. Above(node.queue, node.mark)
          BY <1>0, <2>2, <3>1 DEF Written
        <4> QED BY <1>3, <4>1
      <3>2. CASE q = <<>>
        BY <3>2, Empty
      <3> QED BY <1>5, <3>1, <3>2
    <2>3. node'.queue = q /\ node'.mark = node.mark
      BY <1>5
    <2> QED BY <2>1, <2>2, <2>3
  <1>9. CASE ~node'.disposed /\ SocketWrite(m)
    <2>1. ~Destroyed /\ ~cut =>
            /\ Run(buffer, Taken)
            /\ ~node.ended => /\ m = Taken + Len(buffer) + 1
                              /\ node.written = Taken + Len(buffer) + 1 + Len(q)
                              /\ Run(q, Taken + Len(buffer) + 1)
      <3>1. SUFFICES ASSUME ~Destroyed, ~cut, ~node.ended
                     PROVE  /\ m = Taken + Len(buffer) + 1
                            /\ node.written = Taken + Len(buffer) + 1 + Len(q)
                            /\ Run(q, Taken + Len(buffer) + 1)
        BY <1>0 DEF Waiting
      <3>2. /\ node.written = Taken + Len(buffer) + Len(node.queue)
            /\ Run(node.queue, Taken + Len(buffer))
        BY <1>0, <3>1 DEF Waiting
      <3>3. Taken + Len(buffer) \in Nat /\ Len(node.queue) \in Nat
        BY <1>0, Numbers, SumNat
      <3> QED BY <1>2, <1>3, <3>2, <3>3
    <2>2. node.written \in Nat /\ node.mark \in Nat
      BY <1>0, Numbers
    <2>3. /\ buffer' \in Seq(Message) /\ toBrowser' \in Seq(Message)
          /\ needDrain' \in BOOLEAN /\ Ordered'
          /\ ~Destroyed /\ ~cut =>
                /\ Run(buffer', Taken')
                /\ ~node.ended => /\ node.written = Taken' + Len(buffer') + Len(q)
                                  /\ Run(q, Taken' + Len(buffer'))
          /\ \A low \in Nat : m > low /\ Above(buffer, low) => Above(buffer', low)
      BY <1>0, <1>2, <1>9, <2>1, <2>2, SocketWriteKeeps
    <2>4. TypeOK'
      BY <1>0, <1>5, <2>3 DEF TypeOK
    <2>5. Destroyed' = Destroyed
      BY <1>1, <1>5, <1>9 DEF Destroyed, Node
    <2>6. Waiting'
      BY <1>0, <1>5, <2>3, <2>5 DEF Waiting
    <2>7. Written'
      <3>1. SUFFICES ASSUME node'.drain = "done", ~Destroyed', ~node'.ended,
                            ~node'.halfClosed
                     PROVE  Above(buffer', node'.mark)
        BY <1>8 DEF Written
      <3>2. node.drain = "done"
        BY <1>5, <3>1
      <3>3. Above(buffer, node.mark) /\ m > node.mark
        BY <1>0, <1>3, <1>5, <2>5, <3>1, <3>2 DEF Written
      <3> QED BY <1>5, <2>2, <2>3, <3>3
    <2> QED BY <1>6, <1>7, <2>3, <2>4, <2>6, <2>7 DEF IInv, WriteSide
  <1>10. CASE /\ node'.disposed /\ buffer' = <<>> /\ UNCHANGED needDrain
              /\ \/ UNCHANGED toBrowser
                 \/ /\ buffer = <<>> /\ ~node.ended /\ ~node.closed /\ ~cut
                    /\ toBrowser' = Append(toBrowser, m)
    <2>1. toBrowser' \in Seq(Message) /\ Run(toBrowser', Arrived)
      <3>1. toBrowser \in Seq(Message) /\ Run(toBrowser, Arrived) /\ Arrived \in Nat
        BY <1>0, Fields, Numbers DEF Ordered
      <3>2. CASE UNCHANGED toBrowser
        BY <3>1, <3>2
      <3>3. CASE /\ buffer = <<>> /\ ~node.ended /\ ~node.closed /\ ~cut
                 /\ toBrowser' = Append(toBrowser, m)
        <4>1. Run(node.queue, Taken + Len(buffer)) /\ Len(buffer) = 0 /\ Taken \in Nat
          BY <1>0, <1>1, <3>3, Empty, Numbers DEF Waiting, Destroyed
        <4>2. m = Taken + 1
          BY <1>3, <4>1
        <4>3. m = Arrived + Len(toBrowser) + 1
          BY <4>2 DEF Taken
        <4> QED BY <1>2, <3>1, <3>3, <4>3, Runs, Added
      <3> QED BY <1>10, <3>2, <3>3
    <2>2. Ordered'
      BY <1>0, <2>1 DEF Ordered, Arrived
    <2>3. buffer' \in Seq(Message)
      BY <1>10, EmptySeq
    <2>4. TypeOK'
      BY <1>0, <1>5, <1>10, <2>1, <2>3 DEF TypeOK
    <2>5. Waiting' /\ Written'
      BY <1>8, <1>10 DEF Waiting, Written, Destroyed
    <2> QED BY <1>6, <1>7, <2>2, <2>4, <2>5 DEF IInv, WriteSide
  <1> QED BY <1>1, <1>4, <1>9, <1>10

(* What only sets flags, and does not end a wait of drain wrongly.         *)
LEMMA FlagsKeep ==
  ASSUME IInv, node' \in Node, ReadFields(node') = ReadFields(node),
         node'.written = node.written, node'.queue = node.queue,
         node'.processing = node.processing, node'.inflating = node.inflating,
         node.ended => node'.ended, node'.disposed = node.disposed,
         node.closed => node'.closed,
         UNCHANGED <<browser, toBrowser, toNode, parts, cut>>,
         buffer' = buffer \/ (buffer' = <<>> /\ Destroyed'), needDrain' \in BOOLEAN,
         node'.mark <= node'.written,
         node'.drain \in {"turn", "socket", "done"} => Above(node.queue, node'.mark),
         node'.drain = "done" /\ ~Destroyed' /\ ~node'.ended /\ ~node'.halfClosed
            => Above(buffer, node'.mark)
  PROVE  IInv'
  <1>0. TypeOK /\ ReadSide /\ Ordered /\ Waiting /\ Written /\ DisposeWaits
    BY DEF IInv, WriteSide
  <1>1. node'.deflate = node.deflate /\ node'.readQueue = node.readQueue
    BY DEF ReadFields
  <1>2. buffer' \in Seq(Message)
    BY <1>0, Fields, EmptySeq
  <1>3. TypeOK'
    BY <1>0, <1>1, <1>2 DEF TypeOK
  <1>4. ReadSide'
    BY <1>0, ReadSame
  <1>5. Ordered'
    BY <1>0 DEF Ordered, Arrived
  <1>6. Waiting'
    <2>1. Taken' = Taken
      BY DEF Taken, Arrived
    <2>2. Destroyed => Destroyed'
      BY DEF Destroyed
    <2> QED BY <1>0, <2>1, <2>2 DEF Waiting
  <1>7. Written'
    BY <1>0, <1>1 DEF Written
  <1>8. DisposeWaits'
    BY <1>0 DEF DisposeWaits
  <1> QED BY <1>3, <1>4, <1>5, <1>6, <1>7, <1>8 DEF IInv, WriteSide

LEMMA DisposeKeeps == IInv /\ Dispose => IInv'
  <1> SUFFICES ASSUME IInv, Dispose PROVE IInv'
    OBVIOUS
  <1>0. /\ TypeOK /\ node \in Node /\ ReadSide /\ Ordered /\ Waiting /\ Written
        /\ UNCHANGED <<browser, needDrain, toBrowser, toNode, parts, cut>>
    BY DEF IInv, TypeOK, WriteSide, Dispose
  <1>1. CASE node.processing /\ node' = [node EXCEPT !.disposing = TRUE] /\ UNCHANGED buffer
    <2>1. /\ node' \in Node /\ ReadFields(node') = ReadFields(node)
          /\ WriteFields(node') = <<node.deflate, node.written, node.queue, node.processing,
                                    node.ended, TRUE, node.disposed, node.drain, node.mark,
                                    node.halfClosed>>
          /\ node'.inflating = node.inflating /\ node'.closed = node.closed
          /\ node'.halfClosed = node.halfClosed
      BY <1>0, <1>1 DEF Node, ReadFields, WriteFields
    <2> QED BY <1>0, <1>1, <2>1, FlagsKeep DEF WriteFields, Written, Destroyed, TypeOK
  <1>2. CASE ~node.processing /\ node' = [node EXCEPT !.disposed = TRUE] /\ buffer' = <<>>
    <2>1. /\ node' \in Node /\ ReadFields(node') = ReadFields(node)
          /\ node'.disposed /\ node'.queue = node.queue /\ node'.processing = node.processing
          /\ node'.inflating = node.inflating /\ node'.readQueue = node.readQueue
          /\ node'.mark = node.mark /\ node'.written = node.written
          /\ node'.deflate = node.deflate /\ node'.drain = node.drain
      BY <1>0, <1>2 DEF Node, ReadFields
    <2>2. node.queue = <<>>
      BY <1>0, <1>2 DEF TypeOK
    <2>3. TypeOK'
      BY <1>0, <1>2, <2>1, EmptySeq DEF TypeOK
    <2>4. ReadSide'
      BY <1>0, <2>1, ReadSame
    <2>5. Ordered'
      BY <1>0 DEF Ordered, Arrived
    <2>6. Waiting' /\ Written' /\ DisposeWaits'
      BY <1>0, <2>1, <2>2 DEF Waiting, Written, DisposeWaits, Destroyed
    <2> QED BY <2>3, <2>4, <2>5, <2>6 DEF IInv, WriteSide
  <1> QED BY <1>1, <1>2 DEF Dispose

LEMMA EndKeeps == IInv /\ End => IInv'
  <1> SUFFICES ASSUME IInv, End PROVE IInv'
    OBVIOUS
  <1>0. TypeOK /\ node \in Node /\ Written
    BY DEF IInv, TypeOK, WriteSide
  <1>1. /\ node' \in Node /\ ReadFields(node') = ReadFields(node)
        /\ node'.written = node.written /\ node'.queue = node.queue
        /\ node'.processing = node.processing /\ node'.inflating = node.inflating
        /\ node'.ended /\ node'.disposed = node.disposed /\ node'.closed = node.closed
        /\ node'.halfClosed = node.halfClosed
        /\ node'.mark = node.mark /\ node'.drain = node.drain
    BY <1>0 DEF End, Node, ReadFields
  <1> QED BY <1>0, <1>1, FlagsKeep DEF End, Written, TypeOK

(* drain is fulfilled at once when nothing is queued or buffered.          *)
LEMMA DrainKeeps == IInv /\ (Drain \/ DrainContinues) => IInv'
  <1> SUFFICES ASSUME IInv, Drain \/ DrainContinues PROVE IInv'
    OBVIOUS
  <1>0. /\ TypeOK /\ node \in Node /\ Written
        /\ UNCHANGED <<browser, buffer, needDrain, toBrowser, toNode, parts, cut>>
    BY DEF IInv, TypeOK, WriteSide, Drain, DrainContinues
  <1>4. node.written \in 0 .. MaxMessages /\ node.written <= node.written
    BY <1>0, BoundAssumption DEF Node
  <1>1. PICK drain \in {"queue", "late", "socket", "done"}, mark \in 0 .. MaxMessages :
           /\ node' = [node EXCEPT !.mark = mark, !.drain = drain]
           /\ mark <= node.written
           /\ drain = "done" => buffer = <<>>
           /\ drain \in {"socket", "done"} => Above(node.queue, mark)
    <2>1. CASE Drain /\ node.processing
      <3>1. PICK drain \in {"queue", "late"} :
               node' = [node EXCEPT !.mark = node.written, !.drain = drain]
        BY <2>1 DEF Drain
      <3> QED BY <3>1, <1>4
    <2>2. CASE Drain /\ ~node.processing
      <3>1. node' = [node EXCEPT !.mark = node.written, !.drain = SocketDrain]
        BY <2>2 DEF Drain
      <3>2. Above(node.queue, node.written)
        BY <1>0, <2>2, Empty DEF TypeOK
      <3>3. SocketDrain \in {"socket", "done"} /\ (SocketDrain = "done" => buffer = <<>>)
        BY DEF SocketDrain
      <3> QED BY <1>4, <3>1, <3>2, <3>3
    <2>3. CASE DrainContinues
      <3>1. node' = [node EXCEPT !.drain = SocketDrain] /\ node.drain = "turn"
        BY <2>3 DEF DrainContinues
      <3>2. node' = [node EXCEPT !.mark = node.mark, !.drain = SocketDrain]
        BY <1>0, <3>1 DEF Node
      <3>3. Above(node.queue, node.mark) /\ node.mark <= node.written
        BY <1>0, <3>1 DEF Written
      <3> QED BY <1>0, <3>2, <3>3 DEF Node, SocketDrain
    <2> QED BY <2>1, <2>2, <2>3
  <1>2. /\ node' \in Node /\ ReadFields(node') = ReadFields(node)
        /\ node'.written = node.written /\ node'.queue = node.queue
        /\ node'.processing = node.processing /\ node'.inflating = node.inflating
        /\ node'.ended = node.ended /\ node'.disposed = node.disposed
        /\ node'.closed = node.closed /\ node'.halfClosed = node.halfClosed
        /\ node'.mark = mark /\ node'.drain = drain
    BY <1>0, <1>1 DEF Node, ReadFields
  <1>3. needDrain' \in BOOLEAN
    BY <1>0 DEF TypeOK
  <1> QED BY <1>0, <1>1, <1>2, <1>3, FlagsKeep, Empty

LEMMA DrainedFields ==
  ASSUME node \in Node
  PROVE  LET n == Drained(node)
         IN  /\ n \in Node /\ ReadFields(n) = ReadFields(node)
             /\ n.written = node.written /\ n.queue = node.queue
             /\ n.processing = node.processing /\ n.inflating = node.inflating
             /\ n.ended = node.ended /\ n.disposed = node.disposed
             /\ n.closed = node.closed /\ n.mark = node.mark /\ n.deflate = node.deflate
             /\ n.halfClosed = node.halfClosed
             /\ n.drain = node.drain \/ (node.drain = "socket" /\ n.drain = "done")
  BY DEF Node, ReadFields, Drained

LEMMA EndEventKeeps == IInv /\ EndEvent => IInv'
  <1> SUFFICES ASSUME IInv, EndEvent PROVE IInv'
    OBVIOUS
  <1>0. /\ TypeOK /\ node \in Node /\ Written
        /\ UNCHANGED <<browser, buffer, needDrain, toBrowser, toNode, parts, cut>>
    BY DEF IInv, TypeOK, WriteSide, EndEvent
  <1> DEFINE n == Drained(node)
  <1>1. node' = [n EXCEPT !.halfClosed = TRUE]
    BY DEF EndEvent
  <1>2. /\ n \in Node /\ ReadFields(n) = ReadFields(node)
        /\ n.written = node.written /\ n.queue = node.queue
        /\ n.processing = node.processing /\ n.inflating = node.inflating
        /\ n.ended = node.ended /\ n.disposed = node.disposed
        /\ n.closed = node.closed /\ n.mark = node.mark
        /\ n.drain = node.drain \/ (node.drain = "socket" /\ n.drain = "done")
    BY <1>0, DrainedFields
  <1> HIDE DEF n
  <1>3. /\ node' \in Node /\ ReadFields(node') = ReadFields(n)
        /\ node'.written = n.written /\ node'.queue = n.queue
        /\ node'.processing = n.processing /\ node'.inflating = n.inflating
        /\ node'.ended = n.ended /\ node'.disposed = n.disposed /\ node'.closed = n.closed
        /\ node'.mark = n.mark /\ node'.drain = n.drain /\ node'.halfClosed
    BY <1>1, <1>2 DEF Node, ReadFields
  <1>4. needDrain' \in BOOLEAN
    BY <1>0 DEF TypeOK
  <1>5. node'.drain \in {"turn", "socket", "done"} => Above(node.queue, node'.mark)
    BY <1>0, <1>2, <1>3 DEF Written
  <1>6. node'.mark <= node'.written
    BY <1>0, <1>2, <1>3 DEF Written
  <1> QED BY <1>0, <1>2, <1>3, <1>4, <1>5, <1>6, FlagsKeep

LEMMA CloseEventKeeps == IInv /\ CloseEvent => IInv'
  <1> SUFFICES ASSUME IInv, CloseEvent PROVE IInv'
    OBVIOUS
  <1>0. /\ TypeOK /\ node \in Node /\ Written
        /\ UNCHANGED <<browser, needDrain, toBrowser, toNode, parts, cut>>
        /\ buffer' = <<>>
    BY DEF IInv, TypeOK, WriteSide, CloseEvent
  <1> DEFINE n == Drained(node)
  <1>1. node' = [n EXCEPT !.closed = TRUE]
    BY DEF CloseEvent
  <1>2. /\ n \in Node /\ ReadFields(n) = ReadFields(node)
        /\ n.written = node.written /\ n.queue = node.queue
        /\ n.processing = node.processing /\ n.inflating = node.inflating
        /\ n.ended = node.ended /\ n.disposed = node.disposed
        /\ n.mark = node.mark
        /\ n.drain = node.drain \/ (node.drain = "socket" /\ n.drain = "done")
    BY <1>0, DrainedFields
  <1> HIDE DEF n
  <1>3. /\ node' \in Node /\ ReadFields(node') = ReadFields(n)
        /\ node'.written = n.written /\ node'.queue = n.queue
        /\ node'.processing = n.processing /\ node'.inflating = n.inflating
        /\ node'.ended = n.ended /\ node'.disposed = n.disposed
        /\ node'.mark = n.mark /\ node'.drain = n.drain /\ node'.closed
    BY <1>1, <1>2 DEF Node, ReadFields
  <1>4. needDrain' \in BOOLEAN /\ Destroyed'
    BY <1>0, <1>3 DEF TypeOK, Destroyed
  <1>5. node'.drain \in {"turn", "socket", "done"} => Above(node.queue, node'.mark)
    BY <1>0, <1>2, <1>3 DEF Written
  <1>6. node'.mark <= node'.written
    BY <1>0, <1>2, <1>3 DEF Written
  <1> QED BY <1>0, <1>2, <1>3, <1>4, <1>5, <1>6, FlagsKeep

LEMMA KernelTakesKeeps == IInv /\ KernelTakes => IInv'
  <1> SUFFICES ASSUME IInv, KernelTakes PROVE IInv'
    OBVIOUS
  <1> DEFINE m == Head(buffer)
             b == Tail(buffer)
             t == Append(toBrowser, m)
  <1>0. /\ TypeOK /\ node \in Node /\ ReadSide /\ Ordered /\ Waiting /\ Written /\ DisposeWaits
        /\ UNCHANGED <<browser, toNode, parts, cut>>
        /\ buffer # <<>> /\ ~Destroyed /\ ~cut /\ toBrowser' = t /\ buffer' = b
    BY DEF IInv, TypeOK, WriteSide, KernelTakes
  <1>1. /\ buffer \in Seq(Message) /\ toBrowser \in Seq(Message)
        /\ Arrived \in Nat /\ Taken \in Nat /\ Len(buffer) \in Nat /\ node.mark \in Nat
    BY <1>0, Fields, Numbers
  <1>2. m \in Message /\ b \in Seq(Message) /\ Len(b) = Len(buffer) - 1
    BY <1>0, <1>1, Removed
  <1>3. m = Taken + 1 /\ Run(b, Taken + 1)
    BY <1>0, <1>1, Runs DEF Waiting
  <1>4. Above(buffer, node.mark) => Above(b, node.mark)
    BY <1>0, <1>1, Aboves
  <1>5. t \in Seq(Message) /\ Len(t) = Len(toBrowser) + 1
    BY <1>1, <1>2, Added
  <1>6. Run(t, Arrived)
    <2>1. m = Arrived + Len(toBrowser) + 1
      BY <1>3 DEF Taken
    <2> QED BY <1>0, <1>1, <1>2, <2>1, Runs DEF Ordered
  <1> HIDE DEF m, b, t
  <1>7. Arrived' = Arrived /\ Taken' = Taken + 1
    <2>1. Arrived' = Arrived
      BY <1>0 DEF Arrived
    <2>2. Len(toBrowser) \in Nat
      BY <1>0, Numbers
    <2> QED BY <1>0, <1>1, <1>5, <2>1, <2>2 DEF Taken
  <1>8. /\ node' \in Node /\ ReadFields(node') = ReadFields(node)
        /\ node'.written = node.written /\ node'.queue = node.queue
        /\ node'.processing = node.processing /\ node'.inflating = node.inflating
        /\ node'.readQueue = node.readQueue
        /\ node'.ended = node.ended /\ node'.disposed = node.disposed
        /\ node'.closed = node.closed /\ node'.mark = node.mark
        /\ node'.halfClosed = node.halfClosed
        /\ node'.deflate = node.deflate
        /\ needDrain' \in BOOLEAN
        /\ \/ node'.drain = node.drain
           \/ Len(buffer) = 1 /\ node.drain = "socket" /\ node'.drain = "done"
    <2>1. CASE Len(buffer) = 1 /\ needDrain /\ node' = Drained(node) /\ needDrain' = FALSE
      BY <1>0, <2>1, DrainedFields DEF ReadFields
    <2>2. CASE node' = node /\ needDrain' \in BOOLEAN
      BY <1>0, <2>2
    <2> QED BY <1>0, <2>1, <2>2 DEF KernelTakes, TypeOK
  <1>9. TypeOK'
    BY <1>0, <1>2, <1>5, <1>8 DEF TypeOK
  <1>10. ReadSide'
    BY <1>0, <1>8, ReadSame
  <1>11. Ordered'
    BY <1>0, <1>6, <1>7 DEF Ordered
  <1>12. Waiting'
    <2>1. Destroyed' = Destroyed
      BY <1>8 DEF Destroyed
    <2>2. Taken' + Len(b) = Taken + Len(buffer)
      BY <1>1, <1>2, <1>7
    <2> QED BY <1>0, <1>3, <1>7, <1>8, <2>1, <2>2 DEF Waiting
  <1>13. Written'
    <2>1. Destroyed' = Destroyed
      BY <1>8 DEF Destroyed
    <2>2. CASE node'.drain = node.drain
      BY <1>0, <1>4, <1>8, <2>1, <2>2 DEF Written
    <2>3. CASE Len(buffer) = 1 /\ node.drain = "socket" /\ node'.drain = "done"
      <3>1. b = <<>>
        BY <1>2, <2>3, EmptySeq
      <3>2. Above(b, node.mark)
        BY <3>1, Empty
      <3> QED BY <1>0, <1>8, <2>3, <3>2 DEF Written
    <2> QED BY <1>8, <2>2, <2>3
  <1>14. DisposeWaits'
    BY <1>0, <1>8 DEF DisposeWaits
  <1> QED BY <1>9, <1>10, <1>11, <1>12, <1>13, <1>14 DEF IInv, WriteSide

-----------------------------------------------------------------------------
(* The node end, reading.                                                  *)

LEMMA FireFields ==
  ASSUME NEW n \in Node, NEW items \in Seq(Queued), ~n.disposed
  PROVE  LET f == Fire(n, items)
         IN  /\ f \in Node /\ WriteFields(f) = WriteFields(n)
             /\ f.readQueue = n.readQueue /\ f.inflating = n.inflating
             /\ f.compressed = n.compressed /\ f.first = n.first /\ f.closed = n.closed
             /\ Len(f.got) = Len(n.got) + Len(items)
             /\ \A k \in 1 .. Len(n.got) : f.got[k] = n.got[k]
             /\ \A j \in 1 .. Len(items) : f.got[Len(n.got) + j] = Handed(items[j])
  <1> DEFINE handed == [k \in DOMAIN items |-> Handed(items[k])]
             got == n.got \o handed
  <1>1. \A item \in Queued : Handed(item) \in Data
    BY DEF Queued, Frame, Data, Handed
  <1>2. Len(items) \in Nat /\ DOMAIN items = 1 .. Len(items)
    BY LenProperties
  <1>3. handed \in [1 .. Len(items) -> Data]
    BY <1>1, <1>2, ElementOfSeq
  <1>4. handed \in Seq(Data)
    BY <1>2, <1>3, SeqDef
  <1>5. Len(handed) = Len(items)
    BY <1>2, <1>4, LenProperties
  <1>6. \A j \in 1 .. Len(items) : handed[j] = Handed(items[j])
    BY <1>2
  <1> HIDE DEF handed
  <1>7. n.got \in Seq(Data)
    BY DEF Node
  <1>8. /\ got \in Seq(Data) /\ Len(got) = Len(n.got) + Len(handed)
        /\ \A i \in 1 .. Len(n.got) + Len(handed) :
              got[i] = IF i <= Len(n.got) THEN n.got[i] ELSE handed[i - Len(n.got)]
    BY <1>4, <1>7, ConcatProperties
  <1>9. Len(n.got) \in Nat
    BY <1>7, LenProperties
  <1> HIDE DEF got
  <1>10. Fire(n, items) = [n EXCEPT !.got = got]
    BY DEF Fire, got, handed
  <1>11. \A k \in 1 .. Len(n.got) : got[k] = n.got[k]
    BY <1>2, <1>5, <1>8, <1>9
  <1>12. ASSUME NEW j \in 1 .. Len(items)
         PROVE  got[Len(n.got) + j] = Handed(items[j])
    <2>1. /\ Len(n.got) + j \in 1 .. Len(n.got) + Len(handed)
          /\ ~(Len(n.got) + j <= Len(n.got)) /\ (Len(n.got) + j) - Len(n.got) = j
      BY <1>2, <1>5, <1>9
    <2> QED BY <1>6, <1>8, <2>1
  <1> DEFINE f == [n EXCEPT !.got = got]
  <1>13. /\ f \in Node /\ WriteFields(f) = WriteFields(n)
         /\ f.readQueue = n.readQueue /\ f.inflating = n.inflating
         /\ f.compressed = n.compressed /\ f.first = n.first /\ f.closed = n.closed
         /\ f.got = got
    BY <1>8 DEF Node, WriteFields
  <1> HIDE DEF f
  <1> QED BY <1>5, <1>8, <1>10, <1>11, <1>12, <1>13 DEF f

(* What becomes of the frame that is read next, and of the state of        *)
(* _acceptChunk.                                                           *)
LEMMA FramesTail ==
  ASSUME TypeOK, Frames, toNode # <<>>, toNode' = Tail(toNode), cut' = cut,
         node'.deflate = node.deflate,
         NEW compressed \in BOOLEAN,
         compressed = IF node.first THEN Head(toNode).rsv1 ELSE node.compressed,
         node'.compressed = compressed, node'.first = Head(toNode).fin
  PROVE  Frames' /\ Head(toNode).deflated = (node.deflate /\ compressed)
  <1> DEFINE frame == Head(toNode)
             t == Tail(toNode)
  <1>0. toNode \in Seq(Frame) /\ Len(toNode) \in Nat /\ DOMAIN toNode = 1 .. Len(toNode)
    BY Fields, LenProperties
  <1>1. /\ t \in Seq(Frame) /\ Len(t) = Len(toNode) - 1 /\ Len(toNode) >= 1
        /\ DOMAIN t = 1 .. Len(toNode) - 1
        /\ \A k \in DOMAIN t : t[k] = toNode[k + 1]
        /\ frame \in Frame /\ frame = toNode[1]
    BY <1>0, Removed
  <1>2. frame.deflated = compressed /\ (frame.deflated => node.deflate)
    <2>1. 1 \in DOMAIN toNode
      BY <1>0, <1>1
    <2>2. Starts(1) = node.first
      BY DEF Starts
    <2>3. /\ frame.deflated => node.deflate
          /\ node.first => frame.rsv1 = frame.deflated
          /\ ~node.first => frame.deflated = node.compressed
      BY <1>1, <2>1, <2>2 DEF Frames
    <2> QED BY <2>3
  <1> HIDE DEF frame, t
  <1>3. ASSUME NEW k \in 1 .. Len(t) + 1
        PROVE  Starts(k)' = Starts(k + 1)
    <2>1. CASE k = 1
      BY <1>1, <2>1 DEF Starts, frame
    <2>2. CASE k # 1
      <3>1. k - 1 \in DOMAIN t /\ (k - 1) + 1 = k /\ k + 1 # 1 /\ (k + 1) - 1 = k
        BY <1>0, <1>1, <2>2
      <3> QED BY <1>1, <2>2, <3>1 DEF Starts, t
    <2> QED BY <2>1, <2>2
  <1>4. ASSUME NEW k \in DOMAIN t
        PROVE  /\ t[k].deflated => node.deflate
               /\ Starts(k)' => t[k].rsv1 = t[k].deflated
               /\ ~Starts(k)' => t[k].deflated =
                                    IF k = 1 THEN compressed ELSE t[k - 1].deflated
    <2>1. k \in 1 .. Len(t) + 1 /\ k + 1 \in DOMAIN toNode /\ t[k] = toNode[k + 1]
      BY <1>0, <1>1
    <2>2. Starts(k)' = Starts(k + 1)
      BY <1>3, <2>1
    <2>3. /\ toNode[k + 1].deflated => node.deflate
          /\ Starts(k + 1) => toNode[k + 1].rsv1 = toNode[k + 1].deflated
          /\ ~Starts(k + 1) => toNode[k + 1].deflated =
                IF k + 1 = 1 THEN node.compressed ELSE toNode[(k + 1) - 1].deflated
      BY <2>1 DEF Frames
    <2>4. k + 1 # 1 /\ (k + 1) - 1 = k
      BY <2>1, <1>0, <1>1
    <2>5. toNode[k].deflated = IF k = 1 THEN compressed ELSE t[k - 1].deflated
      <3>1. CASE k = 1
        BY <1>1, <1>2, <3>1
      <3>2. CASE k # 1
        <4>1. k - 1 \in DOMAIN t /\ (k - 1) + 1 = k
          BY <1>0, <1>1, <2>1, <3>2
        <4> QED BY <1>1, <3>2, <4>1
      <3> QED BY <3>1, <3>2
    <2> QED BY <2>1, <2>2, <2>3, <2>4, <2>5
  <1>5. PICK last \in 1 .. Len(t) + 1 : last = Len(t) + 1 /\ last + 1 = Len(toNode) + 1
    <2>1. ASSUME NEW a \in Nat, NEW b, a >= 1, b = a - 1
          PROVE  \E l \in 1 .. b + 1 : l = b + 1 /\ l + 1 = a + 1
      BY <2>1
    <2> QED BY <1>0, <1>1, <2>1
  <1>6. toNode' = t
    BY DEF t
  <1>7. ~cut => Starts(Len(toNode) + 1)'
    <2>1. Starts(last)' = Starts(Len(toNode) + 1)
      BY <1>3, <1>5
    <2>2. Len(toNode') + 1 = last
      BY <1>5, <1>6
    <2>3. Starts(Len(toNode) + 1)' = Starts(last)'
      BY <2>2 DEF Starts
    <2> QED BY <2>1, <2>3 DEF Frames
  <1>8. Frames'
    <2>1. ASSUME NEW k \in DOMAIN toNode'
          PROVE  /\ toNode'[k].deflated => node'.deflate
                 /\ Starts(k)' => toNode'[k].rsv1 = toNode'[k].deflated
                 /\ ~Starts(k)' => toNode'[k].deflated =
                       IF k = 1 THEN node'.compressed ELSE toNode'[k - 1].deflated
      BY <1>4, <1>6, <2>1
    <2> QED BY <1>7, <2>1 DEF Frames
  <1> QED BY <1>2, <1>8 DEF frame

LEMMA ReceiveKeeps == IInv /\ Receive => IInv'
  <1> SUFFICES ASSUME IInv, Receive PROVE IInv'
    OBVIOUS
  <1> DEFINE frame == Head(toNode)
             compressed == IF node.first THEN frame.rsv1 ELSE node.compressed
             item == [frame |-> frame, isCompressed |-> compressed]
             n == [node EXCEPT !.compressed = compressed, !.first = frame.fin]
  <1>0. /\ TypeOK /\ node \in Node /\ HandedOver /\ OnTheWay /\ Frames /\ WriteSide
        /\ DisposeWaits /\ toNode # <<>> /\ ~node.disposed /\ toNode' = Tail(toNode)
        /\ UNCHANGED <<browser, buffer, needDrain, toBrowser, parts, cut>>
        /\ node' = AcceptFrame(n, item)
    BY DEF IInv, TypeOK, ReadSide, Receive, Destroyed
  <1>1. /\ toNode \in Seq(Frame) /\ Len(toNode) \in Nat /\ DOMAIN toNode = 1 .. Len(toNode)
        /\ node.readQueue \in Seq(Queued) /\ Len(node.readQueue) \in Nat
        /\ DOMAIN node.readQueue = 1 .. Len(node.readQueue)
        /\ node.got \in Seq(Data) /\ Len(node.got) \in Nat
        /\ DOMAIN node.got = 1 .. Len(node.got) /\ Len(parts) \in Nat
    BY <1>0, Fields, Numbers, LenProperties
  <1>2. /\ frame \in Frame /\ toNode' \in Seq(Frame) /\ Len(toNode') = Len(toNode) - 1
        /\ Len(toNode) >= 1 /\ DOMAIN toNode' = 1 .. Len(toNode) - 1
        /\ \A k \in DOMAIN toNode' : toNode'[k] = toNode[k + 1]
        /\ frame = toNode[1]
    BY <1>0, <1>1, Removed
  <1>3. compressed \in BOOLEAN /\ frame.fin \in BOOLEAN
    BY <1>0, <1>2 DEF Frame, Node
  <1>4. item \in Queued /\ item.frame = frame
    BY <1>2, <1>3 DEF Queued
  <1>5. ToInflate(item) = (node.deflate /\ compressed)
    BY DEF ToInflate
  <1>6. compressed = IF node.first THEN Head(toNode).rsv1 ELSE node.compressed
    OBVIOUS
  <1> HIDE DEF compressed
  <1>7. /\ n \in Node /\ WriteFields(n) = WriteFields(node) /\ ~n.disposed
        /\ n.readQueue = node.readQueue /\ n.inflating = node.inflating
        /\ n.compressed = compressed /\ n.first = frame.fin /\ n.closed = node.closed
        /\ n.got = node.got /\ n.deflate = node.deflate
    BY <1>0, <1>3 DEF Node, WriteFields
  <1> HIDE DEF n, item, frame
  <1>8. Is(frame, Accepted + 1) /\ Accepted + Len(toNode) <= Len(parts)
    <2>1. 1 \in DOMAIN toNode
      BY <1>1, <1>2
    <2> QED BY <1>0, <1>2, <2>1 DEF OnTheWay
  <1>9. /\ node' \in Node /\ WriteFields(node') = WriteFields(node)
        /\ node'.compressed = compressed /\ node'.first = frame.fin
        /\ node'.closed = node.closed
        /\ node'.inflating <=> node'.readQueue # <<>>
        /\ \/ /\ node'.readQueue = <<>> /\ node.readQueue = <<>> /\ ~ToInflate(item)
              /\ Len(node'.got) = Len(node.got) + 1
              /\ \A k \in 1 .. Len(node.got) : node'.got[k] = node.got[k]
              /\ node'.got[Len(node.got) + 1] = Handed(item)
           \/ /\ node'.got = node.got
              /\ node'.readQueue = Append(node.readQueue, item)
    <2>1. CASE ~n.inflating /\ ~ToInflate(item)
      <3>1. node' = Fire(n, <<item>>)
        BY <1>0, <2>1 DEF AcceptFrame
      <3>2. <<item>> \in Seq(Queued) /\ Len(<<item>>) = 1 /\ <<item>>[1] = item
        BY <1>4
      <3>3. node.readQueue = <<>>
        BY <1>0, <1>7, <2>1 DEF TypeOK
      <3>4. LET f == Fire(n, <<item>>)
            IN  /\ f \in Node /\ WriteFields(f) = WriteFields(n)
                /\ f.readQueue = n.readQueue /\ f.inflating = n.inflating
                /\ f.compressed = n.compressed /\ f.first = n.first /\ f.closed = n.closed
                /\ Len(f.got) = Len(n.got) + Len(<<item>>)
                /\ \A k \in 1 .. Len(n.got) : f.got[k] = n.got[k]
                /\ \A j \in 1 .. Len(<<item>>) : f.got[Len(n.got) + j] = Handed(<<item>>[j])
        BY <1>7, <3>2, FireFields
      <3>5. 1 \in 1 .. Len(<<item>>)
        BY <3>2
      <3>6. node'.got[Len(n.got) + 1] = Handed(item)
        BY <3>1, <3>2, <3>4, <3>5
      <3> QED BY <1>0, <1>7, <2>1, <3>1, <3>2, <3>3, <3>4, <3>6 DEF TypeOK
    <2>2. CASE ~(~n.inflating /\ ~ToInflate(item))
      <3> DEFINE q == Append(node.readQueue, item)
      <3>1. node' = [n EXCEPT !.readQueue = q, !.inflating = TRUE]
        BY <1>0, <1>7, <2>2 DEF AcceptFrame
      <3>2. q \in Seq(Queued) /\ q # <<>>
        BY <1>1, <1>4, Added
      <3> HIDE DEF q
      <3>3. /\ node' \in Node /\ WriteFields(node') = WriteFields(n)
            /\ node'.compressed = n.compressed /\ node'.first = n.first
            /\ node'.closed = n.closed /\ node'.inflating /\ node'.readQueue = q
            /\ node'.got = n.got
        BY <1>7, <3>1, <3>2 DEF Node, WriteFields
      <3> QED BY <1>7, <3>2, <3>3 DEF q
    <2> QED BY <2>1, <2>2
  <1>10. /\ node'.deflate = node.deflate /\ node'.disposed = node.disposed
         /\ node'.queue = node.queue /\ node'.processing = node.processing
    BY <1>9 DEF WriteFields
  <1>11. Frames' /\ frame.deflated = ToInflate(item)
    <2>1. node'.first = Head(toNode).fin
      BY <1>9 DEF frame
    <2>2. Frames' /\ Head(toNode).deflated = (node.deflate /\ compressed)
      BY <1>0, <1>3, <1>6, <1>9, <1>10, <2>1, FramesTail
    <2> QED BY <1>5, <2>2 DEF frame
  <1>12. TypeOK'
    BY <1>0, <1>2, <1>9, <1>10 DEF TypeOK
  <1>13. WriteSide'
    BY <1>0, <1>9, WriteSame
  <1>14. DisposeWaits'
    BY <1>0, <1>10 DEF DisposeWaits
  <1>15. HandedOver' /\ Accepted' = Accepted + 1
         /\ \A k \in DOMAIN node'.readQueue :
               /\ Is(node'.readQueue[k].frame, Len(node'.got) + k)
               /\ node'.readQueue[k].frame.deflated = ToInflate(node'.readQueue[k])
    <2>1. CASE /\ node'.readQueue = <<>> /\ node.readQueue = <<>> /\ ~ToInflate(item)
               /\ Len(node'.got) = Len(node.got) + 1
               /\ \A k \in 1 .. Len(node.got) : node'.got[k] = node.got[k]
               /\ node'.got[Len(node.got) + 1] = Handed(item)
      <3>1. /\ Handed(item).readable /\ Handed(item).msg = frame.msg
            /\ Handed(item).part = frame.part
        BY <1>4, <1>11, <2>1 DEF Handed
      <3>2. Accepted = Len(node.got) /\ Accepted' = Len(node.got) + 1
        BY <1>1, <2>1, Empty DEF Accepted
      <3>3. Is(Handed(item), Len(node.got) + 1)
        BY <1>8, <3>1, <3>2 DEF Is
      <3>4. DOMAIN node'.got = 1 .. Len(node.got) + 1
        <4>1. node'.got \in Seq(Data)
          BY <1>9 DEF Node
        <4> QED BY <2>1, <4>1, LenProperties
      <3>5. ASSUME NEW k \in DOMAIN node'.got
            PROVE  node'.got[k].readable /\ Is(node'.got[k], k)
        <4>1. CASE k \in 1 .. Len(node.got)
          BY <1>0, <1>1, <2>1, <4>1 DEF HandedOver
        <4>2. CASE k = Len(node.got) + 1
          BY <2>1, <3>1, <3>3, <4>2
        <4> QED BY <1>1, <3>4, <4>1, <4>2
      <3>6. Len(node'.got) <= Len(parts)
        BY <1>1, <1>2, <1>8, <2>1, <3>2
      <3>7. HandedOver'
        BY <1>0, <3>5, <3>6 DEF HandedOver, Is
      <3> QED BY <2>1, <3>2, <3>7
    <2>2. CASE node'.got = node.got /\ node'.readQueue = Append(node.readQueue, item)
      <3> DEFINE q == Append(node.readQueue, item)
      <3>1. /\ Len(q) = Len(node.readQueue) + 1
            /\ DOMAIN q = 1 .. Len(node.readQueue) + 1
            /\ \A k \in DOMAIN node.readQueue : q[k] = node.readQueue[k]
            /\ q[Len(node.readQueue) + 1] = item
        BY <1>1, <1>4, Added
      <3> HIDE DEF q
      <3>2. node'.readQueue = q
        BY <2>2 DEF q
      <3>3. Accepted' = Accepted + 1
        <4>1. Accepted' = Len(node.got) + (Len(node.readQueue) + 1)
          BY <2>2, <3>1, <3>2 DEF Accepted
        <4>2. Len(node.got) + (Len(node.readQueue) + 1) =
                 (Len(node.got) + Len(node.readQueue)) + 1
          BY <1>1, SumNext
        <4> QED BY <4>1, <4>2 DEF Accepted
      <3>4. HandedOver'
        BY <1>0, <2>2 DEF HandedOver, Is
      <3>5. ASSUME NEW k \in DOMAIN q
            PROVE  Is(q[k].frame, Len(node.got) + k) /\ q[k].frame.deflated = ToInflate(q[k])
        <4>1. CASE k \in DOMAIN node.readQueue
          BY <1>0, <3>1, <4>1 DEF OnTheWay
        <4>2. CASE k = Len(node.readQueue) + 1
          <5>1. Len(node.got) + k = Accepted + 1
            <6>1. Len(node.got) + (Len(node.readQueue) + 1) =
                     (Len(node.got) + Len(node.readQueue)) + 1
              BY <1>1, SumNext
            <6> QED BY <4>2, <6>1 DEF Accepted
          <5> QED BY <1>4, <1>8, <1>11, <3>1, <4>2, <5>1
        <4> QED BY <1>1, <3>1, <4>1, <4>2
      <3> QED BY <2>2, <3>2, <3>3, <3>4, <3>5
    <2> QED BY <1>9, <2>1, <2>2
  <1>16. OnTheWay'
    <2>1. Accepted \in Nat
      BY <1>0, Numbers
    <2>2. ASSUME NEW k \in DOMAIN toNode'
          PROVE  Is(toNode'[k], Accepted' + k)
      <3>1. k + 1 \in DOMAIN toNode
        BY <1>1, <1>2, <2>2
      <3>2. k \in Nat /\ 1 \in Nat
        BY <1>1, <1>2, <2>2
      <3>3. Accepted' + k = Accepted + (k + 1)
        BY <1>15, <2>1, <3>2, SumRegroup
      <3> QED BY <1>0, <1>2, <2>2, <3>1, <3>3 DEF OnTheWay
    <2>3. /\ Accepted' + Len(toNode') <= Len(parts)
          /\ ~cut => Accepted' + Len(toNode') = Len(parts)
      BY <1>0, <1>1, <1>2, <1>15, <2>1 DEF OnTheWay
    <2>4. ASSUME NEW k \in DOMAIN node'.readQueue
          PROVE  (/\ Is(node.readQueue[k].frame, Len(node.got) + k)
                  /\ node.readQueue[k].frame.deflated = ToInflate(node.readQueue[k]))'
      BY <1>0, <1>10, <1>15, <2>4 DEF ToInflate, Is
    <2>5. ASSUME NEW k \in DOMAIN toNode'
          PROVE  Is(toNode[k], Accepted + k)'
      BY <1>0, <2>2, <2>5 DEF Is
    <2> QED BY <1>0, <2>3, <2>4, <2>5 DEF OnTheWay
  <1> QED BY <1>11, <1>12, <1>13, <1>14, <1>15, <1>16 DEF IInv, ReadSide

LEMMA Prefix ==
  ASSUME NEW S, NEW s \in Seq(S), NEW k \in 0 .. Len(s)
  PROVE  /\ SubSeq(s, 1, k) \in Seq(S) /\ Len(SubSeq(s, 1, k)) = k
         /\ DOMAIN SubSeq(s, 1, k) = 1 .. k
         /\ \A i \in 1 .. k : SubSeq(s, 1, k)[i] = s[i]
  <1> DEFINE a == SubSeq(s, 1, k)
  <1>0. Len(s) \in Nat /\ \A i \in 1 .. Len(s) : s[i] \in S
    BY LenProperties, ElementOfSeq
  <1>1. \A i \in 1 .. k : s[i] \in S
    BY <1>0
  <1>2. /\ a \in Seq(S) /\ Len(a) = IF 1 <= k THEN k - 1 + 1 ELSE 0
        /\ \A i \in 1 .. k - 1 + 1 : a[i] = s[1 + i - 1]
    BY <1>0, <1>1, SubSeqProperties
  <1> HIDE DEF a
  <1>3. Len(a) = k /\ DOMAIN a = 1 .. k
    BY <1>0, <1>2, LenProperties
  <1>4. \A i \in 1 .. k : a[i] = s[i]
    BY <1>0, <1>2
  <1> QED BY <1>2, <1>3, <1>4 DEF a

LEMMA Suffix ==
  ASSUME NEW S, NEW s \in Seq(S), NEW k \in 0 .. Len(s)
  PROVE  /\ SubSeq(s, k + 1, Len(s)) \in Seq(S)
         /\ Len(SubSeq(s, k + 1, Len(s))) = Len(s) - k
         /\ DOMAIN SubSeq(s, k + 1, Len(s)) = 1 .. Len(s) - k
         /\ \A i \in 1 .. Len(s) - k : SubSeq(s, k + 1, Len(s))[i] = s[k + i]
  <1> DEFINE b == SubSeq(s, k + 1, Len(s))
  <1>0. Len(s) \in Nat /\ \A i \in 1 .. Len(s) : s[i] \in S
    BY LenProperties, ElementOfSeq
  <1>1. \A i \in k + 1 .. Len(s) : s[i] \in S
    BY <1>0
  <1>2. /\ b \in Seq(S) /\ Len(b) = IF k + 1 <= Len(s) THEN Len(s) - (k + 1) + 1 ELSE 0
        /\ \A i \in 1 .. Len(s) - (k + 1) + 1 : b[i] = s[(k + 1) + i - 1]
    BY <1>0, <1>1, SubSeqProperties
  <1> HIDE DEF b
  <1>3. Len(b) = Len(s) - k /\ DOMAIN b = 1 .. Len(s) - k
    BY <1>0, <1>2, LenProperties
  <1>4. ASSUME NEW i \in 1 .. Len(s) - k
        PROVE  b[i] = s[k + i]
    <2>1. i \in 1 .. Len(s) - (k + 1) + 1 /\ (k + 1) + i - 1 = k + i
      BY <1>0
    <2> QED BY <1>2, <2>1
  <1> QED BY <1>2, <1>3, <1>4 DEF b

LEMMA InflatedKeeps == IInv /\ Inflated => IInv'
  <1> SUFFICES ASSUME IInv, Inflated PROVE IInv'
    OBVIOUS
  <1>0. /\ TypeOK /\ node \in Node /\ HandedOver /\ OnTheWay /\ Frames /\ WriteSide
        /\ DisposeWaits
        /\ UNCHANGED <<browser, buffer, needDrain, toBrowser, toNode, parts, cut>>
    BY DEF IInv, TypeOK, ReadSide, Inflated
  <1>1. /\ node.readQueue \in Seq(Queued) /\ Len(node.readQueue) \in Nat
        /\ DOMAIN node.readQueue = 1 .. Len(node.readQueue)
        /\ node.got \in Seq(Data) /\ Len(node.got) \in Nat
        /\ DOMAIN node.got = 1 .. Len(node.got)
        /\ Len(toNode) \in Nat /\ Len(parts) \in Nat
    BY <1>0, Fields, Numbers, LenProperties
  <1>2. PICK k \in DOMAIN node.readQueue :
           LET rest == SubSeq(node.readQueue, k + 1, Len(node.readQueue))
           IN  node' = Fire([node EXCEPT !.readQueue = rest, !.inflating = rest # <<>>],
                            SubSeq(node.readQueue, 1, k))
    BY DEF Inflated
  <1> DEFINE items == SubSeq(node.readQueue, 1, k)
             rest == SubSeq(node.readQueue, k + 1, Len(node.readQueue))
             left == rest # <<>>
             n == [node EXCEPT !.readQueue = rest, !.inflating = left]
  <1>3. k \in 0 .. Len(node.readQueue)
    BY <1>1
  <1>4. /\ items \in Seq(Queued) /\ Len(items) = k
        /\ \A i \in 1 .. k : items[i] = node.readQueue[i]
        /\ rest \in Seq(Queued) /\ Len(rest) = Len(node.readQueue) - k
        /\ DOMAIN rest = 1 .. Len(node.readQueue) - k
        /\ \A i \in 1 .. Len(node.readQueue) - k : rest[i] = node.readQueue[k + i]
    <2> DEFINE q == node.readQueue
    <2>1. q \in Seq(Queued) /\ k \in 0 .. Len(q)
      BY <1>1, <1>3
    <2>2. items = SubSeq(q, 1, k) /\ rest = SubSeq(q, k + 1, Len(q))
      OBVIOUS
    <2> HIDE DEF q, items, rest
    <2>3. /\ items \in Seq(Queued) /\ Len(items) = k
          /\ \A i \in 1 .. k : items[i] = q[i]
      BY <2>1, <2>2, Prefix
    <2>4. /\ rest \in Seq(Queued) /\ Len(rest) = Len(q) - k
          /\ DOMAIN rest = 1 .. Len(q) - k
          /\ \A i \in 1 .. Len(q) - k : rest[i] = q[k + i]
      BY <2>1, <2>2, Suffix
    <2> QED BY <2>3, <2>4 DEF q
  <1>5. node' = Fire(n, items) /\ left \in BOOLEAN
    BY <1>2
  <1> HIDE DEF items, rest, left
  <1>6. /\ n \in Node /\ WriteFields(n) = WriteFields(node) /\ n.disposed = node.disposed
        /\ n.readQueue = rest /\ n.inflating = left /\ n.got = node.got
        /\ n.compressed = node.compressed /\ n.first = node.first /\ n.closed = node.closed
    BY <1>0, <1>4, <1>5 DEF Node, WriteFields
  <1> HIDE DEF n
  <1>7. /\ node' \in Node /\ WriteFields(node') = WriteFields(node)
        /\ node'.readQueue = rest /\ node'.inflating = left
        /\ node'.compressed = node.compressed /\ node'.first = node.first
        /\ node'.closed = node.closed
        /\ \/ node.disposed /\ node'.got = node.got
           \/ /\ Len(node'.got) = Len(node.got) + k
              /\ \A i \in 1 .. Len(node.got) : node'.got[i] = node.got[i]
              /\ \A j \in 1 .. k : node'.got[Len(node.got) + j] = Handed(items[j])
    <2>1. CASE node.disposed
      BY <1>5, <1>6, <2>1 DEF Fire
    <2>2. CASE ~node.disposed
      <3>1. LET f == Fire(n, items)
            IN  /\ f \in Node /\ WriteFields(f) = WriteFields(n)
                /\ f.readQueue = n.readQueue /\ f.inflating = n.inflating
                /\ f.compressed = n.compressed /\ f.first = n.first /\ f.closed = n.closed
                /\ Len(f.got) = Len(n.got) + Len(items)
                /\ \A i \in 1 .. Len(n.got) : f.got[i] = n.got[i]
                /\ \A j \in 1 .. Len(items) : f.got[Len(n.got) + j] = Handed(items[j])
        BY <1>4, <1>6, <2>2, FireFields
      <3> QED BY <1>4, <1>5, <1>6, <3>1
    <2> QED BY <2>1, <2>2
  <1>8. /\ node'.deflate = node.deflate /\ node'.disposed = node.disposed
        /\ node'.queue = node.queue /\ node'.processing = node.processing
    BY <1>7 DEF WriteFields
  <1>9. TypeOK'
    BY <1>0, <1>7, <1>8 DEF TypeOK, left
  <1>10. WriteSide'
    BY <1>0, <1>7, WriteSame
  <1>11. DisposeWaits'
    BY <1>0, <1>8 DEF DisposeWaits
  <1>12. Frames'
    BY <1>0, <1>7, <1>8 DEF Frames, Starts
  <1>13. CASE node.disposed
    <2>1. OnTheWay'
      BY <1>8, <1>13 DEF OnTheWay
    <2>2. CASE node'.got = node.got
      <3>1. HandedOver'
        BY <1>0, <2>2 DEF HandedOver, Is
      <3> QED BY <1>9, <1>10, <1>11, <1>12, <2>1, <3>1 DEF IInv, ReadSide
    <2>3. node'.got = node.got
      BY <1>5, <1>6, <1>13 DEF Fire
    <2> QED BY <2>2, <2>3
  <1>14. CASE ~node.disposed
    <2>1. PICK g \in Nat, r \in Nat :
             g = Len(node.got) /\ r = Len(node.readQueue) /\ Accepted = g + r
      BY <1>1 DEF Accepted
    <2>2. k \in 1 .. r
      BY <1>1, <2>1
    <2>3. /\ Len(node'.got) = g + k
          /\ \A i \in 1 .. g : node'.got[i] = node.got[i]
          /\ \A j \in 1 .. k : node'.got[g + j] = Handed(items[j])
      BY <1>7, <1>14, <2>1
    <2>4. DOMAIN node'.got = 1 .. g + k
      <3>1. node'.got \in Seq(Data)
        BY <1>7 DEF Node
      <3> QED BY <2>3, <3>1, LenProperties
    <2>5. Accepted' = Accepted
      <3>1. Accepted' = (g + k) + (r - k)
        BY <1>4, <1>7, <2>1, <2>3 DEF Accepted
      <3>2. (g + k) + (r - k) = g + r
        BY <2>2
      <3> QED BY <2>1, <3>1, <3>2
    <2>6. /\ g + r + Len(toNode) <= Len(parts)
          /\ \A i \in 1 .. r : /\ Is(node.readQueue[i].frame, g + i)
                               /\ node.readQueue[i].frame.deflated =
                                     ToInflate(node.readQueue[i])
      BY <1>0, <1>1, <1>14, <2>1 DEF OnTheWay
    <2>7. ASSUME NEW i \in DOMAIN node'.got
          PROVE  node'.got[i].readable /\ Is(node'.got[i], i)
      <3>1. CASE i \in 1 .. g
        BY <1>0, <1>1, <2>1, <2>3, <3>1 DEF HandedOver
      <3>2. CASE i \in g + 1 .. g + k
        <4>1. PICK j \in 1 .. k : i = g + j
          <5>1. i - g \in 1 .. k /\ i = g + (i - g)
            BY <2>1, <2>2, <3>2
          <5> QED BY <5>1
        <4>2. j \in 1 .. r /\ items[j] = node.readQueue[j]
          BY <1>4, <2>1, <2>2
        <4>3. /\ Handed(items[j]).readable
              /\ Handed(items[j]).msg = items[j].frame.msg
              /\ Handed(items[j]).part = items[j].frame.part
          BY <2>6, <4>2 DEF Handed
        <4> QED BY <2>3, <2>6, <4>1, <4>2, <4>3 DEF Is
      <3> QED BY <2>1, <2>2, <2>4, <3>1, <3>2
    <2>8. Len(node'.got) <= Len(parts)
      <3>1. ASSUME NEW t \in Nat, NEW p \in Nat, g + r + t <= p
            PROVE  g + k <= p
        BY <2>2, <3>1
      <3> QED BY <1>1, <2>3, <2>6, <3>1
    <2>9. HandedOver'
      BY <1>0, <2>7, <2>8 DEF HandedOver, Is
    <2>10. ASSUME NEW i \in DOMAIN rest
           PROVE  Is(rest[i].frame, (g + k) + i) /\ rest[i].frame.deflated = ToInflate(rest[i])
      <3>1. i \in 1 .. r - k /\ k + i \in 1 .. r /\ g + (k + i) = (g + k) + i
        BY SMTT(20), <1>4, <2>1, <2>2
      <3>2. rest[i] = node.readQueue[k + i]
        BY <1>4, <2>1, <3>1
      <3> QED BY <2>6, <3>1, <3>2
    <2>11. OnTheWay'
      <3>1. ASSUME NEW i \in DOMAIN node'.readQueue
            PROVE  (/\ Is(node.readQueue[i].frame, Len(node.got) + i)
                    /\ node.readQueue[i].frame.deflated = ToInflate(node.readQueue[i]))'
        BY <1>0, <1>7, <1>8, <2>3, <2>10, <3>1 DEF ToInflate, Is
      <3>2. ASSUME NEW i \in DOMAIN toNode'
            PROVE  Is(toNode[i], Accepted + i)'
        BY <1>0, <1>14, <2>5, <3>2 DEF OnTheWay, Is
      <3>3. /\ Accepted' + Len(toNode') <= Len(parts)
            /\ ~cut => Accepted' + Len(toNode') = Len(parts)
        BY <1>0, <1>14, <2>5 DEF OnTheWay
      <3> QED BY <1>0, <3>1, <3>2, <3>3 DEF OnTheWay
    <2> QED BY <1>9, <1>10, <1>11, <1>12, <2>9, <2>11 DEF IInv, ReadSide
  <1> QED BY <1>13, <1>14

-----------------------------------------------------------------------------
(* The browser end.                                                        *)

(* What is sent is appended to what is on its way, with all its frames.    *)
LEMMA BrowserSendKeeps == IInv /\ BrowserSend => IInv'
  <1> SUFFICES ASSUME IInv, BrowserSend PROVE IInv'
    OBVIOUS
  <1> DEFINE m == browser.sent + 1
  <1>0. /\ TypeOK /\ node \in Node /\ browser \in Browser /\ HandedOver /\ OnTheWay /\ Frames
        /\ WriteSide /\ DisposeWaits
        /\ UNCHANGED <<node, buffer, needDrain, toBrowser, cut>>
    BY DEF IInv, TypeOK, ReadSide, BrowserSend
  <1>1. m \in Message /\ m \in 0 .. MaxMessages
    BY <1>0, BoundAssumption DEF BrowserSend, More, Message, Node, Browser
  <1>2. PICK deflated \in {FALSE, node.deflate}, last \in {1, 2} :
           LET frames == [k \in 1 .. last |->
                             [msg |-> m, part |-> k, deflated |-> deflated,
                              rsv1 |-> deflated /\ k = 1, fin |-> k = last]]
           IN  /\ browser' = [browser EXCEPT !.sent = m]
               /\ toNode' = IF cut THEN toNode ELSE toNode \o frames
               /\ parts' = IF cut THEN parts ELSE parts \o [k \in 1 .. last |-> <<m, k>>]
    BY DEF BrowserSend
  <1> DEFINE frames == [k \in 1 .. last |->
                           [msg |-> m, part |-> k, deflated |-> deflated,
                            rsv1 |-> deflated /\ k = 1, fin |-> k = last]]
             ids == [k \in 1 .. last |-> <<m, k>>]
  <1>3. /\ browser' = [browser EXCEPT !.sent = m]
        /\ toNode' = IF cut THEN toNode ELSE toNode \o frames
        /\ parts' = IF cut THEN parts ELSE parts \o ids
    BY <1>2
  <1>4. deflated \in BOOLEAN /\ (deflated => node.deflate)
    BY <1>0 DEF Node
  <1>5. \A k \in 1 .. last : [msg |-> m, part |-> k, deflated |-> deflated,
                              rsv1 |-> deflated /\ k = 1, fin |-> k = last] \in Frame
    BY <1>1, <1>4 DEF Frame
  <1>6. frames \in [1 .. last -> Frame] /\ ids \in [1 .. last -> Message \X {1, 2}]
    <2>1. \A k \in 1 .. last : <<m, k>> \in Message \X {1, 2}
      BY <1>1
    <2> QED BY <1>5, <2>1
  <1>7. \A k \in 1 .. last : /\ frames[k].msg = m /\ frames[k].part = k /\ ids[k] = <<m, k>>
                             /\ frames[k].deflated = deflated
                             /\ frames[k].rsv1 = (deflated /\ k = 1)
                             /\ frames[k].fin = (k = last)
    OBVIOUS
  <1> HIDE DEF frames, ids, m
  <1>8. /\ frames \in Seq(Frame) /\ Len(frames) = last
        /\ ids \in Seq(Message \X {1, 2}) /\ Len(ids) = last
    <2>1. last \in Nat
      OBVIOUS
    <2>2. frames \in Seq(Frame) /\ ids \in Seq(Message \X {1, 2})
      BY <1>6, <2>1, SeqDef
    <2> QED BY <1>6, <2>1, <2>2, LenProperties
  <1>9. /\ browser' \in Browser /\ browser'.got = browser.got
        /\ browser'.blobs = browser.blobs /\ browser'.reading = browser.reading
    BY <1>0, <1>1, <1>3 DEF Browser
  <1>10. WriteSide'
    BY <1>0, <1>9, WriteSame
  <1>11. DisposeWaits'
    BY <1>0 DEF DisposeWaits
  <1>12. toNode \in Seq(Frame) /\ parts \in Seq(Message \X {1, 2})
    BY <1>0, Fields DEF TypeOK
  <1>13. TypeOK'
    <2>1. toNode' \in Seq(Frame) /\ parts' \in Seq(Message \X {1, 2})
      BY <1>3, <1>8, <1>12, ConcatProperties
    <2> QED BY <1>0, <1>9, <2>1 DEF TypeOK
  <1>14. CASE cut
    <2>1. ReadSide'
      <3>1. ReadSide /\ ReadFields(node') = ReadFields(node) /\ node'.disposed = node.disposed
        BY <1>0 DEF ReadSide
      <3>2. UNCHANGED <<toNode, parts, cut>>
        BY <1>0, <1>3, <1>14
      <3> QED BY <3>1, <3>2, ReadSame
    <2> QED BY <1>10, <1>11, <1>13, <2>1 DEF IInv
  <1>15. CASE ~cut
    <2>1. PICK t \in Nat, p \in Nat, g \in Nat, a \in Nat :
             t = Len(toNode) /\ p = Len(parts) /\ g = Len(node.got) /\ a = Accepted
      BY <1>0, Numbers
    <2>2. /\ Len(toNode') = t + last
          /\ \A i \in 1 .. t : toNode'[i] = toNode[i]
          /\ \A k \in 1 .. last : toNode'[t + k] = frames[k]
      <3>1. /\ Len(toNode') = t + last
            /\ \A i \in 1 .. t + last :
                  toNode'[i] = IF i <= t THEN toNode[i] ELSE frames[i - t]
        BY <1>3, <1>8, <1>12, <1>15, <2>1, ConcatProperties
      <3>2. ASSUME NEW k \in 1 .. last
            PROVE  toNode'[t + k] = frames[k]
        <4>1. t \in Nat /\ last \in Nat
          BY <2>1
        <4>2. t + k \in 1 .. t + last /\ ~(t + k <= t) /\ (t + k) - t = k
          BY <4>1
        <4> QED BY <3>1, <4>2
      <3>3. \A i \in 1 .. t : i \in 1 .. t + last /\ i <= t
        OBVIOUS
      <3> QED BY <3>1, <3>2, <3>3
    <2>3. /\ Len(parts') = p + last
          /\ \A i \in 1 .. p : parts'[i] = parts[i]
          /\ \A k \in 1 .. last : parts'[p + k] = ids[k]
      <3>1. /\ Len(parts') = p + last
            /\ \A i \in 1 .. p + last :
                  parts'[i] = IF i <= p THEN parts[i] ELSE ids[i - p]
        BY <1>3, <1>8, <1>12, <1>15, <2>1, ConcatProperties
      <3>2. ASSUME NEW k \in 1 .. last
            PROVE  parts'[p + k] = ids[k]
        <4>1. p + k \in 1 .. p + last /\ ~(p + k <= p) /\ (p + k) - p = k
          BY <2>1
        <4> QED BY <3>1, <4>1
      <3>3. \A i \in 1 .. p : i \in 1 .. p + last /\ i <= p
        OBVIOUS
      <3> QED BY <3>1, <3>2, <3>3
    <2>4. DOMAIN toNode' = 1 .. t + last /\ DOMAIN toNode = 1 .. t
      <3>1. toNode' \in Seq(Frame)
        BY <1>13, Fields DEF TypeOK
      <3> QED BY <1>12, <2>1, <2>2, <3>1, LenProperties
    <2>5. HandedOver'
      <3>1. DOMAIN node.got = 1 .. g /\ g <= p
        <4>1. DOMAIN node.got = 1 .. Len(node.got)
          BY <1>0, Fields, LenProperties
        <4> QED BY <1>0, <2>1, <4>1 DEF HandedOver
      <3>2. \A i \in 1 .. g : i \in 1 .. p
        BY <3>1
      <3>3. g <= p + last
        BY <3>1
      <3>4. \A i \in 1 .. g : parts'[i] = parts[i]
        BY <2>3, <3>2
      <3> QED BY <1>0, <2>1, <2>3, <3>1, <3>3, <3>4 DEF HandedOver, Is
    <2>6. OnTheWay'
      <3> SUFFICES ASSUME ~node.disposed PROVE OnTheWay'
        BY <1>0 DEF OnTheWay
      <3>1. a + t = p
        BY <1>0, <1>15, <2>1 DEF OnTheWay
      <3>2. Accepted' = a
        BY <1>0, <2>1 DEF Accepted
      <3>3. Accepted' + Len(toNode') = Len(parts')
        <4>1. a + (t + last) = p + last
          BY <3>1
        <4> QED BY <2>2, <2>3, <3>2, <4>1
      <3>4. Accepted' + Len(toNode') <= Len(parts')
        <4>1. p + last <= p + last
          OBVIOUS
        <4> QED BY <2>3, <3>3, <4>1
      <3>5. ASSUME NEW i \in DOMAIN node.readQueue
            PROVE  Is(node.readQueue[i].frame, Len(node.got) + i)'
        <4>1. Is(node.readQueue[i].frame, Len(node.got) + i)
          BY <1>0 DEF OnTheWay
        <4>2. PICK r \in Nat : r = Len(node.readQueue) /\ DOMAIN node.readQueue = 1 .. r /\ a = g + r
          <5>1. /\ Len(node.readQueue) \in Nat
                /\ DOMAIN node.readQueue = 1 .. Len(node.readQueue)
            BY <1>0, Fields, LenProperties
          <5> QED BY <2>1, <5>1 DEF Accepted
        <4>3. i \in 1 .. r
          BY <4>2
        <4>4. g + i \in 1 .. p
          <5>1. a = g + r
            BY <4>2
          <5>2. g \in Nat /\ r \in Nat /\ t \in Nat
            BY <2>1, <4>2
          <5> QED BY <3>1, <4>3, <5>1, <5>2
        <4>5. parts'[g + i] = parts[g + i]
          BY <2>3, <4>4
        <4> QED BY <1>0, <2>1, <4>1, <4>5 DEF Is
      <3>6. ASSUME NEW i \in DOMAIN toNode'
            PROVE  Is(toNode[i], Accepted + i)'
        <4>1. CASE i \in 1 .. t
          <5>1. Is(toNode[i], Accepted + i) /\ toNode'[i] = toNode[i]
            BY <1>0, <2>2, <2>4, <4>1 DEF OnTheWay
          <5>2. a + i \in 1 .. p
            BY <3>1, <4>1
          <5>3. parts'[a + i] = parts[a + i]
            BY <2>3, <5>2
          <5> QED BY <2>1, <3>2, <5>1, <5>3 DEF Is
        <4>2. CASE i \in t + 1 .. t + last
          <5>1. PICK k \in 1 .. last : i = t + k
            <6>1. i - t \in 1 .. last /\ i = t + (i - t)
              BY <4>2
            <6> QED BY <6>1
          <5>2. a + i = p + k
            BY <3>1, <5>1
          <5>3. toNode'[i] = frames[k] /\ parts'[a + i] = ids[k]
            BY <2>2, <2>3, <5>1, <5>2
          <5>4. <<toNode'[i].msg, toNode'[i].part>> = parts'[a + i]
            BY <1>7, <5>3
          <5> QED BY <3>2, <5>4 DEF Is
        <4>3. i \in 1 .. t \/ i \in t + 1 .. t + last
          <5>1. i \in 1 .. t + last
            BY <2>4
          <5> QED BY <5>1
        <4> QED BY <4>1, <4>2, <4>3
      <3>7. \A i \in DOMAIN node.readQueue :
               (node.readQueue[i].frame.deflated = ToInflate(node.readQueue[i]))'
        BY <1>0 DEF OnTheWay, ToInflate
      <3> QED BY <1>0, <3>3, <3>4, <3>5, <3>6, <3>7 DEF OnTheWay
    <2>7. Frames'
      <3>1. ASSUME NEW i \in 1 .. t + 1
            PROVE  Starts(i)' = Starts(i)
        <4>1. CASE i = 1
          BY <1>0, <4>1 DEF Starts
        <4>2. CASE i # 1
          <5>1. i - 1 \in 1 .. t
            BY <4>2
          <5> QED BY <2>2, <4>2, <5>1 DEF Starts
        <4> QED BY <4>1, <4>2
      <3>2. Starts(t + 1)
        BY <1>0, <1>15, <2>1 DEF Frames
      <3>3. t + 1 \in 1 .. t + 1 /\ Starts(t + 1)' = Starts(t + 1)
        BY <3>1
      <3>4. ASSUME NEW i \in DOMAIN toNode'
            PROVE  /\ toNode'[i].deflated => node.deflate
                   /\ Starts(i)' => toNode'[i].rsv1 = toNode'[i].deflated
                   /\ ~Starts(i)' => toNode'[i].deflated =
                         IF i = 1 THEN node.compressed ELSE toNode'[i - 1].deflated
        <4>1. CASE i \in 1 .. t
          <5>1. /\ toNode[i].deflated => node.deflate
                /\ Starts(i) => toNode[i].rsv1 = toNode[i].deflated
                /\ ~Starts(i) => toNode[i].deflated =
                      IF i = 1 THEN node.compressed ELSE toNode[i - 1].deflated
            BY <1>0, <2>4, <4>1 DEF Frames
          <5>2. i \in 1 .. t + 1 /\ (i # 1 => i - 1 \in 1 .. t)
            BY <4>1
          <5>3. i # 1 => toNode'[i - 1] = toNode[i - 1]
            BY <2>2, <5>2
          <5> QED BY <2>2, <3>1, <4>1, <5>1, <5>2, <5>3
        <4>2. CASE i = t + 1
          <5>1. toNode'[i] = frames[1] /\ 1 \in 1 .. last
            BY <2>2, <4>2
          <5> QED BY <1>4, <1>7, <3>2, <3>3, <4>2, <5>1
        <4>3. CASE i = t + 2 /\ last = 2
          <5>1. toNode'[i] = frames[2] /\ toNode'[i - 1] = frames[1] /\ i # 1
            <6>1. 1 \in 1 .. last /\ 2 \in 1 .. last /\ i - 1 = t + 1 /\ i # 1
              BY <4>3
            <6> QED BY <2>2, <4>3, <6>1
          <5>2. Starts(i)' = frames[1].fin
            BY <5>1 DEF Starts
          <5>3. 1 \in 1 .. last /\ 2 \in 1 .. last /\ 1 # last
            BY <4>3
          <5>4. /\ ~frames[1].fin
                /\ frames[2].deflated = deflated /\ frames[1].deflated = deflated
            BY <1>7, <5>3
          <5> QED BY <1>4, <5>1, <5>2, <5>4
        <4>4. i \in 1 .. t \/ i = t + 1 \/ (i = t + 2 /\ last = 2)
          <5>1. i \in 1 .. t + last
            BY <2>4
          <5> QED BY <5>1
        <4> QED BY <4>1, <4>2, <4>3, <4>4
      <3>5. Starts(Len(toNode) + 1)'
        <4>1. (t + last) + 1 # 1 /\ ((t + last) + 1) - 1 = t + last /\ last \in 1 .. last
          BY <2>1
        <4>2. toNode'[t + last].fin
          BY <1>7, <2>2, <4>1
        <4> QED BY <2>2, <4>1, <4>2 DEF Starts
      <3> QED BY <1>0, <3>4, <3>5 DEF Frames
    <2> QED BY <1>10, <1>11, <1>13, <2>5, <2>6, <2>7 DEF IInv, ReadSide
  <1> QED BY <1>14, <1>15

LEMMA OnMessageKeeps == IInv /\ OnMessage => IInv'
  <1> SUFFICES ASSUME IInv, OnMessage PROVE IInv'
    OBVIOUS
  <1> DEFINE m == Head(toBrowser)
             t == Tail(toBrowser)
             b == Append(browser.blobs, m)
  <1>0. /\ TypeOK /\ node \in Node /\ browser \in Browser /\ ReadSide /\ Ordered /\ Waiting
        /\ Written /\ DisposeWaits /\ toBrowser # <<>> /\ toBrowser' = t
        /\ browser' = [browser EXCEPT !.blobs = b, !.reading = TRUE]
        /\ UNCHANGED <<node, buffer, needDrain, toNode, parts, cut>>
    BY DEF IInv, TypeOK, WriteSide, OnMessage, Enqueue
  <1>1. /\ toBrowser \in Seq(Message) /\ browser.blobs \in Seq(Message)
        /\ Len(toBrowser) \in Nat /\ Len(browser.blobs) \in Nat
        /\ Len(browser.got) \in Nat /\ Arrived \in Nat
    BY <1>0, Fields, Numbers
  <1>2. m \in Message /\ t \in Seq(Message) /\ Len(t) = Len(toBrowser) - 1
    BY <1>0, <1>1, Removed
  <1>3. m = Arrived + 1 /\ Run(t, Arrived + 1)
    BY <1>0, <1>1, Runs DEF Ordered
  <1>4. b \in Seq(Message) /\ Len(b) = Len(browser.blobs) + 1 /\ b # <<>>
    BY <1>1, <1>2, Added
  <1>5. Run(b, Len(browser.got))
    <2>1. m = Len(browser.got) + Len(browser.blobs) + 1
      BY <1>3 DEF Arrived
    <2> QED BY <1>0, <1>1, <1>2, <2>1, Runs DEF Ordered
  <1> HIDE DEF m, t, b
  <1>6. /\ browser' \in Browser /\ browser'.got = browser.got /\ browser'.blobs = b
        /\ browser'.reading
    BY <1>0, <1>4 DEF Browser
  <1>7. Arrived' = Arrived + 1
    <2>1. Len(browser.got) + (Len(browser.blobs) + 1) =
             (Len(browser.got) + Len(browser.blobs)) + 1
      BY <1>1, SumNext
    <2> QED BY <1>4, <1>6, <2>1 DEF Arrived
  <1>8. Taken' = Taken
    <2>1. ASSUME NEW a \in Nat, NEW l \in Nat
          PROVE  (a + 1) + (l - 1) = a + l
      OBVIOUS
    <2> QED BY <1>0, <1>1, <1>2, <1>7, <2>1 DEF Taken
  <1>9. Ordered'
    BY <1>0, <1>3, <1>5, <1>6, <1>7 DEF Ordered
  <1>10. Waiting'
    BY <1>0, <1>8 DEF Waiting, Destroyed
  <1>11. Written'
    BY <1>0 DEF Written, Destroyed
  <1>12. TypeOK'
    BY <1>0, <1>2, <1>4, <1>6 DEF TypeOK
  <1>13. ReadSide' /\ DisposeWaits'
    <2>1. ReadFields(node') = ReadFields(node) /\ (node.disposed => node'.disposed)
      BY <1>0
    <2> QED BY <1>0, <2>1, ReadSame DEF DisposeWaits
  <1> QED BY <1>9, <1>10, <1>11, <1>12, <1>13 DEF IInv, WriteSide

LEMMA OnLoadKeeps == IInv /\ OnLoad => IInv'
  <1> SUFFICES ASSUME IInv, OnLoad PROVE IInv'
    OBVIOUS
  <1> DEFINE m == Head(browser.blobs)
             b == Tail(browser.blobs)
             g == Append(browser.got, m)
             reading == Len(browser.blobs) > 1
  <1>0. /\ TypeOK /\ node \in Node /\ browser \in Browser /\ ReadSide /\ Ordered /\ Waiting
        /\ Written /\ DisposeWaits /\ browser.reading
        /\ browser' = [browser EXCEPT !.blobs = b, !.got = g, !.reading = reading]
        /\ UNCHANGED <<node, buffer, needDrain, toBrowser, toNode, parts, cut>>
    BY DEF IInv, TypeOK, WriteSide, OnLoad
  <1>1. /\ browser.blobs \in Seq(Message) /\ browser.got \in Seq(Message)
        /\ Len(browser.blobs) \in Nat /\ Len(browser.got) \in Nat
        /\ browser.blobs # <<>>
    BY <1>0, Fields, Numbers DEF TypeOK
  <1>2. /\ m \in Message /\ b \in Seq(Message) /\ Len(b) = Len(browser.blobs) - 1
        /\ Len(browser.blobs) >= 1
    BY <1>1, Removed
  <1>3. m = Len(browser.got) + 1 /\ Run(b, Len(browser.got) + 1)
    BY <1>0, <1>1, Runs DEF Ordered
  <1>4. g \in Seq(Message) /\ Len(g) = Len(browser.got) + 1
    BY <1>1, <1>2, Added
  <1>5. Run(g, 0)
    <2>1. m = 0 + Len(browser.got) + 1 /\ 0 \in Nat
      BY <1>1, <1>3
    <2> QED BY <1>0, <1>1, <1>2, <2>1, Runs DEF Ordered
  <1>6. reading \in BOOLEAN /\ (reading <=> b # <<>>)
    <2>1. b = <<>> <=> Len(b) = 0
      BY <1>2, EmptySeq
    <2>2. ASSUME NEW l \in Nat
          PROVE  l > 1 <=> l - 1 # 0 /\ l # 0
      OBVIOUS
    <2>3. Len(browser.blobs) # 0
      BY <1>2
    <2>4. Len(browser.blobs) > 1 <=> Len(b) # 0
      BY <1>1, <1>2, <2>2, <2>3
    <2>5. reading <=> b # <<>>
      BY <2>1, <2>4
    <2>6. reading \in BOOLEAN
      OBVIOUS
    <2> QED BY <2>5, <2>6
  <1> HIDE DEF m, b, g, reading
  <1>7. /\ browser' \in Browser /\ browser'.got = g /\ browser'.blobs = b
        /\ browser'.reading = reading
    BY <1>0, <1>2, <1>4, <1>6 DEF Browser
  <1>8. Arrived' = Arrived
    <2>1. ASSUME NEW a \in Nat, NEW l \in Nat
          PROVE  (a + 1) + (l - 1) = a + l
      OBVIOUS
    <2> QED BY <1>1, <1>2, <1>4, <1>7, <2>1 DEF Arrived
  <1>9. Ordered'
    BY <1>0, <1>3, <1>4, <1>5, <1>7, <1>8 DEF Ordered
  <1>10. Taken' = Taken
    BY <1>0, <1>8 DEF Taken
  <1>11. Waiting' /\ Written'
    BY <1>0, <1>10 DEF Waiting, Written, Destroyed
  <1>12. TypeOK'
    BY <1>0, <1>6, <1>7 DEF TypeOK
  <1>13. ReadSide' /\ DisposeWaits'
    <2>1. ReadFields(node') = ReadFields(node) /\ (node.disposed => node'.disposed)
      BY <1>0
    <2> QED BY <1>0, <2>1, ReadSame DEF DisposeWaits
  <1> QED BY <1>9, <1>11, <1>12, <1>13 DEF IInv, WriteSide

LEMMA OnCloseKeeps == IInv /\ (OnClose \/ Close) => IInv'
  <1> SUFFICES ASSUME IInv, OnClose \/ Close PROVE IInv'
    OBVIOUS
  <1>0. /\ TypeOK /\ ReadSide /\ WriteSide /\ DisposeWaits /\ browser \in Browser
        /\ UNCHANGED <<node, buffer, needDrain, toBrowser, toNode, parts, cut>>
    BY DEF IInv, TypeOK, OnClose, Close
  <1>1. /\ browser' \in Browser /\ browser'.got = browser.got
        /\ browser'.blobs = browser.blobs /\ browser'.reading = browser.reading
    BY <1>0 DEF OnClose, Close, Browser
  <1>2. TypeOK'
    BY <1>0, <1>1 DEF TypeOK
  <1>3. ReadSide' /\ WriteSide' /\ DisposeWaits'
    <2>1. /\ ReadFields(node') = ReadFields(node) /\ WriteFields(node') = WriteFields(node)
          /\ node.disposed => node'.disposed
          /\ node.closed => node'.closed
      BY <1>0
    <2> QED BY <1>0, <1>1, <2>1, ReadSame, WriteSame DEF DisposeWaits
  <1> QED BY <1>2, <1>3 DEF IInv

(* A cut leaves the first of what is on its way, in both directions.       *)
LEMMA CutKeeps == IInv /\ Cut => IInv'
  <1> SUFFICES ASSUME IInv, Cut PROVE IInv'
    OBVIOUS
  <1>0. /\ TypeOK /\ HandedOver /\ OnTheWay /\ Frames /\ Ordered /\ Written /\ DisposeWaits
        /\ cut' = TRUE /\ UNCHANGED <<node, browser, buffer, needDrain, parts>>
    BY DEF IInv, ReadSide, WriteSide, Cut
  <1>1. /\ toBrowser \in Seq(Message) /\ DOMAIN toBrowser = 1 .. Len(toBrowser)
        /\ Len(toBrowser) \in Nat
        /\ toNode \in Seq(Frame) /\ DOMAIN toNode = 1 .. Len(toNode)
        /\ Len(toNode) \in Nat /\ Len(parts) \in Nat /\ Accepted \in Nat
    BY <1>0, Fields, Numbers, LenProperties
  <1>2. PICK k \in 0 .. Len(toBrowser) : toBrowser' = SubSeq(toBrowser, 1, k)
    BY DEF Cut
  <1>3. PICK l \in 0 .. Len(toNode) : toNode' = SubSeq(toNode, 1, l)
    BY DEF Cut
  <1>4. /\ toBrowser' \in Seq(Message) /\ DOMAIN toBrowser' = 1 .. k
        /\ \A i \in 1 .. k : toBrowser'[i] = toBrowser[i]
    BY <1>1, <1>2, Prefix
  <1>5. /\ toNode' \in Seq(Frame) /\ DOMAIN toNode' = 1 .. l /\ Len(toNode') = l
        /\ \A i \in 1 .. l : toNode'[i] = toNode[i]
    BY <1>1, <1>3, Prefix
  <1>6. TypeOK'
    BY <1>0, <1>4, <1>5 DEF TypeOK
  <1>7. Ordered'
    <2>1. Run(toBrowser', Arrived)
      <3>1. \A i \in 1 .. k : i \in DOMAIN toBrowser
        BY <1>1
      <3> QED BY <1>0, <1>4, <3>1 DEF Ordered, Run
    <2> QED BY <1>0, <2>1 DEF Ordered, Arrived
  <1>8. Waiting' /\ Written' /\ DisposeWaits' /\ HandedOver'
    BY <1>0 DEF Waiting, Written, DisposeWaits, HandedOver, Is, Destroyed
  <1>9. \A i \in 1 .. l : i \in DOMAIN toNode
    BY <1>1
  <1>10. OnTheWay'
    <2> SUFFICES ASSUME ~node.disposed PROVE OnTheWay'
      BY <1>0 DEF OnTheWay
    <2>1. Accepted' = Accepted
      BY <1>0 DEF Accepted
    <2>2. Accepted' + Len(toNode') <= Len(parts')
      <3>1. ASSUME NEW a \in Nat, NEW t \in Nat, NEW p \in Nat, a + t <= p, l <= t
            PROVE  a + l <= p
        BY <3>1
      <3>2. Accepted + Len(toNode) <= Len(parts) /\ l <= Len(toNode)
        BY <1>0, <1>1 DEF OnTheWay
      <3> QED BY <1>0, <1>1, <1>5, <2>1, <3>1, <3>2
    <2>3. \A i \in DOMAIN toNode' : Is(toNode[i], Accepted + i)'
      BY <1>0, <1>5, <1>9, <2>1 DEF OnTheWay, Is
    <2>4. \A i \in DOMAIN node.readQueue :
             (/\ Is(node.readQueue[i].frame, Len(node.got) + i)
              /\ node.readQueue[i].frame.deflated = ToInflate(node.readQueue[i]))'
      BY <1>0 DEF OnTheWay, Is, ToInflate
    <2> QED BY <1>0, <2>2, <2>3, <2>4 DEF OnTheWay
  <1>11. Frames'
    <2>1. ASSUME NEW i \in 1 .. l
          PROVE  Starts(i)' = Starts(i) /\ (i # 1 => toNode'[i - 1] = toNode[i - 1])
      <3>1. i # 1 => i - 1 \in 1 .. l
        OBVIOUS
      <3> QED BY <1>0, <1>5, <3>1 DEF Starts
    <2> QED BY <1>0, <1>5, <1>9, <2>1 DEF Frames
  <1> QED BY <1>6, <1>7, <1>8, <1>10, <1>11 DEF IInv, ReadSide, WriteSide

-----------------------------------------------------------------------------
LEMMA NextIInv == IInv /\ [Next]_vars => IInv'
  <1> SUFFICES ASSUME IInv, [Next]_vars PROVE IInv'
    OBVIOUS
  <1>1. CASE UNCHANGED vars
    BY ZenonT(30), <1>1 DEF vars, IInv, TypeOK, ReadSide, HandedOver, OnTheWay, Frames, Is, Accepted,
                Starts, ToInflate, WriteSide, Ordered, Waiting, Written, Arrived, Taken,
                Destroyed, DisposeWaits
  <1>2. CASE NodeStep
    BY <1>2, WriteKeeps, DeflatedKeeps, DisposeKeeps, EndKeeps, DrainKeeps, KernelTakesKeeps,
       EndEventKeeps, CloseEventKeeps, ReceiveKeeps, InflatedKeeps DEF NodeStep
  <1>3. CASE BrowserStep
    BY <1>3, BrowserSendKeeps, OnMessageKeeps, OnLoadKeeps, OnCloseKeeps DEF BrowserStep
  <1> QED BY <1>1, <1>2, <1>3, CutKeeps DEF Next

(* The inductive invariant: where each message is between the two ends,    *)
(* which stage of a socket is working, and what a drain waits for.         *)
THEOREM Invariance == Spec => []IInv
  BY InitIInv, NextIInv, PTL DEF Spec

(* All values have their types, and each queue is worked at exactly while  *)
(* there is something in it (_processWriteQueue, _processReadQueue,        *)
(* enqueue).                                                               *)
THEOREM TypeCorrect == Spec => []TypeOK
  BY Invariance, PTL DEF IInv

(* NodeSocket.dispose runs only when the write queue is done.              *)
THEOREM DisposesLate == Spec => []DisposeWaits
  BY Invariance, PTL DEF IInv

(* Both ends hand over what was sent in order, once and readable, for any  *)
(* number of messages and whatever the network, zlib and the ends do       *)
(* (acceptFrame, _processReadQueue, enqueue).                              *)
THEOREM Orderly == Spec => []InOrderOnce
  <1>1. IInv => InOrderOnce
    <2> SUFFICES ASSUME IInv PROVE InOrderOnce
      OBVIOUS
    <2>1. HandedOver /\ Run(browser.got, 0)
      BY DEF IInv, ReadSide, WriteSide, Ordered
    <2>2. \A k \in DOMAIN browser.got : browser.got[k] = k
      <3>1. DOMAIN browser.got = 1 .. Len(browser.got) /\ Len(browser.got) \in Nat
        BY Fields, LenProperties DEF IInv
      <3>2. \A k \in 1 .. Len(browser.got) : 0 + k = k
        OBVIOUS
      <3> QED BY <2>1, <3>1, <3>2 DEF Run
    <2> QED BY <2>1, <2>2 DEF InOrderOnce, HandedOver, Is
  <1> QED BY <1>1, Invariance, PTL

(* When a promise of drain is fulfilled on an open socket, all that was    *)
(* written before drain was called is out of the write queue, and in the   *)
(* hands of the kernel unless the other end has half-closed the socket     *)
(* (WebSocketNodeSocket.drain and NodeSocket.drain).                       *)
THEOREM DrainIsTrue == Spec => []DrainedMeansWritten
  <1>1. IInv => DrainedMeansWritten
    <2> SUFFICES ASSUME IInv, node.drain = "done", ~Destroyed, ~node.ended,
                        NEW m \in 1 .. node.mark
                 PROVE  /\ \A k \in DOMAIN node.queue : node.queue[k] # m
                        /\ ~node.halfClosed => \A k \in DOMAIN buffer : buffer[k] # m
      BY DEF DrainedMeansWritten
    <2>1. Above(node.queue, node.mark) /\ (~node.halfClosed => Above(buffer, node.mark))
      BY DEF IInv, WriteSide, Written
    <2>2. ~(m > node.mark)
      BY Numbers DEF IInv
    <2> QED BY <2>1, <2>2 DEF Above
  <1> QED BY <1>1, Invariance, PTL

=============================================================================
