-------------------------- MODULE WebSocketSocket ---------------------------
(***************************************************************************)
(* One WebSocket between a window and the server: BrowserWebSocket with    *)
(* its queue of blobs (vscode/src/vs/platform/remote/browser/              *)
(* browserSocketFactory.ts) at one end, WebSocketNodeSocket over           *)
(* NodeSocket with the queues of WebSocketFlowManager (vscode/src/vs/base/ *)
(* parts/ipc/node/ipc.net.ts) at the other.  What is written to the node   *)
(* end is deflated one message after the other, what it reads is inflated  *)
(* one frame after the other, and end, dispose, drain and the close event  *)
(* come in between.                                                        *)
(*                                                                         *)
(* The WebSocket of the browser, zlib and the sockets of node are external *)
(* and taken as documented.  The bytes of a frame are one element.         *)
(***************************************************************************)
EXTENDS Integers, Sequences

CONSTANTS
    MaxMessages,   \* bound: messages written at both ends together
    HighWaterMark  \* a write that leaves so many messages buffered returns false

ASSUME BoundAssumption == MaxMessages \in Nat
ASSUME MarkAssumption == HighWaterMark \in Nat \ {0}

Message == 1 .. MaxMessages

(* A frame on its way to the node end: a message in one or two parts; only *)
(* the first has the RSV1 bit when the message is deflated.                *)
Frame == [msg : Message, part : {1, 2}, deflated : BOOLEAN, rsv1 : BOOLEAN, fin : BOOLEAN]

(* What acceptFrame queues, and what onData hands over: it can be read if  *)
(* it was inflated exactly when it was deflated.                           *)
Queued == [frame : Frame, isCompressed : BOOLEAN]
Data == [msg : Message, part : {1, 2}, readable : BOOLEAN]

(* queue: _writeQueue with the message that is being deflated, while       *)
(* processing.  ended: _isEnded.  disposing: dispose waits for the queue.  *)
(* drain: what the promise of drain awaits; "late" if it awaits the queue  *)
(* behind dispose.  mark: history, the messages written when drain was     *)
(* called.  readQueue, inflating: the same for what is read.  compressed,  *)
(* first: the state of _acceptChunk.  halfClosed, closed: the 'end' and    *)
(* the close event of node's socket have come.                             *)
Node == [deflate : BOOLEAN, written : 0 .. MaxMessages, queue : Seq(Message),
         processing : BOOLEAN, ended : BOOLEAN, disposing : BOOLEAN, disposed : BOOLEAN,
         drain : {"no", "queue", "late", "turn", "socket", "done"},
         mark : 0 .. MaxMessages,
         readQueue : Seq(Queued), inflating : BOOLEAN, compressed : BOOLEAN,
         first : BOOLEAN, got : Seq(Data), halfClosed : BOOLEAN, closed : BOOLEAN]

(* blobs: _queue with the blob the FileReader is reading.  isClosed:       *)
(* _isClosed.  left: close() was called here.                              *)
Browser == [sent : 0 .. MaxMessages, blobs : Seq(Message), reading : BOOLEAN,
            isClosed : BOOLEAN, left : BOOLEAN, got : Seq(Message)]

VARIABLES
    node, browser,
    buffer,     \* the writable buffer of node's socket
    needDrain,  \* a write has returned false, 'drain' will be emitted
    toBrowser,  \* taken by the kernel: messages on their way to the browser
    toNode,     \* frames on their way to the node end
    parts,      \* history: the parts the browser has sent, in order
    cut         \* the network has dropped the connection

vars == <<node, browser, buffer, needDrain, toBrowser, toNode, parts, cut>>

Init ==
    /\ \E deflate \in BOOLEAN :
          node = [deflate |-> deflate, written |-> 0, queue |-> <<>>, processing |-> FALSE,
                  ended |-> FALSE, disposing |-> FALSE, disposed |-> FALSE,
                  drain |-> "no", mark |-> 0, readQueue |-> <<>>, inflating |-> FALSE,
                  compressed |-> FALSE, first |-> TRUE, got |-> <<>>,
                  halfClosed |-> FALSE, closed |-> FALSE]
    /\ browser = [sent |-> 0, blobs |-> <<>>, reading |-> FALSE, isClosed |-> FALSE,
                  left |-> FALSE, got |-> <<>>]
    /\ buffer = <<>> /\ needDrain = FALSE
    /\ toBrowser = <<>> /\ toNode = <<>> /\ parts = <<>>
    /\ cut = FALSE

More == node.written + browser.sent < MaxMessages

(* socket.destroyed, after dispose as after the close event. *)
Destroyed == node.disposed \/ node.closed

-----------------------------------------------------------------------------
(* The node end, writing. *)

(* WebSocketNodeSocket._write and NodeSocket.write: the kernel takes the   *)
(* message at once if it can and nothing is buffered.                      *)
SocketWrite(m) ==
    \/ /\ node.ended \/ Destroyed
       /\ UNCHANGED <<buffer, needDrain, toBrowser>>
    \/ /\ ~node.ended /\ ~Destroyed /\ ~cut /\ buffer = <<>>
       /\ toBrowser' = Append(toBrowser, m)
       /\ UNCHANGED <<buffer, needDrain>>
    \/ /\ ~node.ended /\ ~Destroyed
       /\ buffer' = Append(buffer, m)
       /\ needDrain' = (needDrain \/ Len(buffer) + 1 >= HighWaterMark)
       /\ UNCHANGED toBrowser

(* writeMessage: the queue is processed at once, up to its first deflate.  *)
(* Nobody writes to a socket that was disposed of.                         *)
Write ==
    /\ More /\ ~node.disposing /\ ~node.disposed
    /\ LET m == node.written + 1
       IN  \/ /\ node.deflate
              /\ node' = [node EXCEPT !.written = m, !.queue = Append(@, m),
                                      !.processing = TRUE]
              /\ UNCHANGED <<buffer, needDrain, toBrowser>>
           \/ /\ ~node.deflate
              /\ node' = [node EXCEPT !.written = m]
              /\ SocketWrite(m)
    /\ UNCHANGED <<browser, toNode, parts, cut>>

(* Mutated: drain is not told. *)
FinishSilent(n) == [n EXCEPT !.processing = FALSE, !.disposed = @ \/ n.disposing]

(* onDidFinishProcessingWriteQueue: dispose goes on if it waits for this,  *)
(* and drain, in a microtask.  A drain that began to wait after dispose is *)
(* not told: dispose disposes of the emitter, which forgets the listeners  *)
(* it has not called yet.                                                  *)
Finish(n) ==
    [n EXCEPT !.processing = FALSE, !.disposed = @ \/ n.disposing,
              !.drain = IF @ = "queue" THEN "turn" ELSE @]

(* _processWriteQueue goes on when zlib has flushed a message.  If dispose *)
(* waits for the last one, NodeSocket.dispose loses what the kernel has    *)
(* not taken.                                                              *)
Deflated ==
    /\ node.processing
    /\ LET rest == [node EXCEPT !.queue = Tail(@)]
       IN  node' = IF rest.queue # <<>> THEN rest ELSE Finish(rest)
    /\ \/ /\ ~node'.disposed \/ node.disposed
          /\ SocketWrite(Head(node.queue))
       \/ /\ node'.disposed /\ ~node.disposed
          /\ buffer' = <<>>
          /\ \/ UNCHANGED toBrowser
             \/ /\ buffer = <<>> /\ ~node.ended /\ ~node.closed /\ ~cut
                /\ toBrowser' = Append(toBrowser, Head(node.queue))
          /\ UNCHANGED needDrain
    /\ UNCHANGED <<browser, toNode, parts, cut>>

(* Mutated: what is being deflated is not waited for. *)
DisposeAtOnce ==
    /\ ~node.disposing /\ ~node.disposed
    /\ node' = [node EXCEPT !.disposed = TRUE]
    /\ buffer' = <<>>
    /\ UNCHANGED <<browser, needDrain, toBrowser, toNode, parts, cut>>

(* WebSocketNodeSocket.dispose *)
Dispose ==
    /\ ~node.disposing /\ ~node.disposed
    /\ \/ /\ node.processing
          /\ node' = [node EXCEPT !.disposing = TRUE]
          /\ UNCHANGED buffer
       \/ /\ ~node.processing
          /\ node' = [node EXCEPT !.disposed = TRUE]
          /\ buffer' = <<>>
    /\ UNCHANGED <<browser, needDrain, toBrowser, toNode, parts, cut>>

(* end: what is still to be deflated will be dropped. *)
End ==
    /\ ~node.ended
    /\ node' = [node EXCEPT !.ended = TRUE]
    /\ UNCHANGED <<browser, buffer, needDrain, toBrowser, toNode, parts, cut>>

(* NodeSocket.drain: bufferSize is 0, or one of four events is awaited.  A *)
(* socket without a handle has no bufferSize.                              *)
SocketDrain == IF buffer = <<>> /\ ~Destroyed THEN "done" ELSE "socket"

(* Mutated: the write queue is not waited for. *)
DrainSocket ==
    /\ node.drain = "no"
    /\ node' = [node EXCEPT !.mark = node.written, !.drain = SocketDrain]
    /\ UNCHANGED <<browser, buffer, needDrain, toBrowser, toNode, parts, cut>>

(* drain, and its continuation once the write queue is done. *)
Drain ==
    /\ node.drain = "no"
    /\ node' = [node EXCEPT !.mark = node.written,
                            !.drain = IF ~node.processing THEN SocketDrain
                                      ELSE IF node.disposing THEN "late" ELSE "queue"]
    /\ UNCHANGED <<browser, buffer, needDrain, toBrowser, toNode, parts, cut>>

DrainContinues ==
    /\ node.drain = "turn"
    /\ node' = [node EXCEPT !.drain = SocketDrain]
    /\ UNCHANGED <<browser, buffer, needDrain, toBrowser, toNode, parts, cut>>

Drained(n) == [n EXCEPT !.drain = IF @ = "socket" THEN "done" ELSE @]

(* The kernel takes more of the buffer; node emits 'drain' when it is      *)
(* empty, but only if a write has returned false and end was not called.   *)
KernelTakes ==
    /\ buffer # <<>> /\ ~Destroyed /\ ~cut
    /\ toBrowser' = Append(toBrowser, Head(buffer))
    /\ buffer' = Tail(buffer)
    /\ IF Len(buffer) = 1 /\ needDrain
       THEN needDrain' = FALSE /\ node' = IF node.ended THEN node ELSE Drained(node)
       ELSE UNCHANGED <<needDrain, node>>
    /\ UNCHANGED <<browser, toNode, parts, cut>>

(* The 'end' event: the other end sends no more, and all it sent is read.  *)
(* The socket is not destroyed, for http allows it to be half open, and    *)
(* keeps its buffer, but drain takes the event for an answer.              *)
EndEvent ==
    /\ ~node.halfClosed /\ ~Destroyed
    /\ browser.isClosed \/ cut
    /\ toNode = <<>>
    /\ node' = [Drained(node) EXCEPT !.halfClosed = TRUE]
    /\ UNCHANGED <<browser, buffer, needDrain, toBrowser, toNode, parts, cut>>

(* The close event of node's socket, when either end or the network has    *)
(* closed it.                                                              *)
CloseEvent ==
    /\ ~node.closed
    /\ node.disposed \/ cut \/ (browser.isClosed /\ toNode = <<>>)
    /\ node' = [Drained(node) EXCEPT !.closed = TRUE]
    /\ buffer' = <<>>
    /\ UNCHANGED <<browser, needDrain, toBrowser, toNode, parts, cut>>

-----------------------------------------------------------------------------
(* The node end, reading. *)

ToInflate(item) == node.deflate /\ item.isCompressed
Handed(item) == [msg |-> item.frame.msg, part |-> item.frame.part,
                 readable |-> item.frame.deflated = ToInflate(item)]

(* _onData.fire, unless the emitter was disposed of. *)
Fire(n, items) ==
    IF n.disposed THEN n
    ELSE [n EXCEPT !.got = @ \o [k \in DOMAIN items |-> Handed(items[k])]]

(* Mutated: what needs no inflating is handed over at once. *)
AcceptFrameAtOnce(n, item) ==
    IF ~ToInflate(item) THEN Fire(n, <<item>>)
    ELSE [n EXCEPT !.readQueue = Append(@, item), !.inflating = TRUE]

(* acceptFrame, _processReadQueue *)
AcceptFrame(n, item) ==
    IF ~n.inflating /\ ~ToInflate(item) THEN Fire(n, <<item>>)
    ELSE [n EXCEPT !.readQueue = Append(@, item), !.inflating = TRUE]

(* _acceptChunk: a continuation frame is as compressed as the first one. *)
Receive ==
    /\ toNode # <<>> /\ ~Destroyed
    /\ LET frame == Head(toNode)
           compressed == IF node.first THEN frame.rsv1 ELSE node.compressed
       IN  node' = AcceptFrame([node EXCEPT !.compressed = compressed, !.first = frame.fin],
                               [frame |-> frame, isCompressed |-> compressed])
    /\ toNode' = Tail(toNode)
    /\ UNCHANGED <<browser, buffer, needDrain, toBrowser, parts, cut>>

(* _processReadQueue goes on when zlib has flushed a frame, up to the next *)
(* that is to be inflated.                                                 *)
Inflated ==
    /\ node.inflating
    /\ \E k \in DOMAIN node.readQueue :
          /\ \A j \in 2 .. k : ~ToInflate(node.readQueue[j])
          /\ k < Len(node.readQueue) => ToInflate(node.readQueue[k + 1])
          /\ LET rest == SubSeq(node.readQueue, k + 1, Len(node.readQueue))
             IN  node' = Fire([node EXCEPT !.readQueue = rest, !.inflating = rest # <<>>],
                              SubSeq(node.readQueue, 1, k))
    /\ UNCHANGED <<browser, buffer, needDrain, toBrowser, toNode, parts, cut>>

-----------------------------------------------------------------------------
(* The browser end. *)

(* BrowserWebSocket.send; the browser deflates a message or not, and sends *)
(* it in one frame or in two.                                              *)
BrowserSend ==
    /\ More /\ ~browser.isClosed
    /\ \E deflated \in {FALSE, node.deflate}, last \in {1, 2} :
          LET m == browser.sent + 1
              frames == [k \in 1 .. last |->
                            [msg |-> m, part |-> k, deflated |-> deflated,
                             rsv1 |-> deflated /\ k = 1, fin |-> k = last]]
          IN  /\ browser' = [browser EXCEPT !.sent = m]
              /\ toNode' = IF cut THEN toNode ELSE toNode \o frames
              /\ parts' = IF cut THEN parts ELSE parts \o [k \in 1 .. last |-> <<m, k>>]
    /\ UNCHANGED <<node, buffer, needDrain, toBrowser, cut>>

(* Mutated: a blob that comes while another is read is dropped. *)
EnqueueFirst(b, m) == IF b.reading THEN b ELSE [b EXCEPT !.blobs = <<m>>, !.reading = TRUE]

(* enqueue *)
Enqueue(b, m) == [b EXCEPT !.blobs = Append(@, m), !.reading = TRUE]

(* The message listener, which close() removes. *)
OnMessage ==
    /\ toBrowser # <<>> /\ ~browser.left
    /\ browser' = Enqueue(browser, Head(toBrowser))
    /\ toBrowser' = Tail(toBrowser)
    /\ UNCHANGED <<node, buffer, needDrain, toNode, parts, cut>>

(* FileReader.onload; close() does not stop it. *)
OnLoad ==
    /\ browser.reading
    /\ browser' = [browser EXCEPT !.blobs = Tail(@), !.got = Append(@, Head(browser.blobs)),
                                  !.reading = Len(browser.blobs) > 1]
    /\ UNCHANGED <<node, buffer, needDrain, toBrowser, toNode, parts, cut>>

(* The close event of the WebSocket, after its last message event. *)
OnClose ==
    /\ ~browser.isClosed /\ toBrowser = <<>>
    /\ Destroyed \/ cut \/ (node.ended /\ buffer = <<>>)
    /\ browser' = [browser EXCEPT !.isClosed = TRUE]
    /\ UNCHANGED <<node, buffer, needDrain, toBrowser, toNode, parts, cut>>

(* BrowserWebSocket.close *)
Close ==
    /\ ~browser.left
    /\ browser' = [browser EXCEPT !.left = TRUE, !.isClosed = TRUE]
    /\ UNCHANGED <<node, buffer, needDrain, toBrowser, toNode, parts, cut>>

(* The network drops the connection with some of what is on its way. *)
Cut ==
    /\ ~cut
    /\ cut' = TRUE
    /\ \E k \in 0 .. Len(toBrowser) : toBrowser' = SubSeq(toBrowser, 1, k)
    /\ \E k \in 0 .. Len(toNode) : toNode' = SubSeq(toNode, 1, k)
    /\ UNCHANGED <<node, browser, buffer, needDrain, parts>>

-----------------------------------------------------------------------------
NodeStep ==
    \/ Write \/ Deflated \/ Dispose \/ End \/ Drain \/ DrainContinues
    \/ KernelTakes \/ EndEvent \/ CloseEvent \/ Receive \/ Inflated
BrowserStep == BrowserSend \/ OnMessage \/ OnLoad \/ OnClose \/ Close

Next == NodeStep \/ BrowserStep \/ Cut

Spec == Init /\ [][Next]_vars

(* zlib, the kernel, the FileReader and the event loops go on.  Nothing is *)
(* ever sent, disposed of, ended or cut for sure, and a socket that only   *)
(* the browser has closed may stay half open: node closes it for sure when *)
(* both ends have ended it, when it is disposed of or when it is cut.      *)
MustClose == node.disposed \/ cut \/ (node.halfClosed /\ node.ended /\ buffer = <<>>)
Fairness ==
    /\ WF_vars(Deflated) /\ WF_vars(DrainContinues) /\ WF_vars(KernelTakes)
    /\ WF_vars(EndEvent) /\ WF_vars(MustClose /\ CloseEvent)
    /\ WF_vars(Receive) /\ WF_vars(Inflated)
    /\ WF_vars(OnMessage) /\ WF_vars(OnLoad) /\ WF_vars(OnClose)

FairSpec == Spec /\ Fairness

-----------------------------------------------------------------------------
(* The types, and that each of the three queues is worked at exactly while *)
(* there is something in it.                                               *)
TypeOK ==
    /\ node \in Node
    /\ browser \in Browser
    /\ buffer \in Seq(Message) /\ needDrain \in BOOLEAN
    /\ toBrowser \in Seq(Message) /\ toNode \in Seq(Frame)
    /\ parts \in Seq(Message \X {1, 2}) /\ cut \in BOOLEAN
    /\ node.processing <=> node.queue # <<>>
    /\ node.inflating <=> node.readQueue # <<>>
    /\ browser.reading <=> browser.blobs # <<>>

(* Each end hands over what the other has sent, in order and once, and     *)
(* inflated exactly when it was deflated: also when deflated and plain     *)
(* messages, whole or in parts, follow each other while zlib is working.   *)
InOrderOnce ==
    /\ Len(node.got) <= Len(parts)
    /\ \A k \in DOMAIN node.got :
          node.got[k].readable /\ <<node.got[k].msg, node.got[k].part>> = parts[k]
    /\ \A k \in DOMAIN browser.got : browser.got[k] = k

(* A promise of drain that is fulfilled on an open socket means that all   *)
(* that was written before is out of the write queue, and that the kernel  *)
(* has it unless the other end has half-closed the socket: Extension-      *)
(* HostConnection then gives the socket to another process.                *)
DrainedMeansWritten ==
    node.drain = "done" /\ ~Destroyed /\ ~node.ended =>
        \A m \in 1 .. node.mark :
            /\ \A k \in DOMAIN node.queue : node.queue[k] # m
            /\ ~node.halfClosed => \A k \in DOMAIN buffer : buffer[k] # m

(* A socket that is disposed of goes only when nothing waits to be         *)
(* deflated: "Wait for any outstanding writes to finish before disposing". *)
DisposeWaits == node.disposed => node.queue = <<>>

(* What is disposed of is released in the end.  A drain that waits for the *)
(* write queue since before dispose goes on when the queue is done, and is *)
(* fulfilled when node will emit 'drain'.                                  *)
EventuallyFinished ==
    /\ node.disposing ~> node.disposed
    /\ node.drain = "queue" ~> node.drain # "queue"
    /\ node.drain = "socket" /\ needDrain /\ ~node.closed ~> node.drain = "done"

(* What is sent over a socket that nobody closes is handed over, and what  *)
(* has come to the browser also when the close event comes first.          *)
EventuallyDelivered ==
    /\ \A m \in Message :
          /\ node.written >= m ~>
                \/ \E k \in DOMAIN browser.got : browser.got[k] = m
                \/ node.ended \/ node.disposing \/ node.disposed \/ browser.left \/ cut
          /\ (\E k \in DOMAIN browser.blobs : browser.blobs[k] = m) ~>
                \E k \in DOMAIN browser.got : browser.got[k] = m
    /\ \A m \in Message : browser.sent >= m ~>
          \/ \E k \in DOMAIN node.got : node.got[k].msg = m
          \/ Destroyed \/ cut

=============================================================================
