\* Both ends send, the network closes sockets, either end reconnects, and the
\* client is disposed at any moment, also in the middle of a reconnection.
SPECIFICATION Spec
CONSTANTS
    Payload = {m1}
    Empty = empty
    Socket = {s1, s2}
    FirstSocket = s1
    MayClose = {s1, s2}
    Pausing = {}
    Disposing = {"client"}
    Lossy = FALSE
    MaxSend <- OneEach
    MaxQueued = 0
CHECK_DEADLOCK FALSE
INVARIANTS DeadSocketNoticed AckOwed
