\* Messages are taken off the sockets by another reader, which makes gaps and
\* replay requests, while the server pauses the client, and its own writer.
SPECIFICATION Spec
CONSTANTS
    Payload = {m1, m2}
    Empty = empty
    Socket = {s1, s2}
    FirstSocket = s1
    MayClose = {s1}
    Pausing = {"server"}
    Disposing = {}
    Lossy = TRUE
    MaxSend <- ClientTwo
    MaxQueued = 1
CHECK_DEADLOCK FALSE
SYMMETRY PayloadSymmetry
INVARIANTS WriteScheduled InOrderOnce NothingForgotten
