\* Everything sent arrives over the last socket; the abstract channel is implemented.
SPECIFICATION FairSpec
CONSTANTS
    Payload = {m1}
    Empty = empty
    Socket = {s1, s2}
    FirstSocket = s1
    MayClose = {s1}
    Pausing = {}
    Disposing = {}
    Lossy = FALSE
    MaxSend <- TwoAndOne
    MaxQueued = 0
CHECK_DEADLOCK FALSE
INVARIANTS NoGap
PROPERTIES EventuallyAcknowledged ImplementsChannel

