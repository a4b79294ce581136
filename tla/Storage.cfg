\* Two windows over one database: w1 writes, closes its storage, vanishes and
\* opens again; transactions of w2 fail.
SPECIFICATION FairSpec
CONSTANTS
    w1 = w1
    w2 = w2
    a = a
    b = b
    c = c
    Window = {w1, w2}
    Key = {a, b, c}
    Value = {1}
    None = None
    Writers <- TwoAndOne
    Closing = {w1}
    Leaving = {w1}
    Failing = {w2}
    Aborting = {w2}
    MaxWrites <- TwiceOnce
    MaxOpens = 2
CHECK_DEADLOCK FALSE
INVARIANTS PendingScheduled OthersHear
PROPERTIES FlushedIsStored ImplementsWriteBehind EventuallyStored EventuallyClosed
