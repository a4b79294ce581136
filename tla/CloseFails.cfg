\* A storage is closed while an update runs, and the update after it fails.
SPECIFICATION FairSpec
CONSTANTS
    w1 = w1
    w2 = w2
    a = a
    b = b
    c = c
    Window = {w1}
    Key = {a}
    Value = {1}
    None = None
    Writers <- OnlyOne
    Closing = {w1}
    Leaving = {}
    Failing = {w1}
    Aborting = {}
    MaxWrites <- Twice
    MaxOpens = 1
CHECK_DEADLOCK FALSE
PROPERTY EventuallyClosed
