\* One window and its extension host: two bad sockets, then two good ones.
SPECIFICATION FairSpec
CONSTANTS
    MaxSocket = 4
    Bad = {1, 2}
    Trouble = {"fork", "exit", "expiry", "others", "leave"}
CHECK_DEADLOCK FALSE
INVARIANTS TypeOK HandoffLosesNothing GraceRunsIffLost RefusedOnlyWhenOver
PROPERTIES EventuallyDelivered ForgetsTheGone
