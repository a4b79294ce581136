\* Two of four sockets close under the connection; the window may be closed at
\* any moment, connected or reconnecting.
SPECIFICATION FairSpec
CONSTANTS
    Socket = {s1, s2, s3, s4}
    FirstSocket = s1
    MayClose = {s1, s2}
    Eager = {"client"}
    Trouble = {"leave"}
    MaxAttempts = 1
    MaxSend = 2
CHECK_DEADLOCK FALSE
PROPERTIES EventuallyAcknowledged ForgetsTheGone
