\* Everything goes wrong but a close event of the server that overtakes data.
\* The client is a browser, whose close event does not wait for its reads.
SPECIFICATION Spec
CONSTANTS
    Socket = {s1, s2, s3}
    FirstSocket = s1
    MayClose = {s1, s2, s3}
    Eager = {"client"}
    Trouble = {"unreachable", "refused", "slow", "expiry", "sibling", "leave"}
    MaxAttempts = 0
    MaxSend = 1
CHECK_DEADLOCK FALSE
SYMMETRY LaterSockets
INVARIANTS AnswersMatch GraceRunsIffLost Agreement HandshakeReadsNoData
PROPERTIES ClientNotices NoNewAttempt
