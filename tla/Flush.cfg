\* The program exits while a write stream is not flushed.
SPECIFICATION Spec
CONSTANTS
    Zip <- Files
    Failing = {}
    TotalFills = TRUE
    Caching = FALSE
    MaxRuns = 1
CHECK_DEADLOCK FALSE
INVARIANT ExitMeansWritten
