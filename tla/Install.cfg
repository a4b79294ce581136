\* Urls, downloads, responses, archives and entries fail, both archives have folders, and the
\* program is run twice.
SPECIFICATION FairSpec
CONSTANTS
    Zip <- Folders
    Failing = {"url", "download", "response", "archive", "entry"}
    TotalFills = TRUE
    Caching = TRUE
    MaxRuns = 2
CHECK_DEADLOCK FALSE
INVARIANTS CountsTheExtracted
PROPERTY EventuallyEnds
