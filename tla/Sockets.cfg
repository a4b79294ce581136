\* Messages both ways, with and without permessage-deflate.
SPECIFICATION FairSpec
CONSTANTS
    MaxMessages = 2
    HighWaterMark = 2
CHECK_DEADLOCK FALSE
INVARIANTS InOrderOnce DrainedMeansWritten DisposeWaits
PROPERTIES EventuallyFinished EventuallyDelivered
