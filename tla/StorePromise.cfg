\* A private directory and one slot for two calls: downloads of both artifacts,
\* expiry, Close and a restart, with fair goroutines.
SPECIFICATION FairSpec
CONSTANTS
    Call = {c1, c2}
    Link = {c1, c2}
    Chunk = {1}
    MaxBytes = 1
    MaxTotalBytes = 2
    MaxFiles = 2
    MaxConcurrent = 1
    TTL = 1
    MaxTime = 2
    MaxExits = 1
    OwnedRoot = TRUE
    SharedRoot = FALSE
    RemovalMayFail = FALSE
PROPERTIES KeepsPromise CallsReturn ExpiredIsRemoved
CHECK_DEADLOCK FALSE
