\* A removal that failed when the artifact expired, before Close.
SPECIFICATION Spec
CONSTANTS
    Call = {c1}
    Link = {}
    Chunk = {1}
    MaxBytes = 1
    MaxTotalBytes = 2
    MaxFiles = 2
    MaxConcurrent = 2
    TTL = 1
    MaxTime = 2
    MaxExits = 0
    OwnedRoot = FALSE
    SharedRoot = FALSE
    RemovalMayFail = TRUE
INVARIANTS CloseRemovesEveryArtifact
CHECK_DEADLOCK FALSE
