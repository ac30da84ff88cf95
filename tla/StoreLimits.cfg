\* Four exports over three slots: the limit on bytes refuses a third that writes,
\* the limit on files a fourth behind artifacts that are empty.
SPECIFICATION Spec
CONSTANTS
    Call = {c1, c2, c3, c4}
    Link = {}
    Chunk = {1}
    MaxBytes = 1
    MaxTotalBytes = 2
    MaxFiles = 3
    MaxConcurrent = 3
    TTL = 1
    MaxTime = 1
    MaxExits = 0
    OwnedRoot = TRUE
    SharedRoot = FALSE
    RemovalMayFail = FALSE
SYMMETRY CallSymmetry
INVARIANTS CountersExact AdmittedWithinLimits DiskWithinLimit
CHECK_DEADLOCK FALSE
