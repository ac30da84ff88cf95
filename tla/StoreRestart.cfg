\* A configured export_dir that another process uses too, removals that fail,
\* and a process that dies and starts again, once.
SPECIFICATION Spec
CONSTANTS
    Call = {c1, c2}
    Link = {c1, c2}
    Chunk = {1}
    MaxBytes = 1
    MaxTotalBytes = 2
    MaxFiles = 2
    MaxConcurrent = 1
    TTL = 1
    MaxTime = 2
    MaxExits = 1
    OwnedRoot = FALSE
    SharedRoot = TRUE
    RemovalMayFail = TRUE
SYMMETRY CallSymmetry
INVARIANTS NoStrayFiles DrainedStaysDrained ClosedStoreIsEmpty
CHECK_DEADLOCK FALSE
