\* A query, a listing and an export after the check at the start, on two
\* connections of which one may stop answering and the other waits when it is closed.
SPECIFICATION Spec
CONSTANTS
    NConn = 2
    Task <- MCTask
    Early <- MCEarly
    Query = {q}
    Listing = {l}
    Export = {e}
    Probe = {start}
    Startup = start
    Fragile = {2}
    Patient = {1}
    PoolSize = 1
    Nobody = Nobody
    Closer = Closer
INVARIANTS PoolsOpenWhileServing PoolsOutliveRequests ExitReleasesPools
CHECK_DEADLOCK FALSE
