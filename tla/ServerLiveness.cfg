\* One connection, which may stop answering, with a query, an export, a health
\* probe and the check at the start.
SPECIFICATION FairSpec
CONSTANTS
    NConn = 1
    Task <- MCTask
    Early <- MCEarly
    Query = {q}
    Listing = {}
    Export = {e}
    Probe = {start, probe}
    Startup = start
    Fragile = {1}
    Patient = {1}
    PoolSize = 1
    Nobody = Nobody
    Closer = Closer
PROPERTIES ProbesAreAnswered ShutdownCompletes
CHECK_DEADLOCK FALSE
