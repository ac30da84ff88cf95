\* Three tasks on two connections, one of which may stop answering; Close at
\* any time.
SPECIFICATION FairManagerSpec
CONSTANTS
    NConn = 2
    Task = {t1, t2, t3}
    Early = {t1}
    Fragile = {2}
    Patient = {1}
    PoolSize = 1
    Nobody = Nobody
    Closer = Closer
INVARIANTS OnePool
PROPERTIES DeadDatabaseBlocksNobodyElse
CHECK_DEADLOCK FALSE
