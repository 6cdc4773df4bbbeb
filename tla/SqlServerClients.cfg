SPECIFICATION Spec
CONSTANTS
    Threads = {t1, t2, t3}
    PoolSize = 1
    Debug = TRUE
    NoPool = NoPool
    MaxCalls = 5
    MaxFaults = 2
INVARIANT ClientsUsable
INVARIANT ConnectionsReturned
INVARIANT ResultTruthful
CHECK_DEADLOCK FALSE
