CONSTANTS
    NULL = NULL
    p1 = p1
    p2 = p2
    l1 = l1
    l2 = l2
    j1 = j1
    Procs = {p1, p2}
    Loops = {l1}
    Home <- MCHome
    Jobs = {j1}
    HeartbeatInterval = 1
    LockRenewInterval = 1
    RecoveryInterval = 1
    StaleAfter = 5
    GracePeriod = 1
    Latency = 1
    MaxMisses = 1
    MaxAge = 7
    Watched = {p2}
SPECIFICATION MCSpec
INVARIANTS TypeOK LiveHandlerHoldsLock OrphanRecoveredInTime
PROPERTY NoOrphanForever
