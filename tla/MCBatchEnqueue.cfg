CONSTANTS
    NULL = NULL
    c1 = c1
    c2 = c2
    k1 = k1
    k2 = k2
    Keys = {k1, k2}
    Queues = {}
    Lockers = {}
    Defs <- MCDefs
    Backoff <- MCBackoff
    Callers = {c1, c2}
    Own = {c1}
    Batches <- MCBatches
    Tables <- MCTables
    MaxCalls <- MCCalls
SPECIFICATION FairSpec
INVARIANTS TypeOK
PROPERTIES AtomicBatches EveryCallEnds
CHECK_DEADLOCK FALSE
