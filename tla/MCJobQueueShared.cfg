CONSTANTS
    NULL = NULL
    q1 = q1
    k1 = k1
    l1 = l1
    l2 = l2
    p1 = p1
    p2 = p2
    w1 = w1
    w2 = w2
    Keys = {k1}
    Queues = {q1}
    Lockers = {l1, l2}
    Procs = {p1, p2}
    WorkerIds = {w1}
    Defs <- MCDefs
    Backoff <- MCBackoff
    Home <- MCHome
    Requests <- MCKeyRequests
    IdOf <- MCSharedIdOf
    Handles <- MCHandles
    StaleAfter = 0
    Retain = 0
    MaxDelay = 0
    MaxJobs = 1
    MaxNow = 1
    MaxAttempt = 2
SYMMETRY ProcSymmetry
SPECIFICATION Spec
INVARIANTS RowsConsistent LockNamesThisAttempt
PROPERTIES ImplementsLease
CHECK_DEADLOCK FALSE
