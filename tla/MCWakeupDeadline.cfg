CONSTANTS
    NULL = NULL
    l1 = l1
    l2 = l2
    j1 = j1
    j2 = j2
    j3 = j3
    q1 = q1
    Loops = {l1}
    Jobs = {j1}
    QueueOf <- MCQueueOf
    PollInterval = 5
    RetryInterval = 1
    MaxReconnect = 1
    StatementTime = 1
    MaxDelay = 1
    MaxTouches <- MCTouches
    Faults = {}
    MaxFaults = 0
SPECIFICATION Spec
INVARIANTS KnownWorkNotDelayed
