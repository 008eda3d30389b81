CONSTANTS
    NULL = NULL
    w1 = w1
    w2 = w2
    k1 = k1
    Keys = {k1}
    Queues = {}
    Lockers = {}
    Defs <- MCDefs
    Backoff <- MCBackoff
    Workers = {w1, w2}
    Steady = {w1}
    Skew <- MCSkew
    LatestDue <- MCLatestDue
    NextAfter <- MCNextAfter
    CronJobs <- MCCronJobs
    Period = 4
    CronPoll = 1
    Latency = 0
    MaxMisses = 1
    MaxSkew = 1
    MaxJobs = 3
    MaxNow = 10
SPECIFICATION Spec
INVARIANTS TypeOK OncePerOccurrence NoOccurrenceLost NothingOldEnqueued
PROPERTIES CronAdvances
CHECK_DEADLOCK FALSE
