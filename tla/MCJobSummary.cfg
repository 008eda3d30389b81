CONSTANTS
    NULL = NULL
    Loops = {l1, l2, l3}
    Names = {a, b}
    MaxStarts = 2
SPECIFICATION Spec
SYMMETRY Symmetry
INVARIANTS TypeOK GaugeIsExecutions EveryStartReported ShortJobsReported EndingsFollowFromLog
CHECK_DEADLOCK FALSE
