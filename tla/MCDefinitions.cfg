CONSTANTS
    NULL = NULL
    None = None
    p1 = p1
    p2 = p2
    p3 = p3
    p4 = p4
    Processes = {p1, p2, p3, p4}
    JobNames = {"a", "b"}
    Identifiers = {1, 2}
    Environments = {"production", "local"}
    Deployed = {"production"}
    EnvironmentOf <- MCEnvironmentOf
    Invalid = {p4}
    MaxCrons = 2
    Second = 2
    DayLength = 4
    DayOfMonth <- MCDayOfMonth
    Schedules <- MCSchedules
    Zones <- MCZones
    FirstDate <- MCFirstDate
    LastDate = 94
    FirstInstant <- MCFirstInstant
    LastInstant = 32
SPECIFICATION MCSpec
INVARIANTS TypeOK SameVerdictEverywhere NeverSkipped OneRowPerSchedule
    LatestIsGreatest NextIsLeast LocalTimesKept
CHECK_DEADLOCK FALSE
