CONSTANTS
    s1 = s1
    s2 = s2
    p2 = p2
    j1 = j1
    j2 = j2
    NoKey = NoKey
    None = None
    Schedules = {s1, s2}
    Pollers = {p1, p2}
    MaxFires = 1
    Interval = 2
    Jobs = {j1, j2}
    Workers = {w1}
    MaxAttempts = 1
    Lease = 1
    MaxBackoff = 0
    Retention = 0
    Lag = 0
    ReapLimit = 1
    PruneLimit = 1
    MaxCrashes = 1
    MaxSwitches = 1
SPECIFICATION FairSpec
CONSTRAINT
    FirstFirst
    SecondBreaks
INVARIANTS
    OneJobPerFire
PROPERTIES
    CatchUp
    ImplementsQueue
    EveryFireRuns
    EveryScheduleFires
CHECK_DEADLOCK FALSE
