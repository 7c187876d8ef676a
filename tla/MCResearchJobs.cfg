CONSTANTS
    None = None
    Runners = {w1, w2}
    NSections = 2
    MaxAttempts = 3
    MaxGen = 2
    MaxEvents = 4
SPECIFICATION FairSpec
CONSTRAINTS
    OneCallBesidesPauses
CHECK_DEADLOCK FALSE
INVARIANTS
    ReportMatches
PROPERTIES
    
    UserWins
    EveryRunEnds
