CONSTANTS
    None = None
    Nodes = {n1, n2}
    MaxJobs = 2
    MaxChanges = 1
    MaxAttempts = 1
    MaxIndexJobs = 2
    MaxSwitches = 2
    MaxFaults = 1
SPECIFICATION FairSpec
CHECK_DEADLOCK FALSE
INVARIANTS
    CoveredWhileKept
    CancelHolds
    NoGhostPublication
PROPERTIES
    EveryJobEnds
