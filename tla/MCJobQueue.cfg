CONSTANTS
    NoKey = NoKey
    None = None
    Jobs = {j1, j2}
    Workers = {w1, w2}
    Keys = {k1}
    ReplayKeys = {r1}
    Payloads = {p1}
    MaxAttempts = 2
    Lease = 1
    MaxBackoff = 0
    Retention = 0
    Lag = 1
    ReapLimit = 1
    PruneLimit = 1
SPECIFICATION FairSpec
INVARIANTS
    UniqueOwner
    ReplayOnce
    OutcomeRemembered
PROPERTIES
    FencedFinish
    CancelHonoured
    EveryJobEnds
CHECK_DEADLOCK FALSE
