CONSTANTS
    NoKey = NoKey
    None = None
    n1 = n1
    n2 = n2
    Jobs = {j1}
    Workers = {w1}
    Gens = {g1}
    Builds = {u1}
    Producers = {p1}
    OwnerOf <- TwoNodes
    Files = {f1}
    Contents = {m1}
    ReplayKeys = {}
    MaxAttempts = 3
    MaxTokens = 3
    Lease = 2
    MaxBackoff = 0
    Retention = 0
    Lag = 0
    ReapLimit = 1
    PruneLimit = 1
    MaxFaults = 1
    MaxReruns = 0
    Punctual = TRUE
SPECIFICATION FairSpec
PROPERTIES
    Delivered
CHECK_DEADLOCK FALSE
