CONSTANTS
    NoKey = NoKey
    None = None
    n1 = n1
    n2 = n2
    Jobs = {j1, j2}
    Workers = {w1, w2}
    Gens = {g1}
    Builds = {u1}
    Producers = {p1}
    OwnerOf <- TwoNodes
    Files = {f1}
    Contents = {m1}
    ReplayKeys = {r1}
    MaxAttempts = 1
    MaxTokens = 3
    Lease = 1
    MaxBackoff = 0
    Retention = 0
    Lag = 0
    ReapLimit = 1
    PruneLimit = 1
    MaxFaults = 1
    MaxReruns = 1
    Punctual = FALSE
SPECIFICATION Spec
SYMMETRY Symmetry
INVARIANTS
    SucceededPublished
PROPERTIES
    ImplementsQueue
    ImplementsGenerations
CHECK_DEADLOCK FALSE
