CONSTANTS
    e1 = e1
    e2 = e2
    k1 = k1
    a1 = a1
    w2 = w2
    None = None
    Events = {e1, e2}
    Aggregates = {a1, a2}
    Keys = {k1, k2}
    Dispatchers = {w1, w2}
    Nodes = {n1}
    MaxAttempts = 2
    Lease = 1
    MaxBackoff = 1
    Retention = 1
    Lag = 0
    PruneLimit = 1
    BatchSize = 2
    Concurrent = TRUE
SPECIFICATION FairSpec
CONSTRAINT
    FirstFirst
    OnceApart
INVARIANTS
    DeliveredReceived
    OrderedDelivery
    CursorCovers
PROPERTIES
    Settles
    EveryNodeHears
CHECK_DEADLOCK FALSE
