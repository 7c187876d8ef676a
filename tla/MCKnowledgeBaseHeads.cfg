CONSTANTS
    None = None
    n1 = n1
    n2 = n2
    w1 = w1
    w2 = w2
    d1 = d1
    d2 = d2
    Nodes = {n1, n2}
    Workers = {w1, w2}
    Deleters = {d1, d2}
    NodeOf <- Placement
    Uploaders = {u1}
    MaxFence = 2
    MaxEpoch = 3
    MaxFaults = 1
SPECIFICATION Spec
INVARIANT
    HeadsAgree
CHECK_DEADLOCK FALSE
