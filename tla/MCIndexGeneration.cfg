CONSTANTS
    n1 = n1
    n2 = n2
    b1 = b1
    b2 = b2
    None = None
    Gens = {g1, g2}
    Builds = {u1, u2}
    Builders = {b1, b2}
    OwnerOf <- OwnNode
    Readers = {r1}
    Collectors = {c1}
    Files = {f1}
    Contents = {m1}
    Lease = 1
    ReaderLease = 2
    Retention = 0
    Lag = 1
    MaxTokens = 2
SPECIFICATION Spec
SYMMETRY NodeSymmetry
CONSTRAINT Bounded
INVARIANTS
    CurrentServable
    CollectedIsDead
    ReaderProtected
PROPERTIES
    TakeoverFences
    HeadAdvances
CHECK_DEADLOCK FALSE
