SPECIFICATION Spec
CONSTANTS
    Requests = {r1, r2, r3, r4}
    Instances = {i1, i2}
    NoInstance = NoInstance
    Limit = 2
    Window = 3
    MaxTime = 4
    MaxDelay = 1
    MaxOutages = 1
    MaxLost = 1
INVARIANTS
    TypeOK
    AtMostLimit
    BlockedOnlyWhenFull
SYMMETRY Symmetric
CHECK_DEADLOCK FALSE
