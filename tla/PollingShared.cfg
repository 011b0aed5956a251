SPECIFICATION FairSpec
CONSTANTS
    NoOne = NoOne
    PersistEvery = 2
    PageSize = 2
    Instances = {i1, i2}
    MaxOps = 3
    MaxFaults = 2
INVARIANTS
    TypeOK
    NothingSkipped
    OneLeader
PROPERTIES
    StoredOnlyAdvances
    EveryOperationProcessed
CHECK_DEADLOCK FALSE
