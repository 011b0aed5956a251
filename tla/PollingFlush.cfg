SPECIFICATION Spec
CONSTANTS
    NoOne = NoOne
    PersistEvery = 2
    PageSize = 2
    Instances = {i1}
    MaxOps = 4
    MaxFaults = 0
PROPERTIES
    FlushPersists
CHECK_DEADLOCK FALSE
