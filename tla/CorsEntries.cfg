SPECIFICATION Spec
CONSTANTS
    Merchants = {m1, m2}
    Origins = {o1}
    All = All
    Miss = Miss
    Setters = {c1}
    Refreshers = {f1}
    Readers = {q1}
    Ttl = 2
    MaxDelay = 1
    MaxFaults = 1
INVARIANTS
    TypeOK
    CacheIsRecent
PROPERTIES
    DecisionsAreRecent
SYMMETRY Symmetric
