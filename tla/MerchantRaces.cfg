SPECIFICATION Spec
CONSTANTS
    Merchants = {m1, m2}
    Wallets = {w1, w2}
    Emails = {e1, e2}
    Keys = {k1, k2}
    Requests = {q1, q2}
    Nothing = Nothing
    MaxRequests = 4
    MaxFaults = 1
INVARIANTS
    TypeOK
    UniqueAccounts
    AuditAgrees
PROPERTIES
    RevokedByOwner
    WritersHaveTheRole
    RevocationIsFinal
SYMMETRY Symmetric
CHECK_DEADLOCK FALSE
