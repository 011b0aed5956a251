SPECIFICATION Spec
CONSTANTS
    NoJob = NoJob
    Nothing = Nothing
    Ids = {d1, d2}
    Sessions = {s1}
    Workers = {w1}
    MaxAttempts = 2
    MaxConcurrency = 2
    MaxCallers = 2
    MaxFaults = 1
INVARIANTS
    TypeOK
    OneInFlight
    DeliveredIsAcked
    SessionHoldsUnfinished
    AttemptsCounted
PROPERTIES
    InOrder
    RequeuedIsOver
    SweepLeavesNoBareRow
SYMMETRY Symmetric
CHECK_DEADLOCK FALSE
