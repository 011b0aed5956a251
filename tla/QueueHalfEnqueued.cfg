SPECIFICATION Spec
CONSTANTS
    NoJob = NoJob
    Nothing = Nothing
    Ids = {d1}
    Sessions = {s1}
    Workers = {w1}
    MaxAttempts = 2
    MaxConcurrency = 2
    MaxCallers = 2
    MaxFaults = 1
PROPERTIES
    SweepRevivesAll
CHECK_DEADLOCK FALSE
