SPECIFICATION FairSpec
CONSTANTS
    s1 = s1
    t1 = t1
    w1 = w1
    Nobody = Nobody
    NoTx = NoTx
    XLM = XLM
    NoJob = NoJob
    Nothing = Nothing
    Price <- MCPrice
    Ops <- MCOps
    Home <- MCHome
    Sessions = {s1}
    Txs = {t1}
    Detectors = {d1}
    Recoverers = {r1}
    TTL = 0
    Stale = 0
    Ids = {e1, e2}
    Workers = {w1}
    MaxConcurrency = 1
    MaxCallers = 1
    MaxFaults = 1
INVARIANTS
    OneEventPerSession
PROPERTIES
    KeepsPromise
    ProcessingResolved
    HeardUnlessFault
CHECK_DEADLOCK FALSE
