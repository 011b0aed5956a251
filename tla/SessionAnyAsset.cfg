SPECIFICATION Spec
CONSTANTS
    s1 = s1
    s2 = s2
    t1 = t1
    t2 = t2
    t3 = t3
    usdc = usdc
    issuer1 = issuer1
    issuer2 = issuer2
    Nobody = Nobody
    NoTx = NoTx
    XLM = XLM
    Price <- MCPrice
    Sessions = {s1}
    Txs = {t1, t2, t3}
    TTL = 2
    Stale = 1
    Ops <- MCOtherCode
    Detectors = {d1}
    Recoverers = {r1}
    Requests = {q1}
    MaxFaults = 0
INVARIANTS
    PaidInAskedAsset
CHECK_DEADLOCK FALSE
