SPECIFICATION Spec
CONSTANTS
    Wallets = {w1}
    NoWallet = NoWallet
    Calls = {c1, c2, c3}
    Ttl = 1
    MaxAttempts = 1
    AttemptsTtl = 1
    MaxRetries = 1
    Threshold = 2
    OpenFor = 1
    MaxParallel = 2
    MaxChallenges = 2
    MaxTime = 1
    MaxFaults = 1
INVARIANTS
    TypeOK
    TokensAreProven
    NotReplayed
    AttemptsBounded
    OnlyRefusalsCount
    BreakerNeedsFailures
SYMMETRY Symmetric
CHECK_DEADLOCK FALSE
