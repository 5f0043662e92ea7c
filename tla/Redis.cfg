SPECIFICATION AuditSpec
CONSTANTS
    Us = 1
    Ms = 3
    Sec = 9
    IntMax = 127
    None = None
    StoreKind = "redis"
    Limiters = {l1}
    Keys <- K1
    Requests <- SubMsRefunds
    MaxCasAttempts = 2
    FirstTick = 8
    LastTick = 15
INVARIANTS
    WindowBound
    RetryPromise
    DebtOutlivesKeyBriefly
    ResetPromise
    RemainingPromise
    LosesOnlyToExpiry
PROPERTIES
    ImplementsBuckets
    PeekKeepsVerdicts
