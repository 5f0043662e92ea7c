SPECIFICATION KeysSpec
CONSTANTS
    Us = 1
    Ms = 3
    Sec = 9
    IntMax = 127
    None = None
    StoreKind = "redis"
    Limiters = {l1}
    Keys <- K1
    Requests <- SubMsAndBack
    MaxCasAttempts = 2
    FirstTick = 9
    LastTick = 20
INVARIANTS
    DebtOutlivesKeyBriefly
    RetryPromise
    LosesOnlyToExpiry
PROPERTY
    AsAtomic
