SPECIFICATION Spec
CONSTANTS
    Us = 1
    Ms = 2
    Sec = 4
    IntMax = 127
    None = None
    StoreKind = "redis"
    Limiters = {l1}
    Keys <- K1
    Requests <- Refunds
    MaxCasAttempts = 2
    FirstTick = 2
    LastTick = 8
INVARIANT
    StrayKeyHoldsNoDebt
