SPECIFICATION Spec
CONSTANTS
    Us = 1
    Ms = 4
    Sec = 8
    IntMax = 127
    None = None
    StoreKind = "redis"
    Limiters = {l1}
    Keys <- K1
    Requests <- Greedy
    MaxCasAttempts = 2
    FirstTick = 0
    LastTick = 8
INVARIANT
    RemainingWithinLimit
