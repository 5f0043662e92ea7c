SPECIFICATION ThrottleSpec
CONSTANTS
    Us = 1
    Ms = 2
    Sec = 4
    IntMax = 127
    None = None
    StoreKind = "redis"
    Cell = l1
    Limiters = {l1}
    Keys <- K1
    Commands <- Sent
    Requests <- Asked
    MaxCasAttempts = 2
    FirstTick = 9
    LastTick = 20
INVARIANTS
    RetryInSeconds
    ResetInSeconds
    OnlyStraysUnreplicated
    StrayKeyHoldsNoDebt
