SPECIFICATION ThrottleSpec
CONSTANTS
    Us = 1
    Ms = 2
    Sec = 4
    IntMax = 127
    None = None
    StoreKind = "redis"
    Cell = l1
    Limiters = {l1}
    Keys <- K1
    Commands <- Sent
    Requests <- Asked
    MaxCasAttempts = 2
    FirstTick = 4
    LastTick = 10
INVARIANT
    RetryNeverEarly
