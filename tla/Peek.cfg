SPECIFICATION Spec
CONSTANTS
    Us = 1
    Ms = 3
    Sec = 9
    IntMax = 127
    None = None
    StoreKind = "redis"
    Limiters = {l1}
    Keys <- K1
    Requests <- SubMs
    MaxCasAttempts = 2
    FirstTick = 8
    LastTick = 15
PROPERTY
    PeekMakesNoDifference
