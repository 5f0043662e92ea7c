SPECIFICATION FairSpec
CONSTANTS
    Us = 1
    Ms = 1
    Sec = 1
    IntMax = 127
    None = None
    StoreKind = "memory"
    Limiters = {l1, l2}
    Keys <- K1
    Requests <- TakeAndGive
    MaxCasAttempts = 2
    FirstTick = 10
    LastTick = 11
PROPERTIES
    ImplementsBuckets
    CallsEnd
