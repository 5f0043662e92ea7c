SPECIFICATION Spec
CONSTANTS
    Us = 1
    Ms = 2
    Sec = 4
    IntMax = 127
    None = None
    StoreKind = "redis"
    Keys <- K1
    Requests <- Replicated
    Chunk = 2
    Skew = 1
    FirstTime = 5
    EndOfTime = 6
    MaxPending = 2
INVARIANTS
    ForgetsAtMostOneCall
    BlocksNoLongerThanLag
    BlocksNoLongerThanBurst
