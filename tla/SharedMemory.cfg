SPECIFICATION AuditSpec
CONSTANTS
    Us = 1
    Ms = 1
    Sec = 1
    IntMax = 127
    None = None
    StoreKind = "memory"
    Limiters = {l1, l2}
    Keys <- K1
    Requests <- ContendedRefunds
    MaxCasAttempts = 1
    FirstTick = 2
    LastTick = 6
INVARIANTS
    TypeOK
    ExactWindowBound
SYMMETRY Symmetry
