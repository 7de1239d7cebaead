CONSTANTS
    Clients = {c1, c2, c3}
    InitialOpt = 2
    SoftMaxOpt = 2
    HardMaxOpt = 3
    MinOpt = 1
    SuccessStreak = 1
    DecreasePercent = 50
    MaxQueue = 1
    MaxRateLimits = 6
    MaxAttempts = 2
    QuotaMin = 1
    ConnMin = 1
    MaxProbes = 1
SPECIFICATION Spec
SYMMETRY CallSymmetry
INVARIANTS TypeOK PermitsOnlyAroundCalls
CHECK_DEADLOCK FALSE
