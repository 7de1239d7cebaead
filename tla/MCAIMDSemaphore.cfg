CONSTANTS
    Clients = {c1, c2, c3, c4}
    InitialOpt = 2
    SoftMaxOpt = 4
    HardMaxOpt = 3
    MinOpt = 1
    SuccessStreak = 2
    DecreasePercent = 70
    MaxQueue = 3
    MaxRateLimits = 3
    Calls = {d1, d2}
SPECIFICATION FairSpecAll
INVARIANTS TypeOK PermitAccounting NoLostWakeup
PROPERTIES CongestionWindow FirstComeFirstServed IsPermitPool EveryWaiterLeaves CallsSettle
