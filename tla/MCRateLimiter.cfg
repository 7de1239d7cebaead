CONSTANTS
    Clients = {c1, c2, c3}
    Minute = 4
    InitialOpt = 2
    MinOpt = 1
    MaxOpt = 4
    IncreaseStep = 1
    DecreasePercent = 50
    SuccessStreak = 2
    Cooldown = 2
    BurstTicks = 3
SPECIFICATION FairSpec
INVARIANTS TypeOK RateIsKept WaitersAreTimed
PROPERTIES ServedInOrder OneCutPerCooldown EveryTakerIsServed
