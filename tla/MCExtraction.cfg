CONSTANTS
    NumFiles = 3
    NumTasks = 5
    ChunksOf <- MCChunksOf
    ClassOf <- MCClassOf
    KeyOf <- MCKeyOf
    Static = {5}
    Confirmed = {1}
    MaxBatch = 2
    FileLimit = 2
    Hooks = {"close"}
    MaxSignals = 2
SPECIFICATION FairSpecAll
INVARIANTS TypeOK AnswersReachTheirTasks
PROPERTIES KeepsPromise SignalEndsProcess
CHECK_DEADLOCK FALSE
