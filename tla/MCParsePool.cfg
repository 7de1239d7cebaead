\* Two runs over any files, and two threads that die by themselves.
CONSTANTS
    t1 = t1
    t2 = t2
    t3 = t3
    w1 = w1
    w2 = w2
    Tasks <- MCTasks
    Workers <- MCWorkers
    MaxRuns = 2
    MaxCrashes = 2
SPECIFICATION FairSpec
INVARIANTS TypeOK NoTaskLost ParsedInThisRun WorkersKeepBusy
PROPERTY RunSettles
CHECK_DEADLOCK FALSE
