\* Whose fault a failed file is, when no thread dies by itself.
SPECIFICATION Spec
CONSTANTS
    t1 = t1
    t2 = t2
    t3 = t3
    w1 = w1
    w2 = w2
    Tasks <- MCTasks
    Workers <- MCWorkers
    MaxRuns = 1
    MaxCrashes = 0
SYMMETRY Symmetry
INVARIANTS
    FailuresAreOwn
CHECK_DEADLOCK FALSE
