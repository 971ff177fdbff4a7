SPECIFICATION BarFairSpec
CONSTANTS
    j1 = j1
    j2 = j2
    f1 = f1
    f2 = f2
    f3 = f3
    Jobs <- TwoJobs
    Files <- ThreeFiles
    JobOf <- ThreeJobOf
    KindOf <- TwoKindOf
    Parallelism <- TwoParallelism
    MaxCancels = 2
INVARIANTS TypeOK NoDrainRace ParallelismBound FinishedReport BarHiddenAtRest
PROPERTY EveryBatchFinishes
CHECK_DEADLOCK FALSE
