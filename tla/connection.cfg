SPECIFICATION FairSpec
CONSTANTS
    f1 = f1
    c1 = c1
    NoTask = NoTask
    Tasks <- TwoTasks
    Commands <- OneCommand
    Retries = 3
    MaxBreaks = 2
    MaxOutages = 1
INVARIANTS TypeOK HealedIsNewer
PROPERTY EveryOperationEnds
CHECK_DEADLOCK FALSE
