SPECIFICATION Spec
CONSTANTS
    root = root
    sub = sub
    a = a
    timer = timer
    w1 = w1
    w2 = w2
    NoObject = NoObject
    Dirs <- OneDir
    Names <- OneName
    Tasks <- ThreeTasks
    Timer <- timer
    MaxCalls = 3
    MaxFaults = 0
    MaxChanges = 0
INVARIANT NextFlushPicksItUp
CHECK_DEADLOCK FALSE
SYMMETRY WorkerSymmetry
