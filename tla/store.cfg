SPECIFICATION FairSpec
CONSTANTS
    root = root
    sub = sub
    a = a
    timer = timer
    w1 = w1
    w2 = w2
    NoObject = NoObject
    Dirs <- TwoDirs
    Names <- OneName
    Tasks <- ThreeTasks
    Timer <- timer
    MaxCalls = 2
    MaxFaults = 1
    MaxChanges = 1
INVARIANTS TypeOK NothingStranded
PROPERTIES ImplementsRegister EventuallyWritten
CHECK_DEADLOCK FALSE
