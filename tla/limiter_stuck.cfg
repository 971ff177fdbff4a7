SPECIFICATION FairSpec
CONSTANTS
    d1 = d1
    Tasks <- OneTask
    Rates <- LowRates
    BurstFloor = 4
    Chunk = 4
    Tag = 1
    ReadSize = 1
    MaxIdle = 4
PROPERTY AcquireReturns
CHECK_DEADLOCK FALSE
