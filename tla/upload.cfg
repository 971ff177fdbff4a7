SPECIFICATION FairSpec
CONSTANTS
    Kinds <- AllKinds
    Modes = {TRUE, FALSE}
    Lengths = {1, 3}
    Threshold = 1
    PartSize = 2
    retries = 1
    MaxFaults = 2
    MaxToggles = 1
INVARIANTS TypeOK SuccessIsWhole S3NeverTorn AbortCleansUp CreditExact
PROPERTIES EveryUploadEnds
CHECK_DEADLOCK FALSE
