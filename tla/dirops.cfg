SPECIFICATION Spec
CONSTANTS
    t1 = t1
    t2 = t2
    Tasks = {t1, t2}
    Kinds <- AllKinds
    Modes = {TRUE, FALSE}
    FolderNames = {"a", "b"}
    FileNames = {"f"}
    OldFolder = {"a"}
    DirNames <- Nested
    Rels <- DirectAndDeep
    MaxItems = 2
    MaxCommands = 2
    MaxAlone = 3
    MaxFaults = 1
INVARIANTS TypeOK NothingLost NamesKept NamesDurable KnownDirsExist
PROPERTIES SuccessMeansDone
SYMMETRY TaskSymmetry
CHECK_DEADLOCK FALSE
