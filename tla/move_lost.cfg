SPECIFICATION Spec
CONSTANTS
    t1 = t1
    t2 = t2
    Tasks = {t1}
    Kinds <- AllKinds
    Modes = {FALSE}
    FolderNames = {"a"}
    FileNames = {"f"}
    OldFolder = {"a"}
    DirNames <- SameNames
    Rels <- Deeper
    MaxItems = 1
    MaxCommands = 2
    MaxAlone = 2
    MaxFaults = 0
INVARIANTS NothingLost
CHECK_DEADLOCK FALSE
