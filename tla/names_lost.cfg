SPECIFICATION Spec
CONSTANTS
    t1 = t1
    t2 = t2
    Tasks = {t1}
    Kinds = {"s3"}
    Modes = {TRUE}
    FolderNames = {"a", "b"}
    FileNames = {"f"}
    OldFolder = {"a"}
    DirNames <- TwoFolders
    Rels <- Direct
    MaxItems = 1
    MaxCommands = 4
    MaxAlone = 4
    MaxFaults = 0
INVARIANTS NamesFollowFolder
CHECK_DEADLOCK FALSE
