SPECIFICATION FairSpec
CONSTANTS
    Names <- TwoNames
    Kinds = {"sftp", "nfs"}
    Modes = {TRUE, FALSE}
    Passwords <- TwoPasswords
    Dirs <- OneDir
    Budgets <- Scenarios
INVARIANTS TypeOK PageAgrees ListingSettles EditsSaved VaultKept HostTrusted ProfilesAgree
PROPERTIES EveryConnectSettles
CHECK_DEADLOCK FALSE
