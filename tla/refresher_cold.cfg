SPECIFICATION RFairSpec
CONSTANTS
    Files = {f1}
    Contents <- Texts
    Valid <- Loadable
    Nil = Nil
    Editors <- FromTheStart
    Accounts <- Versions
    WithAccounts <- Merging
    Empty <- EmptyFile
    Preconfig <- Fixed
    Cold = TRUE
    MayRevert = FALSE
    MaxPublished = 0
    MaxCrashes = 0
PROPERTIES AccountsArrive
CHECK_DEADLOCK FALSE
