SPECIFICATION SSpec
CONSTANTS
    Files = {f1, f2, f3}
    Contents <- AllContents
    Valid <- Loadable
    Nil = Nil
    Editors <- KeyChanges
    Accounts <- Versions
    WithAccounts <- Merging
    Empty <- Broken
    Preconfig <- Fixed
    Cold = FALSE
    MayRevert = FALSE
    MaxPublished = 2
    MaxCrashes = 2
    MaxHandlers = 2
INVARIANTS YubikeyReloaded
CHECK_DEADLOCK FALSE
