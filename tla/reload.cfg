SPECIFICATION SFairSpec
CONSTANTS
    Files = {f1, f2, f3}
    Contents <- AllContents
    Valid <- Loadable
    Nil = Nil
    Editors <- Everything
    Accounts <- Versions
    WithAccounts <- Merging
    Empty <- Broken
    Preconfig <- Fixed
    Cold = FALSE
    MayRevert = FALSE
    MaxPublished = 2
    MaxCrashes = 2
    MaxHandlers = 2
INVARIANTS STypeOK NothingMissed ListensAsConfigured SplittingChangesNothing EveryBackendAsked
PROPERTIES SkipMeansNoChanges AccountsArrive StaysUnlessReloaded
CHECK_DEADLOCK FALSE
