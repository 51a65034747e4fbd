SPECIFICATION FairSpec
CONSTANTS
    Files = {f1, f2, f3}
    Contents <- Texts
    Valid <- Loadable
    Nil = Nil
    Editors <- Unlinking
PROPERTIES FollowsTheFile
CHECK_DEADLOCK FALSE
