SPECIFICATION Spec
CONSTANTS
    Conns <- TwoConns
    Sources <- TheAddress
    SourceOf <- OneAddress
    InfoIds <- Cells3
    NoInfo = NoInfo
    Behaviors <- OffOrTwo
    InitBehavior <- Two
    PeriodOfFailedBinds = 1
    BlockFailedBindsFor = 1
    PruneSourcesOlderThan = 1
    MaxService = 1
    MaxTime = 3
    MaxStrikes <- ThreeEach
INVARIANTS BanNeedsStrikes
CHECK_DEADLOCK FALSE
