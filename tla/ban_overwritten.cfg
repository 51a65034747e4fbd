SPECIFICATION Spec
CONSTANTS
    Conns <- TwoConns
    Sources <- TheAddress
    SourceOf <- OneAddress
    InfoIds <- Cells3
    NoInfo = NoInfo
    Behaviors <- OnlyOne
    InitBehavior <- One
    PeriodOfFailedBinds = 1
    BlockFailedBindsFor = 2
    PruneSourcesOlderThan = 4
    MaxService = 1
    MaxTime = 3
    MaxStrikes <- TwoEach
PROPERTIES BanHonoured
CHECK_DEADLOCK FALSE
