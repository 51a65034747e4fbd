SPECIFICATION FairSpec
CONSTANTS
    Conns <- TwoConns
    Sources <- TheAddress
    SourceOf <- OneAddress
    InfoIds <- Cells3
    NoInfo = NoInfo
    Behaviors <- OnlyTwo
    InitBehavior <- Two
    PeriodOfFailedBinds = 2
    BlockFailedBindsFor = 1
    PruneSourcesOlderThan = 4
    MaxService = 1
    MaxTime = 2
    MaxStrikes <- ThreeEach
PROPERTIES EveryRequestAnswered
CHECK_DEADLOCK FALSE
