SPECIFICATION FairSpec
CONSTANTS
    Conns <- TwoConns
    Sources <- TwoAddresses
    SourceOf <- OwnAddress
    InfoIds <- Cells3
    NoInfo = NoInfo
    Behaviors <- OnlyTwo
    InitBehavior <- Two
    PeriodOfFailedBinds = 3
    BlockFailedBindsFor = 2
    PruneSourcesOlderThan = 3
    MaxService = 1
    MaxTime = 5
    MaxStrikes <- TwoAndOne
CHECK_DEADLOCK FALSE
INVARIANTS TypeOK BanNeedsStrikes NeverParked
PROPERTIES BanHonoured ImplementsThrottle EveryRequestAnswered
