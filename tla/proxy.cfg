SPECIFICATION FairSpec
CONSTANTS
    Conns = {c1, c2}
    Addrs = {a1}
    NumServers = 2
    Links = {1, 2, 3}
    Names = {n1}
    Nobody = Nobody
    None = None
    Pings <- TwoServers
    MaxOutages = 1
INVARIANTS TypeOK OwnIdentity SessionsOfTheConnected
PROPERTIES OutageNoticed EveryRequestAnswered
CHECK_DEADLOCK FALSE
