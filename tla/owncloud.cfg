SPECIFICATION FairSpec
CONSTANTS
    Conns <- TwoConns
    Addrs <- OneAddr
    AddrOf <- OnlyOne
    Users = {"u1", "u2"}
    None = "none"
INVARIANTS TypeOK SearchesAsBound SessionsOfTheConnected
PROPERTIES EveryRequestAnswered
\* Every request may be one that ownCloud never answers, and then nothing moves.
CHECK_DEADLOCK FALSE
