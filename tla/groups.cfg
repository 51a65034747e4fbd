SPECIFICATION SFairSpec
CONSTANTS
    Users = {u1}
    Groups <- Entries
    Gids <- Numbers
    Cyclic = FALSE
    Tables <- Results
    Nothing = 0
    MaxTroubles = 1
INVARIANTS MembersAreThoseWithin MemberOfIsThoseAround BothWaysAgree SteadyMembersListed NobodyElseListed
PROPERTIES WalksEnd
CHECK_DEADLOCK FALSE
