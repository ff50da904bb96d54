SPECIFICATION FairSpec
CONSTANTS
    Type = {0, 1}
    Context = {c1, c2}
    Preallocated <- Pools
    Share = 1
    Wrap = 8
    MaxUsed = 1
    MaxSessions = 2
INVARIANTS
    RIDsExact
    RequestsExact
PROPERTIES
    RefilledUnlessLost
CHECK_DEADLOCK TRUE
