SPECIFICATION FairSpec
CONSTANTS
    MaxScale = 1
    Coord <- Pair
    Keepalive = 0
    MaxStep = 1
    Data = {d1, empty}
    Empty = empty
    NoData = NoData
    Null = Null
    Failing <- OneOfPair
INVARIANTS
    CommandsMatchState
    NothingOutlived
    SavedContentKept
PROPERTIES
    SavedContentFinal
    NodesFinish
CHECK_DEADLOCK TRUE
