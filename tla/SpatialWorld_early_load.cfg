SPECIFICATION FairSpec
CONSTANTS
    MaxScale = 1
    Coord <- Single
    Keepalive = 0
    MaxStep = 1
    Data = {empty}
    Empty = empty
    NoData = NoData
    Null = Null
    Failing = {}
INVARIANT LoadedMeansRead
