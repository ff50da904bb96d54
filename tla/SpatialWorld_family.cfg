SPECIFICATION Spec
CONSTANTS
    MaxScale = 2
    Coord <- Family
    Keepalive = 0
    MaxStep = 0
    Data = {empty}
    Empty = empty
    NoData = NoData
    Null = Null
    Failing = {}
INVARIANTS
    LinksExact
CHECK_DEADLOCK TRUE
