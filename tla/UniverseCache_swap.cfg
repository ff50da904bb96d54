SPECIFICATION FairCacheSpec
CONSTANTS
    InfoType = {player, universe}
    MapType = {player}
    ID = {1}
    Info = {i1, i2}
    NoInfo = NoInfo
    MaxUpdates = 4
INVARIANTS
    SwapExclusive
PROPERTIES
    UpdatesShown
    Refinement
CHECK_DEADLOCK TRUE
