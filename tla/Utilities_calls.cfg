SPECIFICATION Spec
CONSTANTS
    Item = {i1, i2}
    InvalidItem = None
    Depth = 4
    OffsetSize = 16
    ItemSize = 64
    Value = {v1, v2}
    Garbage = Garbage
    Capacity = 1
    Position <- Positions
    MaxLen = 4
    Thread = {t1, t2, t3}
    NoThread = NoThread
    MaxNested = 3
    Owner = {o1, o2, o3}
    Exclusive = 4
    MaxCount = 9
    Caller = {c1, c2}
    ZoneSize = {1, 2}
    MaxFile = 4
    MaxMap = 4
    AllocInit = 1
    PageSize = 1
    LoaderPosition <- LoaderPositions
    DistPerLod = 3
    Setting = {"a", "b", "c"}
    Choice = {"0", "0.0", "x"}
    AsRead <- Numbers
    ConfigDefaults <- Defaults
INVARIANTS
    OctreeExact
    VectorExact
    CheckerExact
    LockSound
    FileShared
    SphereCovered
    SettingsKept
CHECK_DEADLOCK FALSE
