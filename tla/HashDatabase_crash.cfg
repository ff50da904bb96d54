SPECIFICATION Spec
CONSTANTS
    k1 = k1
    k2 = k2
    k3 = k3
    small = small
    large = large
    b1 = b1
    b2 = b2
    Key = {k1, k2, k3}
    Value = {small, large}
    None = None
    Size <- Sizes
    Bucket = {b1, b2}
    BucketOf <- Buckets
    Thread = {t1, t2}
    MaxSize = 5
    PoolCapacity = 1
    ValidationCount = 1
    MaxShiftTries = 3
INVARIANTS
    ChainsSound
    FreeBlocksFree
    QuietImageSound
PROPERTIES
    Durable
    LostOnlyBehind
CHECK_DEADLOCK FALSE
