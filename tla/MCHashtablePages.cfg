CONSTANTS
    k1 = k1
    k2 = k2
    k3 = k3
    k4 = k4
    NULL = NULL
    Key <- MCKey
    Item <- MCItem1
    ItemKey <- MCItemKey
    Hash <- MCHash
    Tag <- MCTag
    BucketSlots = 2
    BucketBytes = 1
    PageBytes = 1
    HugePageBytes = 4
    Caps = {0, 1, 2, 3}
    DefaultCap = 1
    MapMayFail = FALSE
SPECIFICATION Spec
INVARIANT NothingLeftMapped
CHECK_DEADLOCK FALSE
