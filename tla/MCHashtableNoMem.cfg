CONSTANTS
    k1 = k1
    k2 = k2
    k3 = k3
    k4 = k4
    NULL = NULL
    Key <- MCKey
    Item <- MCItem1
    ItemKey <- MCItemKey
    Hash <- MCHash
    Tag <- MCTag
    BucketSlots = 1
    BucketBytes = 1
    PageBytes = 1
    HugePageBytes = 4
    Caps = {1}
    DefaultCap = 1
    MapMayFail = TRUE
SPECIFICATION Spec
PROPERTY ImplementsMap
CHECK_DEADLOCK FALSE
