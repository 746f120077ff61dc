CONSTANTS
    t1 = t1
    t2 = t2
    ka = ka
    kb = kb
    small = small
    large = large
    huge = huge
    x = x
    y = y
    Thread <- MCThread
    Key <- MCKey
    Value = {small, large, huge}
    Size <- MCSize
    MaxSize = 2
    DstSizes = {1, 2}
    Shard = {x, y}
    ShardOf <- MCShardOf
    Chunk <- MCChunk
    Capacity <- MCCapacity
    Home <- MCHome
    None = None
    NULL = NULL
    Absent = Absent
SPECIFICATION Spec
INVARIANT SetRefusedSafely
