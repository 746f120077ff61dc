CONSTANTS
    Byte = {a, b}
    Garbage = Garbage
    DefaultCap = 1
    MaxSize = 3
    MaxWrite = 2
    WireSize = 1
SPECIFICATION FairSpec
INVARIANT TypeOK
PROPERTIES
    GrowsOnlyWhenNeeded
    ImplementsStreams
    CallsReturn
