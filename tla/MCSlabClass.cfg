CONSTANTS
    Slab = {s1, s2, s3, s4}
    NULL = NULL
    ChunksPerSlab = 2
    InitialCap = 2
SPECIFICATION Spec
INVARIANTS
    TypeOK
    StackIsSlabsWithRoom
    StackFits
    ChunksAccountedFor
    HeldKnowTheirSlab
PROPERTIES
    GrowsOnlyWhenFull
    ImplementsPool
SYMMETRY MCSymmetry
