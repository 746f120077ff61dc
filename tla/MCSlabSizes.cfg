CONSTANTS
    MinDataChunk = 48
    MaxDataChunk = 524288
    ItemAlign = 8
    ItemSize = 24
    Requests <- MCRequests
SPECIFICATION Spec
INVARIANTS
    ClassesClimb
    RequestsServed
