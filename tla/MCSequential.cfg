SPECIFICATION MCSpec
CONSTANTS
    Capacity = 3
    MaxPushed = 7
    Sizes = {0, 1, 2, 4}
    Modulus = 8
    MaxCheckpoint = 20
INVARIANTS
    TypeOK
    StreamConsistent
    PeekShowsNextBytes
    ReadIsExact
    ReadAsWritten
    UnwrapFindsNearest
PROPERTIES
    ReadReturns
    ImplementsFifo
