SPECIFICATION Spec
CONSTANTS
    Capacity = 4
    StreamLength = 2
INVARIANT InsertNeverThrows
