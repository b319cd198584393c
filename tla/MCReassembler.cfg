SPECIFICATION Spec
CONSTANTS
    Capacity = 6
    StreamLength = 8
INVARIANTS
    TypeOK
    OutputIsPrefix
    HeldIsOrderly
    ClosedExactlyAtEnd
PROPERTIES
    ImplementsIndexSet
