SPECIFICATION Spec
CONSTANTS
    NoAck = NoAck
    Modulus = 12
    MaxWindow = 4
    MaxPayload = 2
    SizeModulus = 64
    EOFBytes = {}
    Capacity = 3
    ISN = 10
    InitialRTO = 2
    Writes = {1, 2}
    Windows = {0, 1, 4}
    Elapses = {1}
    MaxBytes = 4
    MaxRetx = 1
INVARIANTS
    TypeOK
    OutstandingIsContiguous
    TimerAtRest
    NothingForgotten
    FinEndsTheStream
PROPERTIES
    WindowRespected
    PushFillsWindow
    LoopsEnd
