SPECIFICATION Spec
CONSTANTS
    Client = Client
    Server = Server
    NoAck = NoAck
    Modulus = 16
    ClientISN = 14
    ServerISN = 3
    ClientBytes = 2
    ServerBytes = 0
    ISN <- MCISN
    Writable <- MCWritable
    Clocks <- OwnClocks
    Prompt = FALSE
    Resets = {Server}
    MaxWindow = 7
    MaxPayload = 2
    SizeModulus = 64
    EOFBytes = {}
    SendCapacity = 2
    RecvCapacity = 2
    InitialRTO = 1
    LingerFactor = 1
    MaxRetx = 1
    MaxInFlight = 2
    MaxFaults = 2
INVARIANTS
    TypeOK
    InsertedInPlace
    EndsAgree
    CleanEndIsComplete
PROPERTIES
    ImplementsStream
CHECK_DEADLOCK FALSE
