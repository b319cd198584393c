SPECIFICATION FairSpec
CONSTANTS
    Client = Client
    Server = Server
    NoAck = NoAck
    Modulus = 16
    ClientISN = 14
    ServerISN = 3
    ClientBytes = 1
    ServerBytes = 0
    ISN <- MCISN
    Writable <- MCWritable
    Clocks <- OneClock
    Prompt = TRUE
    Resets = {}
    MaxWindow = 7
    MaxPayload = 2
    SizeModulus = 64
    EOFBytes = {}
    SendCapacity = 2
    RecvCapacity = 4
    InitialRTO = 1
    LingerFactor = 4
    MaxRetx = 3
    MaxInFlight = 4
    MaxFaults = 2
PROPERTIES
    BothFinish
CHECK_DEADLOCK FALSE
