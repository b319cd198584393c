SPECIFICATION Spec
CONSTANTS
    SocketRoom = 1
    BufferSize = 1
    SendCapacity = 2
    RecvCapacity = 3
    StdinBytes = 3
    RemoteBytes = 1
    Windows = {1}
    MaxSegments = 1
INVARIANTS
    TypeOK
    SuccessIsComplete
    DeathHasCause
    EndsAreTrue
    NoBusyWait
PROPERTIES
    Terminates
CHECK_DEADLOCK FALSE
