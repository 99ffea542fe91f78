SPECIFICATION HandshakeSpec
CONSTANTS
    Clients = {c1, c2}
    Channels = 2
    MaxSend = 1
    NetCap = 2
INVARIANTS
    PairedOnce
    FailedIsAlone
PROPERTIES
    NotHalfOpen
CHECK_DEADLOCK FALSE
