SPECIFICATION UdpSpec
CONSTANTS
    Sender = a
    Receiver = b
    WinSize = 3
    MaxCwnd = 2
    MaxSend = 1
    Mod = 24
    Starts = {23}
    NetCap = 2
    MaxMessages = 4
INVARIANTS
    AckedArrived
    SenderNotForgotten
PROPERTIES
    InOrder
CHECK_DEADLOCK FALSE
