SPECIFICATION TransferSpec
CONSTANTS
    Client = client
    Server = server
    MaxHandlers = 2
    Mod = 3
    Retry = 2
    Sizes = {0, 1, 2, 3, 4}
INVARIANTS
    BlocksInPlace
    TransferComplete
PROPERTIES
    TransferReturns
CHECK_DEADLOCK FALSE
