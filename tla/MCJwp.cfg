SPECIFICATION JwpSpec
CONSTANTS
    Mod = 3
    Tries = 2
    LineCap = 1
    MaxSend <- Sends
    MaxSends = 3
    MaxSyncs = 1
    MaxOdd = 2
    Beyond = FALSE
INVARIANTS
    AcceptedOnceInOrder
    CompletedArrived
PROPERTIES
    SendReturns
CHECK_DEADLOCK FALSE
