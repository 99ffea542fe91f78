SPECIFICATION QueueSpec
CONSTANTS
    Controllers = {c1}
    MaxTries = 2
    PipeCap = 1
    Producers = {p1, p2}
    PoolNodes = {n1}
    HeapNodes = {h1}
    NoNode = NoNode
    MaxItems = 2
INVARIANTS
    NoForgottenItem
    NodeOwned
    Delivered
PROPERTIES
    ItemHandled
CHECK_DEADLOCK FALSE
