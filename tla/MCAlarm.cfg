SPECIFICATION AlarmSpec
CONSTANTS
    Controllers = {m}
    MaxTries = 2
    PipeCap = 1
    Clients = {c1, c2}
    Nodes = {n1, n2}
    NoNode = NoNode
    Dates = {0, 2}
    Day = 2
    Repeat = 1
    MaxTime = 2
    MaxCalls = 2
INVARIANTS
    ListedAlive
PROPERTIES
    AlarmFires
    RequestServed
CHECK_DEADLOCK FALSE
