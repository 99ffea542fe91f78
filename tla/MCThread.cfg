SPECIFICATION ThreadSpec
CONSTANTS
    Controllers = {c1, c2}
    MaxTries = 3
    PipeCap = 2
INVARIANTS
    NoLostWakeup
    EventNotLost
    StopIsFinal
PROPERTIES
    StopEndsWorker
CHECK_DEADLOCK FALSE
