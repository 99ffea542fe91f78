SPECIFICATION TimerSpec
CONSTANTS
    Controllers = {c1}
    MaxTries = 2
    PipeCap = 1
    Timers = {t1, t2}
    NoTimer = NoTimer
    Free = Free
    Delays = {0, 1, 2}
    MaxTime = 2
    MaxCalls = 3
INVARIANTS
    SortedOnce
    RestsForFirst
PROPERTIES
    TimerFires
    ServiceStops
CHECK_DEADLOCK FALSE
