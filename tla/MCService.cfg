SPECIFICATION ServiceSpec
CONSTANTS
    Daemons = {d0, d1, d2}
    Main = d0
    Owner = Owner
    Stoppers = {s1, s2}
    MinIdle = 1
    MaxCount = 2
    MaxWaits = 1
INVARIANTS
    AcceptorAvailable
    DaemonsBounded
    JoinedQuiet
PROPERTIES
    StoppedIsDestroyed
CHECK_DEADLOCK FALSE
