SPECIFICATION EpollSpec
CONSTANTS
    Clients = {c1, c2}
    Daemons = {d1, d2, d3}
    Nobody = Nobody
    MinIdle = 1
    MaxCount = 2
SYMMETRY Symmetric
INVARIANTS
    PolledOnce
    QueueAttended
    NoForgottenClient
    ReplyNotStranded
CHECK_DEADLOCK FALSE
