SPECIFICATION InputSpec
CONSTANTS
    Kinds = {"isr", "poll"}
    Devices = {d1, d2}
    Irq = {d1}
    Users = {u1, u2}
    Remover = r
    Nobody = Nobody
    MaxCalls = 2
INVARIANTS
    ThreadsFollowLists
PROPERTIES
    CallsReturn
CHECK_DEADLOCK FALSE
