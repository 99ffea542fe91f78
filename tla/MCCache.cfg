SPECIFICATION CacheSpec
CONSTANTS
    Readers = {r1}
    Writers = {w1}
    Bytes = {x, nl}
    Newline = nl
    Size = 3
    MaxLen = 3
    MaxReserved = 1
INVARIANTS
    NobodyForgotten
    NotAllAsleep
PROPERTIES
    RefinesStream
CHECK_DEADLOCK FALSE
