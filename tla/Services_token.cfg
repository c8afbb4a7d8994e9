SPECIFICATION TokenSpec
CONSTANTS
    Reader = {r1, r2}
    MaxCopy = 3
    ServiceMessage = {x, y}
    NoMessage = NoMessage
    DefaultCap = 2
    DefaultThr = 1
    MaxLen = 5
INVARIANT TokenOwn
CHECK_DEADLOCK FALSE
