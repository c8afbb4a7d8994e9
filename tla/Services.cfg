SPECIFICATION MCSpec
CONSTANTS
    Reader = {r1, r2}
    MaxCopy = 3
    ServiceMessage = {x, y}
    NoMessage = NoMessage
    DefaultCap = 2
    DefaultThr = 1
    MaxLen = 5
INVARIANTS ObjectAlive CopiesAlive SharedAlive SharedCurrent AnswersEarned
    ReadAsWritten EndsTold
PROPERTIES ImplementsFifo Overloaded
CHECK_DEADLOCK FALSE
