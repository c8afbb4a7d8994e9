SPECIFICATION Spec
CONSTANTS
    Reader = {r1, r2}
    MaxCopy = 3
INVARIANT NoNeedToUnlock
CHECK_DEADLOCK FALSE
