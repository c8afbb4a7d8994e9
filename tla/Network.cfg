SPECIFICATION MCSpec
CONSTANTS
    Peer = {7}
    Ops = {"call", "ret", "response", "sleep", "queue", "fail"}
    MaxThread = 3
    MaxSession = 3
    MaxRequest = 2
    MaxWake = 1
INVARIANTS WaitsOnce AnsweredOnce RequestKept Mutex NobodyStranded
PROPERTIES BytesInOrder
CHECK_DEADLOCK FALSE
