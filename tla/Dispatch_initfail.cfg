CONSTANTS
    s1 = s1
    s2 = s2
    s3 = s3
    w1 = w1
    w2 = w2
    o1 = o1
    None = None
    Svc <- MCTwo
    Boot <- MCOne
    Worker <- MCWorker
    Other <- MCNoOther
    Weight <- MCWeight
    MaxMsg = 0
    MayFail <- MCTwo
SPECIFICATION FairSpec
PROPERTY EveryQueueFreed
CHECK_DEADLOCK FALSE
