CONSTANTS
    s1 = s1
    s2 = s2
    s3 = s3
    w1 = w1
    w2 = w2
    o1 = o1
    None = None
    Svc <- MCTwo
    Boot <- MCOne
    Worker <- MCWorker
    Other <- MCOther
    Weight <- MCWeight
    MaxMsg = 2
    MayFail <- MCSecond
SPECIFICATION Spec
INVARIANTS TypeOK OneOwner SingleThreaded NoDangling CountExact NoStranding
PROPERTIES ImplementsMailbox ZeroIsFinal
CHECK_DEADLOCK FALSE
