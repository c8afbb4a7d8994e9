SPECIFICATION MCSpec
CONSTANTS
    None = None
    Svc = {s1, s2, s3}
    Creator = {c1}
    Peer = {p1}
    Name = {1}
    Mask = 7
    DefaultSize = 2
    MaxSeed = 4
    s1 = s1
    s2 = s2
    w1 = w1
    w2 = w2
SYMMETRY Symmetry
INVARIANTS AbortMissesNone GrowthAssertion WireWhole SocketSound CreatedFound
    NothingOverdue
PROPERTIES ImplementsRegistry ImplementsAlarms
CHECK_DEADLOCK FALSE
