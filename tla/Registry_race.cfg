SPECIFICATION Spec
CONSTANTS
    None = None
    Svc = {s1, s2, s3, s4, s5}
    Creator = {c1, c2, c3}
    Peer = {}
    Name = {1}
    Mask = 7
    DefaultSize = 4
    MaxSeed = 8
INVARIANT GrowthAssertion
CHECK_DEADLOCK FALSE
