SPECIFICATION Spec
CONSTANTS
    r1 = r1
    r2 = r2
    r3 = r3
    k1 = k1
    good = good
    bad = bad
    NoKey = NoKey
    None = None
    Requests <- TwoRequests
    Keys <- KeySet
    Bodies <- BodySet
    ValidBodies <- ValidSet
    Faults <- OnlyUnconfirmed
INVARIANT QueuedOncePerKey
CHECK_DEADLOCK FALSE
