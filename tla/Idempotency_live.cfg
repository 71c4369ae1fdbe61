SPECIFICATION FairSpec
CONSTANTS
    r1 = r1
    r2 = r2
    r3 = r3
    k1 = k1
    good = good
    bad = bad
    NoKey = NoKey
    None = None
    Requests <- TwoRequests
    Keys <- KeySet
    Bodies <- BodySet
    ValidBodies <- ValidSet
    Faults <- RedisAnswers
INVARIANT FailureFreesKey
PROPERTIES RequestsServed KeysComeFree
CHECK_DEADLOCK FALSE
