SPECIFICATION Spec
CONSTANTS
    r1 = r1
    r2 = r2
    r3 = r3
    k1 = k1
    good = good
    bad = bad
    NoKey = NoKey
    None = None
    Requests <- RequestSet
    Keys <- KeySet
    Bodies <- BodySet
    ValidBodies <- ValidSet
    Faults <- ServerFaults
SYMMETRY Symmetric
INVARIANTS TypeOK DuplicatesAccounted ReplayFaithful AcceptedIsQueued
PROPERTIES CompletedIsFinal ImplementsSubmission
CHECK_DEADLOCK FALSE
