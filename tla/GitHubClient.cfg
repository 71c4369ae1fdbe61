SPECIFICATION FairSpec
CONSTANTS
    c1 = c1
    c2 = c2
    c3 = c3
    None = None
    Callers <- CallerSet
    Lifetime = 2
    RenewBefore = 1
    MaxNow = 2
INVARIANTS TypeOK HandsOutFresh
PROPERTIES MintOnlyWhenDue CallsEnd
