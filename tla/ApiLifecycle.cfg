CONSTANTS
    r1 = r1
    r2 = r2
    Requests = {r1, r2}
    Routes <- MCRoutes
    Environments <- MCEnvironments

SPECIFICATION FairSpec
CHECK_DEADLOCK FALSE
INVARIANT TypeOK CleanHandover RunReleases SeenAsServed
PROPERTY SignalEnds
