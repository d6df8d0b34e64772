SPECIFICATION FairSpec
CONSTANTS
    Conns = {v1, v2, v3}
    DrainLimit = 2
    Longest = 3
INVARIANTS FailedStartSilent CleanExit ErrorIsGenuine
PROPERTIES VisitorsServed ImplementsLife
