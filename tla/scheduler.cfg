SPECIFICATION FreshFairSpec
CONSTANTS
    N = 2
    Configured = 4
    DefaultInterval = 6
    MinInterval = 5
    Timeout = 2
    MaxRestarts = 1
INVARIANTS QuietAfterCancel SweepComplete FreshWithin FirstSweepAtOnce
PROPERTIES FetchGap CancelStops EverySourcePolled
