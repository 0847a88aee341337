SPECIFICATION FairSpec
CONSTANTS
    r1 = r1
    r2 = r2
    Runs = {r1, r2}
    NoRun = NoRun
    MaxConcurrent = 1
    AutoStart = TRUE
    MaxStarts = 1
    MaxCancels = 1
    MaxFaults = 1
CHECK_DEADLOCK FALSE
INVARIANT NotTwice
INVARIANT Settled
PROPERTY EveryRunEnds
