SPECIFICATION FairSpec
CONSTANTS
    b1 = b1
    b2 = b2
    c1 = c1
    c2 = c2
    Bots = {b1}
    Clients = {c1, c2}
    NoClient = NoClient
    MaxStops = 1
    MaxErrors = 1
CHECK_DEADLOCK FALSE
INVARIANT Honest
INVARIANT WithdrawnNotRun
PROPERTY Drained
