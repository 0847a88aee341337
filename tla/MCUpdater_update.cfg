SPECIFICATION Spec
CHECK_DEADLOCK FALSE
CONSTANTS
    c1 = c1
    c2 = c2
    Callers = {c1, c2}
    Tracks = {"branch", "release"}
    Pinned = {"release"}
    MaxCommit = 3
    MaxCalls = 3
    MaxFaults = 2
INVARIANT StartedLooks
