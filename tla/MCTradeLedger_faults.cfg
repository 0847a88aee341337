SPECIFICATION Spec
CONSTANTS
    orchestrator = orchestrator
    web = web
    t1 = t1
    t2 = t2
    long = long
    short = short
    Procs = {orchestrator, web}
    Orchestrator = orchestrator
    Trades = {t1}
    Keys = {long, short}
    Key <- OwnKey
    MaxTxn = 3
    MaxOps = 0
    MaxFaults = 1
    MaxOverruns = 1
    MaxOutages = 1
INVARIANT CursorCovered
INVARIANT LiveImported
