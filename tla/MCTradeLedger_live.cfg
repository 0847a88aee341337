SPECIFICATION FairSpec
CONSTANTS
    orchestrator = orchestrator
    web = web
    t1 = t1
    t2 = t2
    long = long
    short = short
    Procs = {orchestrator}
    Orchestrator = orchestrator
    Trades = {t1, t2}
    Keys = {long, short}
    Key <- OwnKey
    MaxTxn = 4
    MaxOps = 2
    MaxFaults = 1
    MaxOverruns = 0
    MaxOutages = 0
INVARIANT DriftJustified
PROPERTY Healed
PROPERTY EventuallyImported
