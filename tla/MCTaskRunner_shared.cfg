SPECIFICATION Spec
CHECK_DEADLOCK FALSE
CONSTANTS
    orchestrator = orchestrator
    web = web
    t1 = t1
    t2 = t2
    t3 = t3
    research = research
    sync = sync
    Procs = {orchestrator, web}
    Tasks = {t1, t2, t3}
    Kinds = {research, sync}
    Excl <- OwnKind
    Reports = {research}
    MaxCancels = 1
    MaxFaults = 1
    Torn = TRUE
SYMMETRY Symmetry
INVARIANT ActiveHonest
INVARIANT OrphansDead
INVARIANT KindsApart
INVARIANT RecordsTrue
