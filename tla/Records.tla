------------------------------ MODULE Records -------------------------------
(***************************************************************************)
(* Two more services beside those of Services, on the same terms: the       *)
(* backups of the settings, and the daily report.                           *)
(***************************************************************************)
EXTENDS Services

CONSTANTS
    Editors, Ticker, Layout, Files, Setups,               \* ConfigBackup
    Contributors, Lists, Groups, Order, Answers, Feeds,   \* DailyReport
    FeedLimit, NewsLimit, Grok, Queries, Retries, SearchLimit, AnalysisLimit

\* What starts a backup without changing one section alone.
Occasions == {"none", "restore", "manual", "baseline", "schedule", "backup.schedule"}

\* Sections start empty or with the value 1; at least one full backup is kept.
ASSUME BackupAssumption ==
    /\ Ticker \notin Editors /\ 1 \in Values
    /\ \A i \in DOMAIN Layout : Layout[i] \notin Occasions
    /\ Setups \subseteq [changes : Nat, fulls : Nat \ {0}, made : Nat, slots : Nat, crashes : Nat]

ASSUME ReportAssumption ==
    /\ Lists \subseteq Seq(Contributors) /\ "none" \notin Contributors
    /\ Order \in Seq({"newsapi", "rss", "web", "x"})
    /\ \A as \in Answers : as \in Seq({as[i] : i \in DOMAIN as})
    /\ NewsLimit \in Nat /\ Queries \in Nat /\ Retries \in Nat /\ MaxFaults["report"] \in Nat

VARIABLES
    setup, config, history, aged, slot, marked, undo, restored, inslot, plan,
    stage, feeds, found, articles, turn, sections, errors, files, report

-----------------------------------------------------------------------------
(* The parts                                                                 *)

\* Browsers that change and restore the settings, beside the schedule.
B == INSTANCE ConfigBackup WITH
    Browsers <- Editors, Order <- Layout

\* One run of the daily report.
D == INSTANCE DailyReport WITH
    Models <- Contributors, MaxFaults <- MaxFaults["report"]

backupVars == <<setup, config, history, aged, slot, marked, undo, restored,
                  inslot>>
reportVars == <<plan, stage, feeds, found, articles, turn, sections, errors,
                  files, report>>

NoBackup == /\ setup = 0 /\ config = 0 /\ history = 0 /\ aged = 0 /\ slot = 0
    /\ marked = 0 /\ undo = 0 /\ restored = 0 /\ inslot = 0
NoReport == /\ plan = 0 /\ stage = 0 /\ feeds = 0 /\ found = 0 /\ articles = 0
    /\ turn = 0 /\ sections = 0 /\ errors = 0 /\ files = 0 /\ report = 0

NoneOfThem == /\ NoBackup /\ NoReport

AllInit ==
    \/ Init /\ NoneOfThem
    \/ /\ part = "backup" /\ B!Init /\ NoReport /\ NoAccount /\ NoResearch
       /\ NoSimulation /\ NoStrategies /\ NoSources /\ NoFeedback /\ NoBook
       /\ NoHistory /\ NoUpdates /\ NoCalls /\ session = 0 /\ calls = 0
       /\ faults = 0 /\ settings = 0 /\ request = 0 /\ status = 0
       /\ opened = 0 /\ rows = 0 /\ lock = 0
    \/ /\ part = "report" /\ D!Init /\ NoBackup /\ NoAccount /\ NoResearch
       /\ NoSimulation /\ NoStrategies /\ NoSources /\ NoFeedback /\ NoBook
       /\ NoHistory /\ NoUpdates /\ NoCalls /\ session = 0 /\ calls = 0
       /\ settings = 0 /\ request = 0 /\ made = 0 /\ status = 0 /\ opened = 0
       /\ rows = 0 /\ crashes = 0 /\ lock = 0

others == <<backupVars, reportVars>>

ConfigBackupStep ==
    /\ part = "backup" /\ B!Next
    /\ UNCHANGED <<part, reportVars, accountVars, researchVars,
                    simulationVars, strategiesVars, sourcesVars, feedbackVars,
                    bookVars, historyVars, updatesVars, callsVars, session,
                    calls, faults, settings, request, status, opened, rows,
                    lock>>

DailyReportStep ==
    /\ part = "report" /\ D!Next
    /\ UNCHANGED <<part, backupVars, accountVars, researchVars,
                    simulationVars, strategiesVars, sourcesVars, feedbackVars,
                    bookVars, historyVars, updatesVars, callsVars, session,
                    calls, settings, request, made, status, opened, rows,
                    crashes, lock>>

AllNext ==
    \/ Next /\ UNCHANGED others
    \/ ConfigBackupStep \/ DailyReportStep

AllSpec == AllInit /\ [][AllNext]_<<all, others>>

-----------------------------------------------------------------------------

\* The newest change of a section that no other change overlapped restores what
\* was before it, and the schedule makes one backup at an instant (ConfigBackup).
UndoLast == part = "backup" => B!TypeOK /\ B!UndoLast /\ B!OncePerInstant

\* No article is lost below the limit or listed twice, and what a finished
\* report lacks is among its errors (DailyReport).
NewsAccounted == part = "report" => D!TypeOK /\ D!NewsKept /\ D!Accounted
=============================================================================
