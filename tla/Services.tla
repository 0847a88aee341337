------------------------------ MODULE Services ------------------------------
(***************************************************************************)
(* The services around the trading core, side by side: the initial state   *)
(* chooses the part that runs.  A variable stands for those of its name in *)
(* the parts that have one; a part that does not run leaves the variables  *)
(* it does not share at 0.                                                 *)
(***************************************************************************)
EXTENDS Integers, Sequences

CONSTANTS
    Nobody,       \* no profile, no session, no caller
    Browsers, Emails, MaxMissed,                  \* Account
    PerDay, Zone, RunAt, FirstDay, LastDay,       \* Research
    Ids, Values, Keep, MaxSaves,                  \* Strategies
    Owner, Count, Types, Roles,                   \* Sources
    Runs, Paths, Raw, Low, High,                  \* Feedback
    Keys, Exits, MaxGone,                         \* AnalysisRuns
    Tracks, Pinned, MaxCommit,                    \* Updater
    Orders, Lookups, MaxTries, MaxCloses, MaxSessions,  \* OandaClient
    Params, Enabled, Frame, Et, First, Last, Prices, Margin, MaxTrades,  \* Simulation
    Strays, Retention, MaxLog, MaxOpened, MaxLulls, MaxFulls,   \* BrokerBook
    Callers,      \* requests that overlap
    MaxCalls,     \* MaxCalls[p]: bound: requests of part p
    MaxFaults,    \* MaxFaults[p]: bound: failures in part p
    MaxCrashes    \* bound: restarts

\* The parts whose requests and failures are bounded by a parameter.
Limited == {"account", "research", "strategies", "sources", "feedback", "history", "updates"}
Failing == {"account", "research", "feedback", "history", "updates", "calls", "book"}

ASSUME ServicesAssumption ==
    /\ \A p \in Limited : MaxCalls[p] \in Nat
    /\ \A p \in Failing : MaxFaults[p] \in Nat
    /\ MaxMissed \in Nat /\ MaxSaves \in Nat /\ MaxCrashes \in Nat /\ MaxCloses \in Nat
    /\ MaxLulls \in Nat /\ MaxFulls \in Nat
    /\ MaxCommit \in Nat \ {0} /\ MaxTries \in Nat \ {0} /\ Keep \in Nat \ {0} /\ Count \in Nat
    /\ Raw \subseteq Seq([path : Int, to : Int, priority : Int])
    /\ "unit" \notin Callers
    /\ Nobody \notin [pw : Nat, name : Nat] \cup [name : Nat, pw : Nat, photo : Nat, user : Emails]

\* A report is due within the day of its market, whose date may be ahead of that
\* of UTC or behind it; there is no report of day 0 or its week.
ASSUME CalendarAssumption ==
    /\ PerDay \in Nat \ {0} /\ Zone \in 1 - PerDay..PerDay - 1
    /\ RunAt \in [{"daily", "brief", "debrief"} -> Int]
    /\ \A k \in {"daily", "brief", "debrief"} : RunAt[k] + Zone \in 0..PerDay - 1
    /\ FirstDay \in Nat /\ FirstDay > 2 /\ LastDay \in Nat /\ FirstDay <= LastDay

\* The time frames of whole hours up to a day; bars begin at their multiples.
ASSUME SimulationAssumption ==
    /\ Et \in {4, 5} /\ Frame \in {1, 2, 3, 4, 6, 8, 12, 24}
    /\ First \in Int /\ First % Frame = 0 /\ Last \in Int
    /\ Prices \subseteq Int /\ Margin \in Int /\ Enabled \subseteq {"sydney", "asia", "london", "ny"}
    /\ \A p \in Params :
         /\ p.stop \in Nat /\ p.pips \in Nat /\ p.ratio \in Nat /\ p.riskPct \in Nat
         /\ p.confirm \in Nat /\ p.minBars \in Nat /\ p.directions \subseteq {-1, 1}
         /\ p.closeHours \in Nat /\ p.lateHours \in Nat

VARIABLES
    part, file, pg, users, factors, objects, session, call, calls, missed,
    faults, last, now, settings, model, reports, tick, seen, next, passed,
    task, request, requests, made, again, spoilt, params, hour, ema, pos,
    equity, sinceStop, close, status, trade, opened, rows, versions, saved,
    saves, type, enabled, ticked, expected, crashes, suggestions, ready,
    inflight, log, row, event, cursor, sync, closing, exposure, erred, stale,
    lulls, fulls, gone, dev, track, auto, tip, head, deps, served, lock, job,
    answer, checks, cached, sim, current, closed, closes

-----------------------------------------------------------------------------
(* The parts                                                                 *)

\* Browsers that sign in, change the password and the photo.
A == INSTANCE Account WITH
    None <- Nobody, MaxCalls <- MaxCalls["account"], MaxFaults <- MaxFaults["account"]

\* Reports of days and weeks, with users who change settings or ask for one.
R == INSTANCE Research WITH
    MaxRequests <- MaxCalls["research"], MaxFaults <- MaxFaults["research"]

\* A strategy whose entries and exits are simulated.
S == INSTANCE Simulation

\* Strategies that are saved, switched and deleted by several callers.
Y == INSTANCE Strategies WITH
    MaxCalls <- MaxCalls["strategies"]

\* Models of a provider, one caller at a time.
C == INSTANCE Sources WITH
    Callers <- {Owner}, MaxCalls <- MaxCalls["sources"]

\* Requests and hooks about backtests, a restart.
F == INSTANCE Feedback WITH
    MaxCalls <- MaxCalls["feedback"], MaxFaults <- MaxFaults["feedback"]

\* The account's transactions, and the sync that turns them into rows and events.
K == INSTANCE BrokerBook WITH
    MaxTrades <- MaxOpened, MaxFaults <- MaxFaults["book"]

\* Writers of entry and exit analyses.
H == INSTANCE AnalysisRuns WITH
    MaxCalls <- MaxCalls["history"], MaxFaults <- MaxFaults["history"]

\* Callers, branches and releases.
U == INSTANCE Updater WITH
    MaxCalls <- MaxCalls["updates"], MaxFaults <- MaxFaults["updates"]

\* Requests of bots that share a session, and bots that end.
O == INSTANCE OandaClient WITH
    NoCaller <- Nobody, Reads <- Lookups, MaxFaults <- MaxFaults["calls"]

\* The variables that one part alone has, and their value while it does not run.
accountVars == <<file, pg, users, factors, objects, missed, last>>
researchVars == <<now, model, reports, tick, seen, next, passed, task,
                    requests, again, spoilt>>
simulationVars == <<params, hour, ema, pos, equity, sinceStop, close, trade>>
strategiesVars == <<versions, saved, saves>>
sourcesVars == <<type, enabled, ticked, expected>>
feedbackVars == <<suggestions, ready, inflight>>
bookVars == <<log, row, event, cursor, sync, closing, exposure, erred, stale,
                lulls, fulls>>
historyVars == <<gone>>
updatesVars == <<dev, track, auto, tip, head, deps, served, job, answer,
                   checks, cached, sim>>
callsVars == <<current, closed, closes>>

NoAccount == /\ file = 0 /\ pg = 0 /\ users = 0 /\ factors = 0 /\ objects = 0
    /\ missed = 0 /\ last = 0
NoResearch == /\ now = 0 /\ model = 0 /\ reports = 0 /\ tick = 0 /\ seen = 0
    /\ next = 0 /\ passed = 0 /\ task = 0 /\ requests = 0 /\ again = 0
    /\ spoilt = 0
NoSimulation == /\ params = 0 /\ hour = 0 /\ ema = 0 /\ pos = 0 /\ equity = 0
    /\ sinceStop = 0 /\ close = 0 /\ trade = 0
NoStrategies == /\ versions = 0 /\ saved = 0 /\ saves = 0
NoSources == /\ type = 0 /\ enabled = 0 /\ ticked = 0 /\ expected = 0
NoFeedback == /\ suggestions = 0 /\ ready = 0 /\ inflight = 0
NoBook == /\ log = 0 /\ row = 0 /\ event = 0 /\ cursor = 0 /\ sync = 0
    /\ closing = 0 /\ exposure = 0 /\ erred = 0 /\ stale = 0 /\ lulls = 0
    /\ fulls = 0
NoHistory == /\ gone = 0
NoUpdates == /\ dev = 0 /\ track = 0 /\ auto = 0 /\ tip = 0 /\ head = 0
    /\ deps = 0 /\ served = 0 /\ job = 0 /\ answer = 0 /\ checks = 0
    /\ cached = 0 /\ sim = 0
NoCalls == /\ current = 0 /\ closed = 0 /\ closes = 0

Init ==
    \/ /\ part = "account" /\ A!Init /\ NoResearch /\ NoSimulation
       /\ NoStrategies /\ NoSources /\ NoFeedback /\ NoBook /\ NoHistory
       /\ NoUpdates /\ NoCalls /\ settings = 0 /\ request = 0 /\ made = 0
       /\ status = 0 /\ opened = 0 /\ rows = 0 /\ crashes = 0 /\ lock = 0
    \/ /\ part = "research" /\ R!Init /\ NoAccount /\ NoSimulation
       /\ NoStrategies /\ NoSources /\ NoFeedback /\ NoBook /\ NoHistory
       /\ NoUpdates /\ NoCalls /\ session = 0 /\ call = 0 /\ calls = 0
       /\ status = 0 /\ opened = 0 /\ rows = 0 /\ crashes = 0 /\ lock = 0
    \/ /\ part = "simulation" /\ S!Init /\ NoAccount /\ NoResearch
       /\ NoStrategies /\ NoSources /\ NoFeedback /\ NoBook /\ NoHistory
       /\ NoUpdates /\ NoCalls /\ session = 0 /\ call = 0 /\ calls = 0
       /\ faults = 0 /\ settings = 0 /\ request = 0 /\ made = 0 /\ rows = 0
       /\ crashes = 0 /\ lock = 0
    \/ /\ part = "strategies" /\ Y!Init /\ NoAccount /\ NoResearch
       /\ NoSimulation /\ NoSources /\ NoFeedback /\ NoBook /\ NoHistory
       /\ NoUpdates /\ NoCalls /\ session = 0 /\ faults = 0 /\ settings = 0
       /\ request = 0 /\ made = 0 /\ status = 0 /\ opened = 0 /\ crashes = 0
       /\ lock = 0
    \/ /\ part = "sources" /\ C!Init /\ NoAccount /\ NoResearch
       /\ NoSimulation /\ NoStrategies /\ NoFeedback /\ NoBook /\ NoHistory
       /\ NoUpdates /\ NoCalls /\ session = 0 /\ faults = 0 /\ request = 0
       /\ made = 0 /\ status = 0 /\ opened = 0 /\ rows = 0 /\ lock = 0
    \/ /\ part = "feedback" /\ F!Init /\ NoAccount /\ NoResearch
       /\ NoSimulation /\ NoStrategies /\ NoSources /\ NoBook /\ NoHistory
       /\ NoUpdates /\ NoCalls /\ session = 0 /\ settings = 0 /\ request = 0
       /\ made = 0 /\ opened = 0 /\ rows = 0 /\ lock = 0
    \/ /\ part = "book" /\ K!Init /\ NoAccount /\ NoResearch /\ NoSimulation
       /\ NoStrategies /\ NoSources /\ NoFeedback /\ NoHistory /\ NoUpdates
       /\ NoCalls /\ session = 0 /\ call = 0 /\ calls = 0 /\ settings = 0
       /\ request = 0 /\ made = 0 /\ status = 0 /\ opened = 0 /\ rows = 0
       /\ crashes = 0 /\ lock = 0
    \/ /\ part = "history" /\ H!Init /\ NoAccount /\ NoResearch
       /\ NoSimulation /\ NoStrategies /\ NoSources /\ NoFeedback /\ NoBook
       /\ NoUpdates /\ NoCalls /\ session = 0 /\ settings = 0 /\ request = 0
       /\ made = 0 /\ status = 0 /\ opened = 0 /\ crashes = 0 /\ lock = 0
    \/ /\ part = "updates" /\ U!Init /\ NoAccount /\ NoResearch
       /\ NoSimulation /\ NoStrategies /\ NoSources /\ NoFeedback /\ NoBook
       /\ NoHistory /\ NoCalls /\ session = 0 /\ call = 0 /\ settings = 0
       /\ made = 0 /\ status = 0 /\ opened = 0 /\ rows = 0 /\ crashes = 0
    \/ /\ part = "calls" /\ O!Init /\ NoAccount /\ NoResearch /\ NoSimulation
       /\ NoStrategies /\ NoSources /\ NoFeedback /\ NoBook /\ NoHistory
       /\ NoUpdates /\ calls = 0 /\ settings = 0 /\ request = 0 /\ status = 0
       /\ rows = 0 /\ crashes = 0

AccountStep ==
    /\ part = "account" /\ A!Next
    /\ UNCHANGED <<part, researchVars, simulationVars, strategiesVars,
                    sourcesVars, feedbackVars, bookVars, historyVars,
                    updatesVars, callsVars, settings, request, made, status,
                    opened, rows, crashes, lock>>

ResearchStep ==
    /\ part = "research" /\ R!Next
    /\ UNCHANGED <<part, accountVars, simulationVars, strategiesVars,
                    sourcesVars, feedbackVars, bookVars, historyVars,
                    updatesVars, callsVars, session, call, calls, status,
                    opened, rows, crashes, lock>>

SimulationStep ==
    /\ part = "simulation" /\ S!Next
    /\ UNCHANGED <<part, accountVars, researchVars, strategiesVars,
                    sourcesVars, feedbackVars, bookVars, historyVars,
                    updatesVars, callsVars, session, call, calls, faults,
                    settings, request, made, rows, crashes, lock>>

StrategiesStep ==
    /\ part = "strategies" /\ Y!Next
    /\ UNCHANGED <<part, accountVars, researchVars, simulationVars,
                    sourcesVars, feedbackVars, bookVars, historyVars,
                    updatesVars, callsVars, session, faults, settings,
                    request, made, status, opened, crashes, lock>>

SourcesStep ==
    /\ part = "sources" /\ C!Next
    /\ UNCHANGED <<part, accountVars, researchVars, simulationVars,
                    strategiesVars, feedbackVars, bookVars, historyVars,
                    updatesVars, callsVars, session, faults, request, made,
                    status, opened, rows, lock>>

FeedbackStep ==
    /\ part = "feedback" /\ F!Next
    /\ UNCHANGED <<part, accountVars, researchVars, simulationVars,
                    strategiesVars, sourcesVars, bookVars, historyVars,
                    updatesVars, callsVars, session, settings, request, made,
                    opened, rows, lock>>

BrokerBookStep ==
    /\ part = "book" /\ K!Next
    /\ UNCHANGED <<part, accountVars, researchVars, simulationVars,
                    strategiesVars, sourcesVars, feedbackVars, historyVars,
                    updatesVars, callsVars, session, call, calls, settings,
                    request, made, status, opened, rows, crashes, lock>>

AnalysisRunsStep ==
    /\ part = "history" /\ H!Next
    /\ UNCHANGED <<part, accountVars, researchVars, simulationVars,
                    strategiesVars, sourcesVars, feedbackVars, bookVars,
                    updatesVars, callsVars, session, settings, request, made,
                    status, opened, crashes, lock>>

UpdaterStep ==
    /\ part = "updates" /\ U!Next
    /\ UNCHANGED <<part, accountVars, researchVars, simulationVars,
                    strategiesVars, sourcesVars, feedbackVars, bookVars,
                    historyVars, callsVars, session, call, settings, made,
                    status, opened, rows, crashes>>

OandaClientStep ==
    /\ part = "calls" /\ O!Next
    /\ UNCHANGED <<part, accountVars, researchVars, simulationVars,
                    strategiesVars, sourcesVars, feedbackVars, bookVars,
                    historyVars, updatesVars, calls, settings, request,
                    status, rows, crashes>>

all == <<part, accountVars, researchVars, simulationVars, strategiesVars,
         sourcesVars, feedbackVars, bookVars, historyVars, updatesVars,
         callsVars, session, call, calls, faults, settings, request, made,
         status, opened, rows, crashes, lock>>

Next ==
    \/ AccountStep \/ ResearchStep \/ SimulationStep
    \/ StrategiesStep \/ SourcesStep \/ FeedbackStep
    \/ BrokerBookStep \/ AnalysisRunsStep \/ UpdaterStep
    \/ OandaClientStep

Spec == Init /\ [][Next]_all

-----------------------------------------------------------------------------
(* Properties                                                                *)

\* The password last set is the one that signs in, and the photo the profile
\* names is in the store (Account).
AccountKept == part = "account" => A!TypeOK /\ A!LastPasswordWorks /\ A!PhotoThere

\* A report that is due is written by the pass after its time, and written once
\* (Research).
ReportedOnce == part = "research" => R!TypeOK /\ R!ReportedInTime /\ R!OncePerSlot

\* A simulated trade loses no more than its risk, and is held only when its
\* session rules let it (Simulation, Sessions).
RulesHeld == part = "simulation" => S!TypeOK /\ S!RiskBounded /\ S!HeldInSessions

\* The last versions saved of a strategy are in its history (Strategies).
SavedKept == part = "strategies" => Y!TypeOK /\ Y!SavedKept

\* A role given to a provider survives the removal of its duplicate models
\* (Sources).
RolesFollow == part = "sources" => C!TypeOK /\ C!RolesFollow

\* A run is shown to a model by one job at a time and not again once completed,
\* and the suggestions stored are within bounds (Feedback).
OneJob == part = "feedback" => F!TypeOK /\ F!OneJob /\ F!Offered

\* Rows, events and exposure agree with the broker's transactions once they are
\* synced, and a stop-out is one (BrokerBook).
BookTrue == part = "book" => K!TypeOK /\ K!ReasonTrue /\ K!BookBalanced

\* A session that is handed out to the next request is open (OandaClient).
HeldOpen == part = "calls" => O!TypeOK /\ O!HeldOpen

\* The version lock names what is installed and running, and the check shown is
\* of the configured track (Updater).
UpdateTrue == part = "updates" => U!TypeOK /\ U!LockTrue /\ U!CheckCurrent

\* The result and the mark of a manual analysis are lost only with its row or
\* to an old copy (AnalysisRuns).
ManualStays == [][part = "history" => H!ManualHolds]_all
=============================================================================
