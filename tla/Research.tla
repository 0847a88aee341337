------------------------------ MODULE Research ------------------------------
(***************************************************************************)
(* The Researcher: a daily report, a weekly brief and a weekly debrief.     *)
(* The Secretary of the orchestrator looks at every tick whether one is     *)
(* due, and remembers when to look again; a user of the web process may run *)
(* or delete one, or change the settings.  A report is a file in the store; *)
(* a field of the settings says which one was made last.                    *)
(*                                                                          *)
(* Time is counted in units, PerDay to a day of UTC; a week has three days, *)
(* Monday, Friday and one of the weekend.  A report is written for a slot:  *)
(* the day of a daily one, the Monday of a weekly one.                      *)
(***************************************************************************)
EXTENDS Integers

CONSTANTS
  PerDay,
  Zone,        \* units by which the market's date is ahead of the UTC date, or behind, below 0
  RunAt,       \* RunAt[k]: units from the UTC midnight of the market's date to its run
  FirstDay, LastDay,   \* bound: the days in the model
  MaxRequests, \* bound: requests of users that change something
  MaxFaults    \* bound: a report fails, the store does not answer, a crash

Kinds == {"daily", "brief", "debrief"}
Slots == {0} \cup FirstDay - 5..LastDay + 2
Never == (LastDay + 9) * PerDay

VARIABLES
  now,
  settings,  \* the enabled kinds, and last[k]: the slot of the last report made
  model,     \* whether the AI model of all reports is enabled
  reports,   \* the store: <<kind, slot>>
  tick,      \* the Secretary: where it is, and the settings it has read
  seen,      \* the settings it has read the tick before, none at first
  next,      \* next[k]: when it looks at k again
  passed,    \* a tick has ended in this unit, and nothing has changed since it began
  task,      \* the one research task that runs
  request,   \* the request of a user that is under way
  requests, faults,
  made,      \* history: the reports that were made since they were last deleted
  again,     \* history: one of them was made again, unforced
  spoilt     \* history: the reports that were deleted, whose kind was switched
             \* off, or, weekly ones, whose model was

vars == <<now, settings, model, reports, tick, seen, next, passed, task, request,
          requests, faults, made, again, spoilt>>

Idle == [pc |-> "idle"]

TypeOK ==
  /\ now \in FirstDay * PerDay..(LastDay + 1) * PerDay - 1
  /\ settings.on \subseteq Kinds /\ settings.last \in [Kinds -> Slots]
  /\ model \in BOOLEAN /\ reports \subseteq Kinds \X Slots
  /\ \A k \in Kinds : next[k] \in 0..Never
  /\ passed \in BOOLEAN /\ requests \in 0..MaxRequests /\ faults \in 0..MaxFaults
  /\ task.pc \in {"idle", "begin", "working", "mark", "save"}
  /\ made \subseteq Kinds \X Slots /\ spoilt \subseteq Kinds \X Slots /\ again \in BOOLEAN

\* Some reports of the week before are there.
Init ==
  /\ now = FirstDay * PerDay
  /\ settings = [on |-> Kinds, last |-> [k \in Kinds |-> 0]]
  /\ model = TRUE
  /\ reports \in SUBSET {<<"daily", FirstDay - 2>>}
  /\ tick = Idle /\ seen = Idle /\ next = [k \in Kinds |-> 0] /\ passed = FALSE
  /\ task = Idle /\ request = Idle /\ requests = 0 /\ faults = 0
  /\ made = {} /\ again = FALSE /\ spoilt = {}

----------------------------------------------------------------------------
(* The schedule, in the calendar of the market.                             *)
Today == now \div PerDay
LocalDay == (now + Zone) \div PerDay
Weekend(d) == d % 3 = 2
Monday(d) == d - (d % 3)

\* week_open_date: from the weekend on, the Monday that comes.
OpenDate(d) == IF Weekend(d) THEN d + 1 ELSE Monday(d)

Run(k, d) == d * PerDay + RunAt[k]

PastDaily == now >= Run("daily", LocalDay)
PastBrief == now >= Run("brief", OpenDate(LocalDay))

\* The next brief, and the next debrief, which is on a Friday.
NextBrief ==
  LET d == OpenDate(LocalDay)
  IN Run("brief", IF now >= Run("brief", d) THEN d + 3 ELSE d)
NextDebrief ==
  LET d == OpenDate(LocalDay) + 1
  IN Run("debrief", IF now >= Run("debrief", d) THEN d + 3 ELSE d)

\* next_daily_probe_at: today's run, or else that of tomorrow.
NextDaily(done) ==
  IF ~done /\ ~PastDaily THEN Run("daily", LocalDay) ELSE Run("daily", Today + 1)

\* _completed_debrief_week: the last week whose Friday run has passed, 0 for none.
DebriefWeek ==
  LET weeks == {Monday(Today) - 3 * n : n \in 0..4}
      past == {w \in weeks : w > 0 /\ now >= Run("debrief", w + 1)}
  IN IF past = {} THEN 0 ELSE CHOOSE w \in past : \A v \in past : v <= w

Slot(k) ==
  CASE k = "daily" -> Today
    [] k = "brief" -> OpenDate(LocalDay)
    [] k = "debrief" -> DebriefWeek

----------------------------------------------------------------------------
(* Why a report is not made now, given the settings s that were read and    *)
(* what the store answers.                                                  *)
Exists(k, d) == <<k, d>> \in reports
DailyDone(s) == s.last["daily"] = Today \/ Exists("daily", Today)
Marked(s, k) == s.last[k] = Slot(k)
Inputs(k, s, manual) ==
  CASE k = "daily" -> TRUE
    [] k = "brief" -> (manual \/ DailyDone(s)) /\ Exists("daily", Slot(k))
    [] k = "debrief" -> \E d \in 0..1 : Exists("daily", Slot(k) + d)

\* A bug: the store is not asked.
SkipMutant(k, s, force, manual) ==
  IF ~manual /\ k \notin s.on THEN "disabled"
  ELSE IF k = "debrief" /\ DebriefWeek = 0 THEN "not passed"
  ELSE IF ~force /\ Marked(s, k) THEN "already"
  ELSE IF ~model THEN "model"
  ELSE IF ~Inputs(k, s, manual) THEN "waiting"
  ELSE "none"

\* preview_weekly_..._skip_reason, and the first lines of run_daily_report.  The
\* store is asked for a debrief only when its model is enabled.
Skip(k, s, force, manual) ==
  IF ~manual /\ k \notin s.on THEN "disabled"
  ELSE IF k = "debrief" /\ DebriefWeek = 0 THEN "not passed"
  ELSE IF ~force /\ (Marked(s, k) \/ (k # "debrief" /\ Exists(k, Slot(k)))) THEN "already"
  ELSE IF ~model THEN "model"
  ELSE IF ~force /\ Exists(k, Slot(k)) THEN "already"
  ELSE IF ~Inputs(k, s, manual) THEN "waiting"
  ELSE "none"

----------------------------------------------------------------------------
(* The Secretary.                                                           *)
Running == task # Idle
At0(where) == tick.pc = where
clock == <<now, passed>>
stores == <<settings, model, reports>>
users == <<request, requests>>
bounds == <<faults, made, again, spoilt>>

\* What the tick has seen is no longer so.
Changed ==
  /\ passed' = FALSE
  /\ tick' = IF At0("idle") THEN tick ELSE [tick EXCEPT !.stale = TRUE]

\* A new tick reads the settings; whatever it waits for is forgotten when the
\* fields that bear on the schedule have changed.
ReadSettings ==
  /\ At0("idle") /\ ~Running /\ ~passed
  /\ tick' = [pc |-> "daily", view |-> settings, stale |-> FALSE]
  /\ seen' = settings
  /\ next' = IF settings = seen THEN next ELSE [k \in Kinds |-> 0]
  /\ UNCHANGED <<clock, stores, task, users, bounds>>

After(where) == CASE where = "daily" -> "brief" [] where = "brief" -> "debrief"
                  [] where = "debrief" -> "end"

Due(k) == k \in tick.view.on /\ now >= next[k]

\* A research task was started meanwhile: the tick goes no further.
Abandon ==
  /\ At0("brief") \/ At0("debrief")
  /\ Running
  /\ tick' = Idle
  /\ UNCHANGED <<clock, stores, seen, next, task, users, bounds>>

\* The task, if none was started since, and a look again in a minute.
Launch(k) ==
  /\ task' = IF Running THEN task
             ELSE [pc |-> "begin", kind |-> k, slot |-> 0, force |-> FALSE, manual |-> FALSE,
                   view |-> Idle]
  /\ next' = [next EXCEPT ![k] = 0]

Past(k) ==
  CASE k = "daily" -> PastDaily
    [] k = "brief" -> PastBrief
    [] k = "debrief" -> DebriefWeek # 0

NextSlot(k) ==
  CASE k = "daily" -> NextDaily(PastDaily)
    [] k = "brief" -> NextBrief
    [] k = "debrief" -> NextDebrief

\* A bug: a report that waits for another is left to its next run.
RetryMutant(k, skip) == IF skip \in {"already", "waiting"} THEN NextSlot(k) ELSE Never

\* When to look again: at the next run once it is made, when the settings change
\* if they forbid it, and soon if something is missing.
Retry(k, skip) == IF skip = "already" THEN NextSlot(k)
                  ELSE IF skip \in {"model", "disabled", "not passed"} THEN Never ELSE 0

Probe(k) ==
  /\ At0(k) /\ (k = "daily" \/ ~Running)
  /\ LET s == tick.view
         skip == IF k = "daily" THEN (IF DailyDone(s) THEN "already" ELSE "none")
                 ELSE Skip(k, s, FALSE, FALSE)
         launch == Due(k) /\ Past(k) /\ skip = "none"
     IN /\ tick' = [tick EXCEPT !.pc = After(k), !.stale = @ \/ launch]
        /\ IF launch THEN Launch(k)
           ELSE /\ UNCHANGED task
                /\ next' = IF ~Due(k) THEN next
                           ELSE [next EXCEPT ![k] = IF Past(k) THEN Retry(k, skip) ELSE NextSlot(k)]
  /\ UNCHANGED <<clock, stores, seen, users, bounds>>

EndTick ==
  /\ At0("end")
  /\ passed' = ~tick.stale
  /\ tick' = Idle
  /\ UNCHANGED <<now, stores, seen, next, task, users, bounds>>

----------------------------------------------------------------------------
(* The task.                                                                *)
TaskEnds == task' = Idle
Fails == faults < MaxFaults /\ faults' = faults + 1

\* The settings are read anew; the reasons not to run are looked at again.
Begin ==
  /\ task.pc = "begin"
  /\ IF Skip(task.kind, settings, task.force, task.manual) = "none"
     THEN task' = [task EXCEPT !.pc = "working", !.slot = Slot(task.kind)]
     ELSE TaskEnds
  /\ UNCHANGED <<clock, stores, tick, seen, next, users, bounds>>

\* The report is written, or cannot be made.
Report ==
  LET r == <<task.kind, task.slot>>
  IN \/ /\ reports' = reports \cup {r}
        /\ task' = [task EXCEPT !.pc = "mark"]
        /\ made' = made \cup {r}
        /\ again' = (again \/ (~task.force /\ r \in made))
        /\ UNCHANGED faults
     \/ TaskEnds /\ Fails /\ UNCHANGED <<reports, made, again>>

Work(k) ==
  /\ task.pc = "working" /\ task.kind = k
  /\ Changed
  /\ UNCHANGED <<now, settings, model, seen, next, users, spoilt>>

\* Searches, the models' analyses and their synthesis: a model that fails is
\* left out, a synthesis that fails is replaced by the first analysis; the report
\* fails when no model has one.
WorkDaily == Work("daily") /\ Report

\* The daily report of its Monday is read once more.
WorkBrief ==
  /\ Work("brief")
  /\ IF Exists("daily", task.slot) THEN Report
     ELSE TaskEnds /\ UNCHANGED <<reports, made, again, faults>>

\* The dailies of its week are read once more; it is written without them too.
WorkDebrief == Work("debrief") /\ Report

\* save: the settings are read, and written in another transaction.
ReadMark ==
  /\ task.pc = "mark"
  /\ task' = [task EXCEPT !.pc = "save", !.view = settings]
  /\ UNCHANGED <<clock, stores, tick, seen, next, users, bounds>>

SaveMark ==
  /\ task.pc = "save"
  /\ settings' = [task.view EXCEPT !.last[task.kind] = task.slot]
  /\ TaskEnds
  /\ Changed
  /\ UNCHANGED <<now, model, reports, seen, next, users, bounds>>

\* The orchestrator dies with its task and all it remembers.
Crash ==
  /\ Fails
  /\ task' = Idle /\ tick' = Idle /\ seen' = Idle
  /\ next' = [k \in Kinds |-> 0] /\ passed' = FALSE
  /\ UNCHANGED <<now, stores, users, made, again, spoilt>>

----------------------------------------------------------------------------
(* The requests of users.                                                   *)
Ask(r) ==
  /\ request = Idle /\ requests < MaxRequests
  /\ requests' = requests + 1
  /\ request' = r

\* Run now: refused while a research task runs.
RunNow(k, force) ==
  /\ ~Running /\ request = Idle /\ requests < MaxRequests
  /\ requests' = requests + 1
  /\ task' = [pc |-> "begin", kind |-> k, slot |-> 0, force |-> force, manual |-> TRUE, view |-> Idle]
  /\ Changed
  /\ UNCHANGED <<now, stores, seen, next, request, bounds>>

Switch(k) ==
  /\ Ask([pc |-> "switch", kind |-> k, view |-> settings])
  /\ UNCHANGED <<clock, stores, tick, seen, next, task, bounds>>

\* What was read is written back, whatever was written meanwhile.
Switched ==
  /\ request.pc = "switch"
  /\ LET k == request.kind
         on == request.view.on
     IN /\ settings' = [request.view EXCEPT !.on = (on \ {k}) \cup ({k} \ on)]
        /\ spoilt' = IF k \in on THEN spoilt \cup ({k} \X Slots) ELSE spoilt
  /\ request' = Idle
  /\ Changed
  /\ UNCHANGED <<now, model, reports, seen, next, task, requests, faults, made, again>>

\* The model is disabled, or enabled again, in its own settings.
SwitchModel ==
  /\ request = Idle /\ requests < MaxRequests
  /\ requests' = requests + 1
  /\ model' = ~model
  /\ spoilt' = spoilt \cup ((Kinds \ {"daily"}) \X Slots)
  /\ Changed
  /\ UNCHANGED <<now, settings, reports, seen, next, task, request, faults, made, again>>

\* delete_report_entry: the mark of a daily report made last is cleared first.
Delete(k, d) ==
  /\ Exists(k, d)
  /\ Ask(IF k = "daily" /\ settings.last["daily"] = d
         THEN [pc |-> "clear", report |-> <<k, d>>, view |-> settings]
         ELSE [pc |-> "remove", report |-> <<k, d>>])
  /\ UNCHANGED <<clock, stores, tick, seen, next, task, bounds>>

Clear ==
  /\ request.pc = "clear"
  /\ settings' = [request.view EXCEPT !.last["daily"] = 0]
  /\ request' = [request EXCEPT !.pc = "remove"]
  /\ Changed
  /\ UNCHANGED <<now, model, reports, seen, next, task, requests, bounds>>

Remove ==
  /\ request.pc = "remove"
  /\ reports' = reports \ {request.report}
  /\ made' = made \ {request.report}
  /\ spoilt' = spoilt \cup {request.report}
  /\ request' = Idle
  /\ Changed
  /\ UNCHANGED <<now, settings, model, seen, next, task, requests, faults, again>>

----------------------------------------------------------------------------
\* A unit is hours: ticks, tasks and requests do not last as long.
TimePasses ==
  /\ passed /\ ~Running /\ request = Idle /\ At0("idle")
  /\ now < (LastDay + 1) * PerDay - 1
  /\ now' = now + 1 /\ passed' = FALSE
  /\ UNCHANGED <<stores, tick, seen, next, task, users, bounds>>

Next ==
  \/ ReadSettings \/ Abandon \/ EndTick
  \/ \E k \in Kinds : Probe(k) \/ Switch(k)
  \/ \E k \in Kinds, force \in BOOLEAN : RunNow(k, force)
  \/ Begin \/ WorkDaily \/ WorkBrief \/ WorkDebrief \/ ReadMark \/ SaveMark \/ Crash
  \/ Switched \/ SwitchModel
  \/ \E k \in Kinds, d \in Slots : Delete(k, d)
  \/ Clear \/ Remove
  \/ TimePasses

Spec == Init /\ [][Next]_vars

----------------------------------------------------------------------------
\* No report is made a second time for its day or week unless it is forced or
\* the first was deleted, although its mark in the settings is overwritten by
\* users who save what they read before, and the orchestrator dies between
\* writing a report and marking it.
OncePerSlot == ~again

\* After a tick during and since which nothing has changed, every report that is
\* due is there, if what it is made from is: no look is put off past the time a
\* report could be made.  Except one that
\* was deleted or whose kind was switched off, and a weekly one once its model
\* was off: the Secretary does not look again when that is enabled.  Of a market
\* whose date is behind that of UTC this is so of weekly ones: from midnight on
\* the daily run of the day before counts as that of the new one.
ReportedInTime ==
  passed => \A k \in settings.on :
    Past(k) /\ model /\ Inputs(k, settings, FALSE) /\ <<k, Slot(k)>> \notin spoilt
      => Exists(k, Slot(k))
=============================================================================
