------------------------------ MODULE TaskRunner ------------------------------
(***************************************************************************)
(* The background task runner.  The web API and the orchestrator share one *)
(* JSON file, {active, recent}, under a file lock; each keeps its asyncio  *)
(* tasks, _local_task and the cancellation tokens to itself.  A step is    *)
(* what a process does while it holds the file lock, with the code that    *)
(* follows without an await; two processes interleave between such steps.  *)
(*                                                                         *)
(* A record of the file that is active has status "running": every other   *)
(* status is written as the record moves to recent (verdict).              *)
(***************************************************************************)
EXTENDS Naturals

CONSTANTS
    Procs,      \* the processes that share the file
    Tasks,      \* task ids, each used once
    Kinds,      \* the kinds of task
    Excl,       \* Excl[k]: the exclusive_kinds of kind k
    Reports,    \* the kinds whose work goes on after it finished its record
    MaxCancels, \* bound on cancel requests
    MaxFaults,  \* bound on crashes
    Torn        \* whether a crash may hit the middle of a write

NoTask == "no task"

ASSUME TaskAssumption ==
    /\ NoTask \notin Tasks
    /\ Excl \in [Kinds -> SUBSET Kinds] /\ Reports \subseteq Kinds
    /\ {MaxCancels, MaxFaults} \subseteq Nat /\ Torn \in BOOLEAN

VARIABLES
    active,  \* the file: the active record, its cancel_requested_at, its age
    verdict, \* the file: the status of each record in recent ("none": absent)
    kind,    \* kind[t]
    owner,   \* owner[t]: the process of worker_pid
    worker,  \* worker[t]: where the asyncio task of t is
    how,     \* how[t]: how that asyncio task came to its end
    thrown,  \* tasks whose asyncio task has been cancelled
    gone,    \* tasks whose worker_pid no longer exists
    local,   \* local[p]: _local_task of p
    tokens,  \* tokens[p]: the ids in _tokens of p
    events,  \* events[p]: the ids whose token in p has been set
    busy,    \* busy[p]: the task p is in the middle of cancelling
    asked,   \* history: tasks whose cancellation was requested
    up,      \* up[p]: process p runs
    count    \* counters for the bounds

file  == <<active, verdict>>
procs == <<local, tokens, events, busy, up>>
jobs  == <<kind, owner, worker, how, thrown, gone>>
vars  == <<file, procs, jobs, asked, count>>

Statuses == {"success", "failed", "skipped", "cancelled"}
Live     == {"created", "running"}
NoActive == [id |-> NoTask, cancel |-> FALSE, old |-> FALSE]
Bounded  == {"cancels", "faults", "torn"}

Idle(p)           == up[p] /\ busy[p] = NoTask
\* The asyncio task of t takes its next step; a cancelled one only meets its
\* CancelledError.
Steps(t, l)       == Idle(owner[t]) /\ worker[t] = l /\ t \notin thrown
Counted(k, bound) == count[k] < bound /\ count' = [count EXCEPT ![k] = @ + 1]

Init ==
    /\ active = NoActive /\ verdict = [t \in Tasks |-> "none"]
    /\ kind \in [Tasks -> Kinds]
    /\ owner \in [Tasks -> Procs]
    /\ worker = [t \in Tasks |-> "none"] /\ how = [t \in Tasks |-> "none"]
    /\ thrown = {} /\ gone = {} /\ asked = {}
    /\ local = [p \in Procs |-> NoTask] /\ busy = [p \in Procs |-> NoTask]
    /\ tokens = [p \in Procs |-> {}] /\ events = [p \in Procs |-> {}]
    /\ up = [p \in Procs |-> TRUE]
    /\ count = [k \in Bounded |-> 0]

-----------------------------------------------------------------------------
(* finish_task_*: whatever record is active moves to recent.               *)

FinalizeMutant(p, status) ==  \* mutant: the record stays active
    /\ verdict' = IF active.id \in Tasks
                  THEN [verdict EXCEPT ![active.id] = status] ELSE verdict
    /\ UNCHANGED <<active, tokens>>
Finalize(p, status) ==
    IF active.id = NoTask THEN UNCHANGED <<file, tokens>>
    ELSE /\ verdict' = [verdict EXCEPT ![active.id] = status]
         /\ active' = NoActive
         /\ tokens' = [tokens EXCEPT ![p] = @ \ {active.id}]

\* The asyncio task of t ends; _done forgets it.
Ends(t, why) ==
    /\ worker' = [worker EXCEPT ![t] = "ended"]
    /\ how' = [how EXCEPT ![t] = IF @ = "none" THEN why ELSE @]
    /\ local' = [p \in Procs |-> IF local[p] = t THEN NoTask ELSE local[p]]

\* start_task: refused only if the kind of the active record is exclusive.
ConflictMutant(k) == active.id # NoTask /\ kind[active.id] = k /\ active.cancel
Conflict(k) == active.id # NoTask /\ kind[active.id] \in Excl[k]

Start(t) ==
    /\ Idle(owner[t]) /\ worker[t] = "none" /\ ~Conflict(kind[t])
    /\ active' = [id |-> t, cancel |-> FALSE, old |-> FALSE]
    /\ worker' = [worker EXCEPT ![t] = "created"]
    /\ local' = [local EXCEPT ![owner[t]] = t]
    /\ tokens' = [tokens EXCEPT ![owner[t]] = @ \cup {t}]
    /\ UNCHANGED <<verdict, kind, owner, how, thrown, gone, events, busy, asked,
                   up, count>>

\* The first step of runner(); an asyncio task cancelled before it never runs.
Begin(t) ==
    /\ Idle(owner[t]) /\ worker[t] = "created"
    /\ IF t \in thrown
       THEN Ends(t, "cancelled")
       ELSE worker' = [worker EXCEPT ![t] = "running"] /\ UNCHANGED <<how, local>>
    /\ UNCHANGED <<file, kind, owner, thrown, gone, tokens, events, busy, asked,
                   up, count>>

\* CancellationToken.is_cancelled of id in process p; the file is read without
\* its lock, so that a write of another process may hide the request.
Sees(p, id) == \/ id \in events[p]
               \/ active.id = id /\ active.cancel

\* TaskCancelled: finish_task_cancelled.
Raised(t) ==
    /\ Finalize(owner[t], "cancelled") /\ Ends(t, "cancelled")
    /\ UNCHANGED <<kind, owner, thrown, gone, events, busy, asked, up, count>>

\* token.check() in the work of t finds its cancellation.
CheckToken(t) ==
    Steps(t, "running") /\ Sees(owner[t], t) /\ Raised(t)

\* update_task writes into the active record and checks the token of its id.
Progress(t) ==
    /\ Steps(t, "running")
    /\ active.id \in tokens[owner[t]] /\ Sees(owner[t], active.id)
    /\ Raised(t)

\* CancelledError at an await: finish_task_cancelled, whatever is active.
Interrupt(t) ==
    Idle(owner[t]) /\ worker[t] \in {"running", "reporting"} /\ t \in thrown
      /\ Raised(t)

\* The work comes to its end, by an exception included, and finishes the
\* record; some kinds then record the activity before they return.
Finish(t) ==
    /\ Steps(t, "running")
    /\ \E status \in Statuses \ {"cancelled"} :
          /\ Finalize(owner[t], status)
          /\ \/ Ends(t, status)
             \/ /\ kind[t] \in Reports /\ status # "skipped"
                /\ worker' = [worker EXCEPT ![t] = "reporting"]
                /\ how' = [how EXCEPT ![t] = status]
                /\ UNCHANGED local
    /\ UNCHANGED <<kind, owner, thrown, gone, events, busy, asked, up, count>>

Return(t) ==
    /\ Steps(t, "reporting")
    /\ Ends(t, how[t])
    /\ UNCHANGED <<file, kind, owner, thrown, gone, tokens, events, busy, asked,
                   up, count>>

-----------------------------------------------------------------------------
(* reconcile_stale_active_task, the first half of get_active_task.         *)

\* _worker_still_running, asked by p.
WorkerRunningMutant(p, t) == local[p] # NoTask  \* mutant: other processes' too
WorkerRunning(p, t) ==
    IF owner[t] = p /\ t \notin gone THEN local[p] # NoTask ELSE t \notin gone

OrphanedMutant(p) == /\ active.id # NoTask /\ ~WorkerRunning(p, active.id)
                     /\ active.cancel  \* mutant: no age limit
Orphaned(p) == /\ active.id # NoTask /\ ~WorkerRunning(p, active.id)
               /\ active.cancel \/ active.old

ClearMutant(p) == Finalize(p, "running")  \* mutant: status not changed
Clear(p) == Finalize(p, IF active.cancel THEN "cancelled" ELSE "failed")

Reconcile(p) ==
    /\ Idle(p) /\ Orphaned(p) /\ Clear(p)
    /\ UNCHANGED <<jobs, local, events, busy, up, asked, count>>

-----------------------------------------------------------------------------
(* cancel_task: the record first, then what the process itself knows.      *)

CancelRecord(p) ==
    /\ Idle(p) /\ active.id # NoTask /\ ~active.cancel
    /\ Counted("cancels", MaxCancels)
    /\ active' = [active EXCEPT !.cancel = TRUE]
    /\ busy' = [busy EXCEPT ![p] = active.id]
    /\ asked' = asked \cup {active.id}
    /\ UNCHANGED <<verdict, jobs, local, tokens, events, up>>

\* The token is set; _local_task is cancelled, if there is one, when the active
\* task is still the one to cancel.
CancelLocal(p) ==
    /\ up[p] /\ busy[p] # NoTask
    /\ busy' = [busy EXCEPT ![p] = NoTask]
    /\ events' = [events EXCEPT ![p] = @ \cup {busy[p]}]
    /\ IF local[p] # NoTask /\ Orphaned(p)
       THEN /\ verdict' = [verdict EXCEPT ![active.id] =
                              IF active.cancel THEN "cancelled" ELSE "failed"]
            /\ active' = NoActive
            /\ tokens' = [tokens EXCEPT ![p] = (@ \cup {busy[p]}) \ {active.id}]
            /\ UNCHANGED thrown
       ELSE /\ tokens' = [tokens EXCEPT ![p] = @ \cup {busy[p]}]
            /\ thrown' = IF local[p] # NoTask /\ active.id = busy[p]
                         THEN thrown \cup {local[p]} ELSE thrown
            /\ UNCHANGED file
    /\ UNCHANGED <<kind, owner, worker, how, gone, local, asked, up, count>>

-----------------------------------------------------------------------------
(* Time and faults.                                                        *)

\* The record has been active for _STALE_RUNNING_SECONDS.
GrowsOld ==
    /\ active.id # NoTask /\ ~active.old
    /\ active' = [active EXCEPT !.old = TRUE]
    /\ UNCHANGED <<verdict, procs, jobs, asked, count>>

Dies(p, torn) ==
    /\ up[p] /\ count["faults"] < MaxFaults
    /\ count' = [count EXCEPT !["faults"] = @ + 1, !["torn"] = @ + torn]
    /\ up' = [up EXCEPT ![p] = FALSE]
    /\ worker' = [t \in Tasks |->
                    IF owner[t] = p /\ worker[t] # "none" THEN "ended" ELSE worker[t]]
    /\ how' = [t \in Tasks |->
                 IF owner[t] = p /\ worker[t] \in Live THEN "killed" ELSE how[t]]
    /\ gone' = gone \cup {t \in Tasks : owner[t] = p /\ worker[t] # "none"}
    /\ local' = [local EXCEPT ![p] = NoTask]
    /\ tokens' = [tokens EXCEPT ![p] = {}]
    /\ events' = [events EXCEPT ![p] = {}]
    /\ busy' = [busy EXCEPT ![p] = NoTask]
    /\ UNCHANGED <<kind, owner, thrown, asked>>

Crash(p) == Dies(p, 0) /\ UNCHANGED file

\* The process dies inside write_text: the file no longer parses, and reads as
\* the default state from then on.
CrashWriting(p) ==
    /\ Torn /\ Dies(p, 1)
    /\ active' = NoActive /\ verdict' = [t \in Tasks |-> "none"]

\* A process that starts reconciles first.
Restart(p) ==
    /\ ~up[p]
    /\ up' = [up EXCEPT ![p] = TRUE]
    /\ IF Orphaned(p) THEN Clear(p) ELSE UNCHANGED <<file, tokens>>
    /\ UNCHANGED <<jobs, local, events, busy, asked, count>>

Works(t) == \/ Begin(t) \/ CheckToken(t) \/ Progress(t) \/ Interrupt(t)
            \/ Finish(t) \/ Return(t)

Next == \/ \E t \in Tasks : Start(t) \/ Works(t)
        \/ \E p \in Procs : \/ Reconcile(p) \/ CancelRecord(p) \/ CancelLocal(p)
                            \/ Crash(p) \/ CrashWriting(p) \/ Restart(p)
        \/ GrowsOld

Spec == Init /\ [][Next]_vars

\* Workers come to an end, get_active_task is polled by the bots and the pages,
\* an interrupted process is started again, and time passes.
Fairness == /\ \A t \in Tasks : WF_vars(Works(t))
            /\ \A p \in Procs : /\ WF_vars(Reconcile(p)) /\ WF_vars(CancelLocal(p))
                                /\ WF_vars(Restart(p))
            /\ WF_vars(GrowsOld)

FairSpec == Spec /\ Fairness
-----------------------------------------------------------------------------
(* Properties.                                                             *)

Workers == {"none", "created", "running", "reporting", "ended"}
Hows    == Statuses \cup {"none", "killed"}

\* The shape of the state.
TypeOK ==
    /\ active \in [id : Tasks \cup {NoTask}, cancel : BOOLEAN, old : BOOLEAN]
    /\ verdict \in [Tasks -> Statuses \cup {"none"}]
    /\ kind \in [Tasks -> Kinds] /\ owner \in [Tasks -> Procs]
    /\ worker \in [Tasks -> Workers] /\ how \in [Tasks -> Hows]
    /\ thrown \subseteq Tasks /\ gone \subseteq Tasks /\ asked \subseteq Tasks
    /\ local \in [Procs -> Tasks \cup {NoTask}]
    /\ busy \in [Procs -> Tasks \cup {NoTask}]
    /\ tokens \in [Procs -> SUBSET Tasks] /\ events \in [Procs -> SUBSET Tasks]
    /\ up \in [Procs -> BOOLEAN]
    /\ count \in [Bounded -> Nat]

\* The record that is active belongs to a worker that still runs, unless its
\* process died or it was cancelled before its first step: no worker returns
\* and leaves its own record running for ever.
ActiveHonest ==
    active.id # NoTask =>
        \/ worker[active.id] \in Live
        \/ active.id \in gone
        \/ worker[active.id] = "ended" /\ active.cancel

\* reconcile_stale_active_task ("Clear orphaned active tasks left after a crash
\* or restart") never takes a task for orphaned whose worker still runs, in
\* whichever process it is asked and whatever other tasks that process runs.
OrphansDead ==
    \A p \in Procs : up[p] /\ Orphaned(p) => worker[active.id] \notin Live

\* No record blocks the runner for ever.
FinallyFree == \A t \in Tasks : active.id = t ~> active.id # t

\* exclusive_kinds: of two tasks of exclusive kinds only one is being worked on.
Exclusive ==
    \A t, u \in Tasks :
        t # u /\ worker[t] \in Live /\ worker[u] \in Live => kind[t] \notin Excl[kind[u]]

\* The tasks all exclude each other, end with their record, and no crash
\* truncated the file: what follows holds of them across processes, cancellations,
\* crashes and reconciliations.  (It fails otherwise: a start of another kind, or
\* the default state of a file that does not parse, replaces the record that
\* start_task compares; and a task that is still reporting answers a cancellation
\* meant for the next one by finalizing the record of that one.)
OneKind == count["torn"] = 0 /\ \A t, u \in Tasks : kind[t] \in Excl[kind[u]] \ Reports

\* Tasks of one kind exclude each other.
OneKindExclusive == OneKind => Exclusive

\* A record in recent says what became of the task.
VerdictTrue ==
    OneKind =>
        \A t \in Tasks : verdict[t] # "none" => verdict[t] = how[t] \/ how[t] = "killed"

\* TaskCancelled is "raised when a background task receives a cooperative
\* cancel request", and CancelledError follows one too.
CancelledOnRequest == \A t \in Tasks : how[t] = "cancelled" => t \in asked
OneKindCancelled   == OneKind => CancelledOnRequest

\* "Background task toasts - active sync/research jobs with completion events":
\* a task that came to an end is in recent, or about to be reconciled.
CompletionRecorded ==
    OneKind =>
        \A t \in Tasks : worker[t] = "ended" => verdict[t] # "none" \/ active.id = t

\* Two tasks of such kinds never work at a time, and one is cancelled only when
\* somebody asked for it.
KindsApart == OneKindExclusive /\ OneKindCancelled

\* What became of each task is in the records, truthfully.
RecordsTrue == VerdictTrue /\ CompletionRecorded
=============================================================================
