---------------------------- MODULE BacktestRuns ----------------------------
(***************************************************************************)
(* Queued backtests: the API's handlers start and cancel runs, the          *)
(* coordinator in the API process claims them into a pool of worker         *)
(* processes, and every worker executes one run and writes its result.      *)
(*                                                                          *)
(* A run is a Postgres row with a few columns beside its whole document.    *)
(* Every repository method but the claim reads the row without a lock,      *)
(* changes its copy and writes it back, so each is a read half, which keeps *)
(* the copy, and a write half.  The object-relational mapper writes only    *)
(* the attributes whose new value differs from the loaded one; the document *)
(* always differs, in a time or a message.                                  *)
(***************************************************************************)
EXTENDS Naturals, FiniteSets

CONSTANTS
  Runs,           \* the runs that are queued, each of its own strategy
  NoRun,
  MaxConcurrent,  \* the max_concurrent setting
  AutoStart,      \* the auto_start setting
  MaxStarts,      \* bound: requests to start a run by hand
  MaxCancels,     \* bound: requests to cancel a run
  MaxFaults       \* bound: exceptions of the engine, worker processes that die
                  \* and restarts of the API process

ASSUME RunsAssumption ==
  /\ IsFiniteSet(Runs) /\ NoRun \notin Runs
  /\ MaxConcurrent \in Nat \ {0} /\ AutoStart \in BOOLEAN
  /\ MaxStarts \in Nat /\ MaxCancels \in Nat /\ MaxFaults \in Nat

Terminal == {"completed", "cancelled", "failed"}
Statuses == {"queued", "running"} \cup Terminal
Badges == {"queued", "running", "ended"}

Docs == [status : Statuses, cancel : BOOLEAN, results : BOOLEAN]
Rows == [status : Statuses, cancel : BOOLEAN, doc : Docs]

\* Where a worker is: it has a run's bars ahead, holds the copy of
\* update_progress (of the bar or of the end), knows its outcome, holds the copy
\* of finish_run, has the period and then the strategy's badge to write.
Live == {"pooled", "bars", "progress", "last", "ending", "finish", "period", "store", "badge"}
Stages == Live \cup {"none", "done", "dead"}

VARIABLES
  row,       \* row[r]: the row of r in backtest_runs
  badge,     \* badge[r]: backtest_status of the strategy of r
  starting,  \* starting[r]: where the start request of r is
  startCopy, \* startCopy[r]: the row mark_running has read
  cancelCopy,\* cancelCopy[r]: the rows open request_cancel calls have read
  ready,     \* _manual_ready
  inflight,  \* _inflight
  claimed,   \* the run the coordinator is submitting
  pool,      \* the ProcessPoolExecutor: "ok" or "broken"
  stage,     \* stage[r]: the worker of r
  copy,      \* copy[r]: the row the worker of r has read
  outcome,   \* outcome[r]: the status the worker of r is going to write
  byHand,    \* the runs somebody asked to start
  asked,     \* the unfinished runs whose cancellation was written
  count      \* requests and failures so far

handlers == <<starting, startCopy, cancelCopy>>
coordinator == <<ready, inflight, claimed, pool>>
workers == <<stage, copy, outcome>>
history == <<byHand, asked>>
vars == <<row, badge, starting, startCopy, cancelCopy, ready, inflight, claimed,
          pool, stage, copy, outcome, byHand, asked, count>>

Counts == [starts : 0 .. MaxStarts, cancels : 0 .. MaxCancels,
           errors : 0 .. MaxFaults, kills : 0 .. MaxFaults,
           restarts : 0 .. MaxFaults]

Faults == count.errors + count.kills + count.restarts

TypeOK ==
  /\ row \in [Runs -> Rows]
  /\ badge \in [Runs -> Badges]
  /\ starting \in [Runs -> {"none", "checked", "read", "marked"}]
  /\ startCopy \in [Runs -> Rows]
  /\ cancelCopy \in [Runs -> SUBSET Rows]
  /\ ready \subseteq Runs
  /\ inflight \subseteq Runs /\ Cardinality(inflight) <= MaxConcurrent
  /\ claimed \in Runs \cup {NoRun}
  /\ pool \in {"ok", "broken"}
  /\ stage \in [Runs -> Stages]
  /\ copy \in [Runs -> Rows]
  /\ outcome \in [Runs -> Terminal]
  /\ byHand \subseteq Runs
  /\ asked \subseteq Runs
  /\ count \in Counts

NewRow == [status |-> "queued", cancel |-> FALSE,
           doc |-> [status |-> "queued", cancel |-> FALSE, results |-> FALSE]]

Init ==
  /\ row = [r \in Runs |-> NewRow]
  /\ badge = [r \in Runs |-> "queued"]
  /\ starting = [r \in Runs |-> "none"]
  /\ startCopy = [r \in Runs |-> NewRow]
  /\ cancelCopy = [r \in Runs |-> {}]
  /\ ready = {}
  /\ inflight = {}
  /\ claimed = NoRun
  /\ pool = "ok"
  /\ stage = [r \in Runs |-> "none"]
  /\ copy = [r \in Runs |-> NewRow]
  /\ outcome = [r \in Runs |-> "failed"]
  /\ byHand = {}
  /\ asked = {}
  /\ count = [starts |-> 0, cancels |-> 0, errors |-> 0, kills |-> 0, restarts |-> 0]

-----------------------------------------------------------------------------
(* Writing a row back.                                                      *)

\* What a write leaves of an attribute: the new value if it differs from the
\* loaded one, else whatever the row has by now.
Flush(now, loaded, new) == IF new = loaded THEN now ELSE new

Flushed(now, loaded, new) ==
  [status |-> Flush(now.status, loaded.status, new.status),
   cancel |-> Flush(now.cancel, loaded.cancel, new.cancel),
   doc |-> new.doc]

\* _sync_row_columns: the columns follow the document.
Synced(doc) == [status |-> doc.status, cancel |-> doc.cancel, doc |-> doc]

WriteBack(r, loaded, new) == row' = [row EXCEPT ![r] = Flushed(@, loaded, new)]

\* The document of a run that starts.
Begun(doc) == [doc EXCEPT !.status = "running"]

-----------------------------------------------------------------------------
(* The API's handlers.                                                      *)

\* start_backtest_run: the route looks at the document, mark_running at the
\* columns; whatever mark_running found, the badge and the coordinator follow.
AskStart(r) ==
  /\ count.starts < MaxStarts
  /\ starting[r] = "none"
  /\ row[r].doc.status = "queued"
  /\ count' = [count EXCEPT !.starts = @ + 1]
  /\ byHand' = byHand \cup {r}
  /\ starting' = [starting EXCEPT ![r] = "checked"]
  /\ UNCHANGED <<row, badge, startCopy, cancelCopy, coordinator, workers, asked>>

ReadStart(r) ==
  /\ starting[r] = "checked"
  /\ startCopy' = [startCopy EXCEPT ![r] = row[r]]
  /\ starting' = [starting EXCEPT ![r] =
       IF row[r].status = "queued" /\ ~row[r].cancel THEN "read" ELSE "marked"]
  /\ UNCHANGED <<row, badge, cancelCopy, coordinator, workers, history, count>>

WriteStart(r) ==
  /\ starting[r] = "read"
  /\ WriteBack(r, startCopy[r], Synced(Begun(startCopy[r].doc)))
  /\ starting' = [starting EXCEPT ![r] = "marked"]
  /\ UNCHANGED <<badge, startCopy, cancelCopy, coordinator, workers, history, count>>

Notify(r) ==
  /\ starting[r] = "marked"
  /\ badge' = [badge EXCEPT ![r] = "running"]
  /\ ready' = ready \cup {r}
  /\ starting' = [starting EXCEPT ![r] = "none"]
  /\ UNCHANGED <<row, startCopy, cancelCopy, inflight, claimed, pool, workers,
                 history, count>>

\* request_cancel: a queued run is cancelled at once, a running one is told.
ReadCancel(r) ==
  /\ count.cancels < MaxCancels
  /\ row[r].status \notin Terminal
  /\ count' = [count EXCEPT !.cancels = @ + 1]
  /\ cancelCopy' = [cancelCopy EXCEPT ![r] = @ \cup {row[r]}]
  /\ UNCHANGED <<row, badge, starting, startCopy, coordinator, workers, history>>

WriteCancel(r) ==
  \E loaded \in cancelCopy[r] :
    LET told == [loaded.doc EXCEPT !.cancel = TRUE]
        new == IF loaded.status = "queued"
                 THEN Synced([told EXCEPT !.status = "cancelled"])
                 ELSE [status |-> loaded.status, cancel |-> TRUE, doc |-> told]
    IN /\ WriteBack(r, loaded, new)
       /\ cancelCopy' = [cancelCopy EXCEPT ![r] = @ \ {loaded}]
       /\ asked' = IF row[r].status \in Terminal THEN asked ELSE asked \cup {r}
       /\ UNCHANGED <<badge, starting, startCopy, coordinator, workers, byHand, count>>

-----------------------------------------------------------------------------
(* The coordinator's loop.                                                  *)

\* A future that is done, well or not, leaves the table.
Reap(r) ==
  /\ r \in inflight
  /\ stage[r] \in {"done", "dead"}
  /\ inflight' = inflight \ {r}
  /\ stage' = [stage EXCEPT ![r] = "none"]
  /\ UNCHANGED <<row, badge, handlers, ready, claimed, pool, copy, outcome,
                 history, count>>

SlotFreeMutant ==  \* mutant: one worker more than the setting allows
  claimed = NoRun /\ Cardinality(inflight) <= MaxConcurrent

SlotFree == claimed = NoRun /\ Cardinality(inflight) < MaxConcurrent

\* A run that was started by hand or orphaned goes first; one that does not run
\* any more, by its document, is forgotten.
PickReady(r) ==
  /\ SlotFree
  /\ r \in ready \ inflight
  /\ ready' = ready \ {r}
  /\ claimed' = IF row[r].doc.status = "running" THEN r ELSE NoRun
  /\ UNCHANGED <<row, badge, handlers, inflight, pool, workers, history, count>>

\* claim_next_queued locks the row: its read and its write are one step.
Claim(r) ==
  /\ AutoStart
  /\ SlotFree
  /\ ready \subseteq inflight
  /\ row[r].status = "queued" /\ ~row[r].cancel
  /\ WriteBack(r, row[r], Synced(Begun(row[r].doc)))
  /\ claimed' = r
  /\ UNCHANGED <<badge, handlers, ready, inflight, pool, workers, history, count>>

\* The strategy's badge first, then the worker; a broken pool refuses the run.
Submit(r) ==
  /\ claimed = r
  /\ claimed' = NoRun
  /\ badge' = [badge EXCEPT ![r] = "running"]
  /\ IF pool = "ok" /\ r \notin inflight
       THEN /\ inflight' = inflight \cup {r}
            /\ stage' = [stage EXCEPT ![r] = "pooled"]
       ELSE UNCHANGED <<inflight, stage>>
  /\ UNCHANGED <<row, handlers, ready, pool, copy, outcome, history, count>>

-----------------------------------------------------------------------------
(* A worker.                                                                *)

At(r, from, to) == stage[r] = from /\ stage' = [stage EXCEPT ![r] = to]

ReadRow(r) == copy' = [copy EXCEPT ![r] = row[r]]

Begin(r) ==
  /\ At(r, "pooled", "progress")
  /\ ReadRow(r)
  /\ UNCHANGED <<row, badge, handlers, coordinator, outcome, history, count>>

\* The cancellation is looked at before a bar; the run reports its progress after
\* the bar, and after the last one that it is complete.
Check(r) ==
  /\ \/ row[r].cancel /\ At(r, "bars", "ending")
        /\ outcome' = [outcome EXCEPT ![r] = "cancelled"] /\ UNCHANGED copy
     \/ ~row[r].cancel /\ At(r, "bars", "progress")
        /\ ReadRow(r) /\ UNCHANGED outcome
     \/ ~row[r].cancel /\ At(r, "bars", "last")
        /\ ReadRow(r) /\ outcome' = [outcome EXCEPT ![r] = "completed"]
  /\ UNCHANGED <<row, badge, handlers, coordinator, history, count>>

ProgressMutant(r) ==  \* mutant: the columns are written from the old document too
  /\ At(r, "progress", "bars") \/ At(r, "last", "ending")
  /\ row' = [row EXCEPT ![r] = Synced(copy[r].doc)]
  /\ UNCHANGED <<badge, handlers, coordinator, copy, outcome, history, count>>

\* update_progress writes the whole document for a percentage in it.
Progress(r) ==
  /\ At(r, "progress", "bars") \/ At(r, "last", "ending")
  /\ row' = [row EXCEPT ![r].doc = copy[r].doc]
  /\ UNCHANGED <<badge, handlers, coordinator, copy, outcome, history, count>>

EngineFails(r) ==
  /\ Faults < MaxFaults
  /\ At(r, "bars", "ending")
  /\ outcome' = [outcome EXCEPT ![r] = "failed"]
  /\ count' = [count EXCEPT !.errors = @ + 1]
  /\ UNCHANGED <<row, badge, handlers, coordinator, copy, history>>

ReadFinish(r) ==
  /\ At(r, "ending", "finish")
  /\ ReadRow(r)
  /\ UNCHANGED <<row, badge, handlers, coordinator, outcome, history, count>>

\* finish_run; a run that completed then stores the period it covered.
WriteFinish(r) ==
  /\ stage[r] = "finish"
  /\ stage' = [stage EXCEPT ![r] =
                 IF outcome[r] = "completed" THEN "period" ELSE "badge"]
  /\ WriteBack(r, copy[r],
       Synced([copy[r].doc EXCEPT !.status = outcome[r],
                                  !.results = outcome[r] # "failed" \/ @]))
  /\ asked' = asked \ {r}
  /\ UNCHANGED <<badge, handlers, coordinator, copy, outcome, byHand, count>>

\* get_raw_doc puts the columns into the document it returns.
ReadPeriod(r) ==
  /\ At(r, "period", "store")
  /\ copy' = [copy EXCEPT ![r] = [row[r] EXCEPT !.doc.status = row[r].status,
                                                !.doc.cancel = row[r].cancel]]
  /\ UNCHANGED <<row, badge, handlers, coordinator, outcome, history, count>>

WritePeriod(r) ==
  /\ At(r, "store", "badge")
  /\ row' = [row EXCEPT ![r] = Synced(copy[r].doc)]
  /\ UNCHANGED <<badge, handlers, coordinator, copy, outcome, history, count>>

SetBadgeMutant(r) ==  \* mutant: a cancelled run leaves the badge alone
  /\ At(r, "badge", "done")
  /\ badge' = IF outcome[r] = "cancelled" THEN badge ELSE [badge EXCEPT ![r] = "ended"]
  /\ UNCHANGED <<row, handlers, coordinator, copy, outcome, history, count>>

SetBadge(r) ==
  /\ At(r, "badge", "done")
  /\ badge' = [badge EXCEPT ![r] = "ended"]
  /\ UNCHANGED <<row, handlers, coordinator, copy, outcome, history, count>>

\* A worker process dies: the executor fails every future and takes no more.
Kill(r) ==
  /\ stage[r] \in Live
  /\ Faults < MaxFaults
  /\ count' = [count EXCEPT !.kills = @ + 1]
  /\ pool' = "broken"
  /\ stage' = [q \in Runs |-> IF stage[q] \in Live THEN "dead" ELSE stage[q]]
  /\ UNCHANGED <<row, badge, handlers, ready, inflight, claimed, copy, outcome, history>>

RestartLeavesWorkers ==  \* mutant: stopping the pool leaves its workers running
  /\ Faults < MaxFaults
  /\ count' = [count EXCEPT !.restarts = @ + 1]
  /\ starting' = [r \in Runs |-> "none"]
  /\ cancelCopy' = [r \in Runs |-> {}]
  /\ ready' = {r \in Runs : row[r].status = "running" /\ ~row[r].cancel}
  /\ inflight' = {} /\ claimed' = NoRun /\ pool' = "ok"
  /\ UNCHANGED <<row, badge, startCopy, stage, copy, outcome, history>>

RestartMutant ==  \* mutant: orphaned runs are not resumed
  /\ Faults < MaxFaults
  /\ count' = [count EXCEPT !.restarts = @ + 1]
  /\ starting' = [r \in Runs |-> "none"]
  /\ cancelCopy' = [r \in Runs |-> {}]
  /\ ready' = {} /\ inflight' = {} /\ claimed' = NoRun /\ pool' = "ok"
  /\ stage' = [r \in Runs |-> "none"]
  /\ UNCHANGED <<row, badge, startCopy, copy, outcome, history>>

\* The API process restarts: its handlers, the coordinator's tables and the
\* workers are gone; runs that are running, and not being cancelled, are resumed.
Restart ==
  /\ Faults < MaxFaults
  /\ count' = [count EXCEPT !.restarts = @ + 1]
  /\ starting' = [r \in Runs |-> "none"]
  /\ cancelCopy' = [r \in Runs |-> {}]
  /\ ready' = {r \in Runs : row[r].status = "running" /\ ~row[r].cancel}
  /\ inflight' = {}
  /\ claimed' = NoRun
  /\ pool' = "ok"
  /\ stage' = [r \in Runs |-> "none"]
  /\ UNCHANGED <<row, badge, startCopy, copy, outcome, history>>

-----------------------------------------------------------------------------
Handler(r) == ReadStart(r) \/ WriteStart(r) \/ Notify(r) \/ WriteCancel(r)
Coordinate(r) == Reap(r) \/ PickReady(r) \/ Claim(r) \/ Submit(r)
Work(r) == \/ Begin(r) \/ Check(r) \/ Progress(r) \/ ReadFinish(r)
           \/ WriteFinish(r) \/ ReadPeriod(r) \/ WritePeriod(r) \/ SetBadge(r)

Next ==
  \/ \E r \in Runs : \/ AskStart(r) \/ ReadCancel(r) \/ Handler(r)
                     \/ Coordinate(r) \/ Work(r) \/ EngineFails(r) \/ Kill(r)
  \/ Restart

Spec == Init /\ [][Next]_vars

\* The event loop runs the handlers and the coordinator, a worker goes through
\* its run, which has a last bar.
FairSpec ==
  /\ Spec
  /\ \A r \in Runs : /\ WF_vars(Handler(r))
                     /\ WF_vars(Reap(r))
                     /\ SF_vars(PickReady(r))
                     /\ SF_vars(Claim(r))
                     /\ WF_vars(Submit(r))
                     /\ WF_vars(Work(r))
                     /\ SF_vars(Check(r) /\ stage'[r] # "progress")

-----------------------------------------------------------------------------
(* Properties.                                                              *)

\* No run is executed twice at a time, however it was started, cancelled or
\* resumed: a worker's run is in the coordinator's table, and no run in the table
\* is taken once more, from the queue or from the hand-started ones.
NotTwice ==
  /\ \A r \in Runs : stage[r] \in Live => r \in inflight
  /\ claimed \notin inflight

\* A cancellation that was written is not lost to update_progress, to the claim
\* or to finish_run, as long as nobody starts the run by hand.
CancelKept ==
  \A r \in asked \ byHand : row[r].status \in Terminal \/ row[r].cancel

\* A run that has ended does not leave its strategy's badge at "running": the
\* coordinator writes the badge before, the worker after.
BadgeSettled ==
  \A r \in Runs \ byHand :
    /\ count.kills + count.restarts = 0
    /\ row[r].status \in Terminal
    /\ stage[r] \notin Live /\ claimed # r
    => badge[r] # "running"

\* What was asked of a run and how it ended shows, whichever stale copy of its
\* row is written last.
Settled == CancelKept /\ BadgeSettled

\* A run that was marked running ends, also when the API restarts meanwhile; the
\* exceptions are a run whose cancellation the restart finds, a broken pool, and a
\* row torn by a start by hand of a run that was claimed at the same time.
EveryRunEnds ==
  \A r \in Runs :
    row[r].status = "running" ~>
      \/ row[r].status \in Terminal
      \/ row[r].cancel /\ count.restarts > 0
      \/ pool = "broken"
      \/ r \in byHand /\ row[r].status # row[r].doc.status

\* The comment in start: "Resume orphaned running runs after API restart."
OrphansResumed ==
  \A r \in Runs :
    (row[r].status = "running" /\ pool = "ok") ~>
      row[r].status \in Terminal \/ pool = "broken"

\* A finished run keeps its results, which request_cancel's check of the status
\* is there for.
ResultsKept ==
  [][\A r \in Runs : row[r].doc.results => row'[r].doc.results]_vars
=============================================================================
