------------------------- MODULE BacktestRuns_proof -------------------------
(***************************************************************************)
(* Proofs about BacktestRuns, for any runs, any number of worker processes  *)
(* and any number of failures: the state is well typed, so never more runs  *)
(* are in the coordinator's table than the setting allows, no run is        *)
(* executed twice at a time, and of a run that nobody started by hand the   *)
(* cancellation is kept and the badge settles.                              *)
(***************************************************************************)
EXTENDS BacktestRuns, FiniteSetTheorems, TLAPS

\* The coordinator takes a run only while a slot is free.
SlotKept == claimed # NoRun => Cardinality(inflight) < MaxConcurrent

\* A run that was taken is not queued any more, so the queue cannot give it again.
Taken == \A r \in Runs : r \in inflight \/ claimed = r => row[r].status # "queued"

\* Nor can its document make a queued run look started.
DocFollows == \A r \in Runs : row[r].status = "queued" => row[r].doc.status = "queued"

\* A cancellation that has found a started run will not write a queued one back.
CancelRead ==
  \A r \in Runs : \A loaded \in cancelCopy[r] :
    loaded.status # "queued" => row[r].status # "queued"

\* mark_running writes what it has read of a queued run.
StartRead == \A r \in Runs : starting[r] = "read" => startCopy[r].status = "queued"

\* Nor will a worker that stores the period.
Stored == \A r \in Runs : stage[r] = "store" => copy[r].doc.status # "queued"

Inv == TypeOK /\ SlotKept /\ Taken /\ DocFollows /\ CancelRead /\ StartRead /\ Stored /\ NotTwice

LEMMA InitInv == ASSUME RunsAssumption, Init PROVE Inv
<1>1. Cardinality({}) = 0
  BY FS_EmptySet
<1>2. NewRow \in Rows
  BY DEF NewRow, Rows, Docs, Statuses, Terminal
<1>3. TypeOK
  BY <1>1, <1>2 DEF RunsAssumption, Init, TypeOK, Badges, Terminal, Stages, Counts
<1> QED
  BY <1>1, <1>3 DEF RunsAssumption, Init, Inv, SlotKept, Taken, DocFollows, CancelRead,
     StartRead, Stored, NotTwice, NewRow, Live

-----------------------------------------------------------------------------
(* Rows.                                                                    *)

LEMMA SyncedRow ==
    ASSUME NEW doc \in Docs
    PROVE  /\ Synced(doc) \in Rows
           /\ Synced(doc).status = doc.status /\ Synced(doc).doc = doc
BY DEF Synced, Rows, Docs

LEMMA BegunDoc ==
    ASSUME NEW doc \in Docs
    PROVE  Begun(doc) \in Docs /\ Begun(doc).status = "running"
BY DEF Begun, Docs, Statuses

\* A row is written back well typed; it is not queued if what is written is not,
\* or if the row was not queued and the copy was no different.
LEMMA WrittenBack ==
    ASSUME TypeOK, NEW r \in Runs, NEW loaded \in Rows, NEW new \in Rows,
           WriteBack(r, loaded, new)
    PROVE  /\ row' \in [Runs -> Rows]
           /\ \A q \in Runs : q # r => row'[q] = row[q]
           /\ row'[r].doc = new.doc
           /\ row'[r].status \in {row[r].status, new.status}
           /\ new.status # loaded.status => row'[r].status = new.status
<1>1. Flushed(row[r], loaded, new) \in Rows
  BY DEF Flushed, Flush, TypeOK, Rows
<1>2. row'[r] = Flushed(row[r], loaded, new)
  BY DEF WriteBack, TypeOK
<1>3. row' \in [Runs -> Rows] /\ \A q \in Runs : q # r => row'[q] = row[q]
  BY <1>1 DEF WriteBack, TypeOK
<1> QED
  BY <1>2, <1>3 DEF Flushed, Flush

\* What every step keeps: a run does not become queued again, and a document does
\* not run ahead of its columns.
Onward ==
  \A q \in Runs : /\ row[q].status # "queued" => row'[q].status # "queued"
                  /\ row'[q].status = "queued" => row'[q].doc.status = "queued"

LEMMA OnwardInv ==
    ASSUME Inv, Onward, inflight' \subseteq inflight, claimed' \in {claimed, NoRun},
           \A q \in Runs : cancelCopy'[q] \subseteq cancelCopy[q], RunsAssumption
    PROVE  Taken' /\ DocFollows' /\ CancelRead'
BY DEF Inv, Onward, Taken, DocFollows, CancelRead, RunsAssumption

LEMMA OneRow ==
    ASSUME Inv, NEW r \in Runs,
           \A q \in Runs : q # r => row'[q] = row[q],
           row[r].status # "queued" => row'[r].status # "queued",
           row'[r].status = "queued" => row'[r].doc.status = "queued"
    PROVE  Onward
BY DEF Inv, Onward, DocFollows

-----------------------------------------------------------------------------
(* The API's handlers.                                                      *)

LEMMA AskStartInv ==
    ASSUME RunsAssumption, Inv, NEW r \in Runs, AskStart(r) PROVE Inv'
<1>1. TypeOK'
  BY DEF AskStart, Inv, TypeOK, coordinator, workers, Counts, RunsAssumption
<1> QED
  BY <1>1 DEF AskStart, Inv, SlotKept, Taken, DocFollows, CancelRead, StartRead, Stored, NotTwice,
     coordinator, workers

LEMMA ReadStartInv ==
    ASSUME RunsAssumption, Inv, NEW r \in Runs, ReadStart(r) PROVE Inv'
<1>1. TypeOK'
  BY DEF ReadStart, Inv, TypeOK, coordinator, workers, history
<1>2. StartRead'
  BY DEF ReadStart, Inv, TypeOK, StartRead
<1> QED
  BY <1>1, <1>2 DEF ReadStart, Inv, SlotKept, Taken, DocFollows, CancelRead, Stored, NotTwice,
     coordinator, workers

LEMMA WriteStartInv ==
    ASSUME RunsAssumption, Inv, NEW r \in Runs, WriteStart(r) PROVE Inv'
<1> DEFINE new == Synced(Begun(startCopy[r].doc))
<1>1. startCopy[r] \in Rows /\ startCopy[r].doc \in Docs
  BY DEF Inv, TypeOK, Rows
<1>2. new \in Rows /\ new.status = "running"
  BY <1>1, SyncedRow, BegunDoc
<1>3. WriteBack(r, startCopy[r], new)
  BY DEF WriteStart
<1> HIDE DEF new
<1>4. /\ row' \in [Runs -> Rows]
      /\ \A q \in Runs : q # r => row'[q] = row[q]
      /\ row'[r].doc = new.doc
      /\ row'[r].status \in {row[r].status, new.status}
  BY <1>1, <1>2, <1>3, WrittenBack DEF Inv
<1>5. new.status # startCopy[r].status
  BY <1>2 DEF WriteStart, Inv, StartRead
<1>6. row'[r].status = "running"
  BY <1>1, <1>2, <1>3, <1>5, WrittenBack DEF Inv
<1>7. Onward
  BY <1>4, <1>6, OneRow
<1>8. Taken' /\ DocFollows' /\ CancelRead'
  BY <1>7, OnwardInv DEF WriteStart, coordinator
<1>9. TypeOK'
  BY <1>4 DEF WriteStart, Inv, TypeOK, coordinator, workers, history
<1> QED
  BY <1>8, <1>9 DEF WriteStart, Inv, SlotKept, StartRead, Stored, NotTwice, TypeOK,
     coordinator, workers

LEMMA NotifyInv ==
    ASSUME RunsAssumption, Inv, NEW r \in Runs, Notify(r) PROVE Inv'
<1>1. TypeOK'
  BY DEF Notify, Inv, TypeOK, workers, history, Badges
<1> QED
  BY <1>1 DEF Notify, Inv, TypeOK, SlotKept, Taken, DocFollows, CancelRead, StartRead, Stored,
     NotTwice, workers

LEMMA ReadCancelInv ==
    ASSUME RunsAssumption, Inv, NEW r \in Runs, ReadCancel(r) PROVE Inv'
<1>1. row[r] \in Rows
  BY DEF Inv, TypeOK
<1>2. cancelCopy' \in [Runs -> SUBSET Rows]
  BY <1>1 DEF ReadCancel, Inv, TypeOK
<1>3. TypeOK'
  BY <1>2 DEF ReadCancel, Inv, TypeOK, coordinator, workers, history, Counts, RunsAssumption
<1>4. CancelRead'
  BY DEF ReadCancel, Inv, TypeOK, CancelRead
<1> QED
  BY <1>3, <1>4 DEF ReadCancel, Inv, SlotKept, Taken, DocFollows, StartRead, Stored, NotTwice,
     coordinator, workers

\* What is left to show of a write of request_cancel.
LEMMA CancelStep ==
    ASSUME RunsAssumption, Inv, NEW r \in Runs, Onward,
           row' \in [Runs -> Rows],
           NEW loaded \in cancelCopy[r],
           cancelCopy' = [cancelCopy EXCEPT ![r] = @ \ {loaded}],
           asked' = IF row[r].status \in Terminal THEN asked ELSE asked \cup {r},
           UNCHANGED <<badge, starting, startCopy, coordinator, workers, byHand, count>>
    PROVE  Inv'
<1>1. /\ \A q \in Runs : cancelCopy'[q] \subseteq cancelCopy[q]
      /\ cancelCopy' \in [Runs -> SUBSET Rows]
      /\ asked' \subseteq Runs
  BY DEF Inv, TypeOK
<1>2. Taken' /\ DocFollows' /\ CancelRead'
  BY <1>1, OnwardInv DEF coordinator
<1>3. TypeOK'
  BY <1>1 DEF Inv, TypeOK, coordinator, workers
<1> QED
  BY <1>2, <1>3 DEF Inv, SlotKept, StartRead, Stored, NotTwice, coordinator, workers

LEMMA WriteCancelInv ==
    ASSUME RunsAssumption, Inv, NEW r \in Runs, WriteCancel(r) PROVE Inv'
<1>1. PICK loaded \in cancelCopy[r] :
        LET told == [loaded.doc EXCEPT !.cancel = TRUE]
            new == IF loaded.status = "queued"
                     THEN Synced([told EXCEPT !.status = "cancelled"])
                     ELSE [status |-> loaded.status, cancel |-> TRUE, doc |-> told]
        IN /\ WriteBack(r, loaded, new)
           /\ cancelCopy' = [cancelCopy EXCEPT ![r] = @ \ {loaded}]
           /\ asked' = IF row[r].status \in Terminal THEN asked ELSE asked \cup {r}
           /\ UNCHANGED <<badge, starting, startCopy, coordinator, workers, byHand, count>>
  BY DEF WriteCancel
<1> DEFINE told == [loaded.doc EXCEPT !.cancel = TRUE]
<1> DEFINE ended == [told EXCEPT !.status = "cancelled"]
<1> DEFINE new == IF loaded.status = "queued" THEN Synced(ended)
                  ELSE [status |-> loaded.status, cancel |-> TRUE, doc |-> told]
<1>2. loaded \in Rows /\ loaded.doc \in Docs /\ loaded.status \in Statuses
  BY <1>1 DEF Inv, TypeOK, Rows
<1>3. told \in Docs /\ ended \in Docs /\ ended.status = "cancelled"
  BY <1>2 DEF Docs, Statuses, Terminal
<1>4. WriteBack(r, loaded, new)
  BY <1>1
<1>5. CASE loaded.status = "queued"
  <2>1. new \in Rows /\ new.status = "cancelled"
    BY <1>3, <1>5, SyncedRow
  <2> HIDE DEF new
  <2>2. row' \in [Runs -> Rows] /\ \A q \in Runs : q # r => row'[q] = row[q]
    BY <1>2, <1>4, <2>1, WrittenBack DEF Inv
  <2>3. row'[r].status = "cancelled"
    BY <1>2, <1>4, <1>5, <2>1, WrittenBack DEF Inv
  <2> QED
    BY <2>2, <2>3, OneRow, <1>1, CancelStep
<1>6. CASE loaded.status # "queued"
  <2>1. new \in Rows /\ new.status = loaded.status
    BY <1>2, <1>3, <1>6 DEF Rows
  <2> HIDE DEF new
  <2>2. row' \in [Runs -> Rows] /\ \A q \in Runs : q # r => row'[q] = row[q]
    BY <1>2, <1>4, <2>1, WrittenBack DEF Inv
  <2>3. row'[r].status \in {row[r].status, loaded.status}
    BY <1>2, <1>4, <2>1, WrittenBack DEF Inv
  <2>4. row[r].status # "queued"
    BY <1>1, <1>6 DEF Inv, CancelRead
  <2>5. row'[r].status # "queued"
    BY <1>6, <2>3, <2>4
  <2> QED
    BY <2>2, <2>4, <2>5, OneRow, <1>1, CancelStep
<1> QED
  BY <1>5, <1>6

-----------------------------------------------------------------------------
(* The coordinator.                                                         *)

LEMMA ReapInv ==
    ASSUME RunsAssumption, Inv, NEW r \in Runs, Reap(r) PROVE Inv'
<1>1. IsFiniteSet(inflight)
  BY FS_Subset DEF RunsAssumption, Inv, TypeOK
<1>2. Cardinality(inflight') <= Cardinality(inflight)
  BY <1>1, FS_Subset DEF Reap
<1>3. Cardinality(inflight) \in Nat /\ Cardinality(inflight') \in Nat
  BY <1>1, FS_CardinalityType, FS_Subset DEF Reap
<1>4. MaxConcurrent \in Nat
  BY DEF RunsAssumption
<1>5. Cardinality(inflight') <= MaxConcurrent /\ SlotKept'
  BY <1>2, <1>3, <1>4 DEF Reap, Inv, TypeOK, SlotKept
<1>6. TypeOK'
  BY <1>5 DEF Reap, Inv, TypeOK, handlers, history, Stages
<1>7. NotTwice'
  BY DEF Reap, Inv, TypeOK, NotTwice, Live
<1> QED
  BY <1>5, <1>6, <1>7 DEF Reap, Inv, TypeOK, Taken, DocFollows, CancelRead, StartRead, Stored,
     handlers

LEMMA PickReadyInv ==
    ASSUME RunsAssumption, Inv, NEW r \in Runs, PickReady(r) PROVE Inv'
<1>1. TypeOK' /\ SlotKept'
  BY DEF PickReady, SlotFree, SlotKept, Inv, TypeOK, handlers, workers, history
<1>2. Taken'
  BY DEF PickReady, Inv, Taken, DocFollows, RunsAssumption
<1>3. NotTwice'
  BY DEF PickReady, Inv, NotTwice, TypeOK, workers, RunsAssumption
<1> QED
  BY <1>1, <1>2, <1>3 DEF PickReady, Inv, DocFollows, CancelRead, StartRead, Stored, handlers,
     workers

LEMMA ClaimInv ==
    ASSUME RunsAssumption, Inv, NEW r \in Runs, Claim(r) PROVE Inv'
<1> DEFINE new == Synced(Begun(row[r].doc))
<1>1. row[r] \in Rows /\ row[r].doc \in Docs
  BY DEF Inv, TypeOK, Rows
<1>2. new \in Rows /\ new.status = "running"
  BY <1>1, SyncedRow, BegunDoc
<1>3. WriteBack(r, row[r], new) /\ row[r].status = "queued"
  BY DEF Claim
<1> HIDE DEF new
<1>4. row' \in [Runs -> Rows] /\ \A q \in Runs : q # r => row'[q] = row[q]
  BY <1>1, <1>2, <1>3, WrittenBack DEF Inv
<1>5. row'[r].status = "running"
  BY <1>1, <1>2, <1>3, WrittenBack DEF Inv
<1>6. Taken'
  BY <1>4, <1>5 DEF Claim, SlotFree, Inv, Taken
<1>7. DocFollows' /\ CancelRead'
  BY <1>4, <1>5 DEF Claim, Inv, DocFollows, CancelRead, handlers
<1>8. TypeOK' /\ SlotKept'
  BY <1>4 DEF Claim, SlotFree, SlotKept, Inv, TypeOK, handlers, workers, history
<1>9. NotTwice'
  BY <1>3 DEF Claim, Inv, Taken, NotTwice, workers
<1> QED
  BY <1>6, <1>7, <1>8, <1>9 DEF Claim, Inv, StartRead, Stored, handlers, workers

LEMMA SubmitInv ==
    ASSUME RunsAssumption, Inv, NEW r \in Runs, Submit(r) PROVE Inv'
<1>1. r # NoRun /\ claimed = r /\ claimed' = NoRun
  BY DEF Submit, RunsAssumption
<1>2. CASE pool = "ok" /\ r \notin inflight
  <2>1. inflight' = inflight \cup {r} /\ stage' = [stage EXCEPT ![r] = "pooled"]
    BY <1>2 DEF Submit
  <2>2. IsFiniteSet(inflight)
    BY FS_Subset DEF RunsAssumption, Inv, TypeOK
  <2>3. Cardinality(inflight') = Cardinality(inflight) + 1
    BY <1>2, <2>1, <2>2, FS_AddElement
  <2>4. Cardinality(inflight) \in Nat /\ Cardinality(inflight) < MaxConcurrent
    BY <1>1, <2>2, FS_CardinalityType DEF Inv, SlotKept
  <2>5. Cardinality(inflight') <= MaxConcurrent
    BY <2>3, <2>4 DEF RunsAssumption
  <2>6. inflight' \subseteq Runs /\ stage' \in [Runs -> Stages]
    BY <2>1 DEF Inv, TypeOK, Stages, Live
  <2>7. TypeOK'
    BY <2>5, <2>6 DEF Submit, Inv, TypeOK, handlers, history, Badges
  <2>8. Taken' /\ NotTwice'
    BY <1>1, <2>1 DEF Submit, Inv, Taken, NotTwice, TypeOK, RunsAssumption
  <2>9. Stored'
    BY <2>1 DEF Submit, Inv, Stored, TypeOK
  <2> QED
    BY <1>1, <2>7, <2>8, <2>9 DEF Submit, Inv, SlotKept, DocFollows, CancelRead, StartRead, handlers
<1>3. CASE ~(pool = "ok" /\ r \notin inflight)
  <2>1. UNCHANGED <<inflight, stage>>
    BY <1>3 DEF Submit
  <2>2. TypeOK'
    BY <2>1 DEF Submit, Inv, TypeOK, handlers, history, Badges
  <2>3. Taken' /\ NotTwice'
    BY <1>1, <2>1 DEF Submit, Inv, Taken, NotTwice, TypeOK, RunsAssumption
  <2> QED
    BY <1>1, <2>1, <2>2, <2>3
    DEF Submit, Inv, SlotKept, DocFollows, CancelRead, StartRead, Stored, handlers
<1> QED
  BY <1>2, <1>3

-----------------------------------------------------------------------------
(* The workers.                                                             *)

\* A worker that goes on stays one.
LEMMA WorkStep ==
    ASSUME Inv, NEW r \in Runs, NEW from \in Live, NEW to \in Live \cup {"done"},
           At(r, from, to)
    PROVE  /\ stage' \in [Runs -> Stages]
           /\ r \in inflight
           /\ \A q \in Runs : stage'[q] \in Live => stage[q] \in Live
           /\ \A q \in Runs : q # r => stage'[q] = stage[q]
           /\ stage'[r] = to
BY DEF At, Inv, TypeOK, NotTwice, Stages

\* The steps of a worker that write nothing.
LEMMA QuietWork ==
    ASSUME RunsAssumption, Inv, NEW r \in Runs, NEW from \in Live, NEW to \in Live \cup {"done"},
           At(r, from, to),
           copy' \in [Runs -> Rows], \A q \in Runs : q # r => copy'[q] = copy[q],
           to = "store" => copy'[r].doc.status # "queued",
           outcome' \in [Runs -> Terminal], badge' \in [Runs -> Badges], count' \in Counts,
           UNCHANGED <<row, handlers, coordinator, history>>
    PROVE  Inv'
<1>1. /\ stage' \in [Runs -> Stages]
      /\ \A q \in Runs : stage'[q] \in Live => stage[q] \in Live
      /\ \A q \in Runs : q # r => stage'[q] = stage[q]
      /\ stage'[r] = to
  BY WorkStep
<1>2. TypeOK'
  BY <1>1 DEF Inv, TypeOK, handlers, coordinator, history
<1>3. Stored'
  BY <1>1 DEF Inv, Stored
<1>4. NotTwice'
  BY <1>1 DEF Inv, NotTwice, coordinator
<1> QED
  BY <1>2, <1>3, <1>4
  DEF Inv, SlotKept, Taken, DocFollows, CancelRead, StartRead, handlers, coordinator

\* The steps of a worker that write its row.
LEMMA LoudWork ==
    ASSUME RunsAssumption, Inv, NEW r \in Runs, NEW from \in Live, NEW to \in Live \ {"store"},
           At(r, from, to),
           row' \in [Runs -> Rows], \A q \in Runs : q # r => row'[q] = row[q],
           row'[r].status # "queued",
           asked' \subseteq Runs,
           UNCHANGED <<badge, handlers, coordinator, copy, outcome, byHand, count>>
    PROVE  Inv'
<1>1. /\ stage' \in [Runs -> Stages]
      /\ \A q \in Runs : stage'[q] \in Live => stage[q] \in Live
      /\ \A q \in Runs : q # r => stage'[q] = stage[q]
      /\ stage'[r] = to
  BY WorkStep
<1>2. Onward
  BY OneRow
<1>3. Taken' /\ DocFollows' /\ CancelRead'
  BY <1>2, OnwardInv DEF coordinator, handlers
<1>4. TypeOK'
  BY <1>1 DEF Inv, TypeOK, handlers, coordinator
<1>5. Stored'
  BY <1>1 DEF Inv, Stored
<1>6. NotTwice'
  BY <1>1 DEF Inv, NotTwice, coordinator
<1> QED
  BY <1>3, <1>4, <1>5, <1>6 DEF Inv, SlotKept, StartRead, handlers, coordinator

\* A worker's run is not queued.
LEMMA WorksOnTaken ==
    ASSUME Inv, NEW r \in Runs, stage[r] \in Live
    PROVE  row[r] \in Rows /\ row[r].status # "queued"
BY DEF Inv, TypeOK, NotTwice, Taken

LEMMA ReadingWorkInv ==
    ASSUME RunsAssumption, Inv, NEW r \in Runs,
           \/ Begin(r) \/ Check(r) \/ EngineFails(r) \/ ReadFinish(r) \/ SetBadge(r)
    PROVE  Inv'
<1>1. /\ copy \in [Runs -> Rows] /\ outcome \in [Runs -> Terminal]
      /\ badge \in [Runs -> Badges] /\ count \in Counts
      /\ [outcome EXCEPT ![r] = "cancelled"] \in [Runs -> Terminal]
      /\ [outcome EXCEPT ![r] = "completed"] \in [Runs -> Terminal]
      /\ [outcome EXCEPT ![r] = "failed"] \in [Runs -> Terminal]
      /\ [badge EXCEPT ![r] = "ended"] \in [Runs -> Badges]
  BY DEF Inv, TypeOK, Terminal, Badges
<1>2. /\ [copy EXCEPT ![r] = row[r]] \in [Runs -> Rows]
      /\ \A q \in Runs : q # r => [copy EXCEPT ![r] = row[r]][q] = copy[q]
  BY DEF Inv, TypeOK
<1>3. {"pooled", "bars", "progress", "last", "ending", "finish", "badge"} \subseteq Live
  BY DEF Live
<1>4. CASE Begin(r)
  BY <1>1, <1>2, <1>3, <1>4, QuietWork DEF Begin, ReadRow
<1>5. CASE Check(r)
  <2>1. CASE At(r, "bars", "ending") /\ outcome' = [outcome EXCEPT ![r] = "cancelled"]
             /\ UNCHANGED copy
    BY <1>1, <1>3, <1>5, <2>1, QuietWork DEF Check
  <2>2. CASE At(r, "bars", "progress") /\ ReadRow(r) /\ UNCHANGED outcome
    BY <1>1, <1>2, <1>3, <1>5, <2>2, QuietWork DEF Check, ReadRow
  <2>3. CASE At(r, "bars", "last") /\ ReadRow(r)
             /\ outcome' = [outcome EXCEPT ![r] = "completed"]
    BY <1>1, <1>2, <1>3, <1>5, <2>3, QuietWork DEF Check, ReadRow
  <2> QED
    BY <1>5, <2>1, <2>2, <2>3 DEF Check
<1>6. CASE EngineFails(r)
  <2>1. count' \in Counts
    BY <1>6 DEF EngineFails, Faults, Inv, TypeOK, Counts, RunsAssumption
  <2> QED
    BY <1>1, <1>3, <1>6, <2>1, QuietWork DEF EngineFails
<1>7. CASE ReadFinish(r)
  BY <1>1, <1>2, <1>3, <1>7, QuietWork DEF ReadFinish, ReadRow
<1>8. CASE SetBadge(r)
  BY <1>1, <1>3, <1>8, QuietWork DEF SetBadge
<1> QED
  BY <1>4, <1>5, <1>6, <1>7, <1>8

LEMMA ReadPeriodInv ==
    ASSUME RunsAssumption, Inv, NEW r \in Runs, ReadPeriod(r) PROVE Inv'
<1> DEFINE read == [row[r] EXCEPT !.doc.status = row[r].status, !.doc.cancel = row[r].cancel]
<1>1. At(r, "period", "store") /\ "period" \in Live /\ "store" \in Live
  BY DEF ReadPeriod, Live
<1>2. row[r] \in Rows /\ row[r].status # "queued"
  BY <1>1, WorksOnTaken DEF At
<1>3. read \in Rows /\ read.doc.status # "queued"
  BY <1>2 DEF Rows, Docs
<1>4. copy' = [copy EXCEPT ![r] = read]
  BY DEF ReadPeriod
<1> HIDE DEF read
<1>5. /\ copy' \in [Runs -> Rows] /\ copy'[r] = read
      /\ \A q \in Runs : q # r => copy'[q] = copy[q]
  BY <1>3, <1>4 DEF Inv, TypeOK
<1>6. outcome' \in [Runs -> Terminal] /\ badge' \in [Runs -> Badges] /\ count' \in Counts
  BY DEF ReadPeriod, Inv, TypeOK
<1> QED
  BY <1>1, <1>3, <1>5, <1>6, QuietWork DEF ReadPeriod

LEMMA ProgressInv ==
    ASSUME RunsAssumption, Inv, NEW r \in Runs, Progress(r) PROVE Inv'
<1>1. PICK from \in {"progress", "last"}, to \in {"bars", "ending"} : At(r, from, to)
  BY DEF Progress
<1>2. from \in Live /\ to \in Live \ {"store"}
  BY <1>1 DEF Live
<1>3. row[r] \in Rows /\ row[r].status # "queued"
  BY <1>1, <1>2, WorksOnTaken DEF At
<1>4. /\ row' \in [Runs -> Rows] /\ row'[r].status = row[r].status
      /\ \A q \in Runs : q # r => row'[q] = row[q]
  BY DEF Progress, Inv, TypeOK, Rows
<1>5. asked' \subseteq Runs
  BY DEF Progress, history, Inv, TypeOK
<1> QED
  BY <1>1, <1>2, <1>3, <1>4, <1>5, LoudWork DEF Progress, history

LEMMA WriteFinishInv ==
    ASSUME RunsAssumption, Inv, NEW r \in Runs, WriteFinish(r) PROVE Inv'
<1> DEFINE doc == [copy[r].doc EXCEPT !.status = outcome[r],
                                      !.results = outcome[r] # "failed" \/ @]
<1> DEFINE new == Synced(doc)
<1>1. PICK to \in {"badge", "period"} : At(r, "finish", to)
  BY DEF WriteFinish, At
<1>2. "finish" \in Live /\ to \in Live \ {"store"}
  BY DEF Live
<1>3. row[r] \in Rows /\ row[r].status # "queued"
  BY <1>1, <1>2, WorksOnTaken DEF At
<1>4. copy[r] \in Rows /\ copy[r].doc \in Docs /\ outcome[r] \in Terminal
  BY DEF Inv, TypeOK, Rows
<1>5. doc \in Docs /\ doc.status = outcome[r]
  BY <1>4 DEF Docs, Statuses
<1>6. new \in Rows /\ new.status = outcome[r]
  BY <1>5, SyncedRow
<1>7. WriteBack(r, copy[r], new)
  BY DEF WriteFinish
<1> HIDE DEF new
<1>8. /\ row' \in [Runs -> Rows] /\ row'[r].status \in {row[r].status, new.status}
      /\ \A q \in Runs : q # r => row'[q] = row[q]
  BY <1>4, <1>6, <1>7, WrittenBack DEF Inv
<1>9. row'[r].status # "queued"
  BY <1>3, <1>4, <1>6, <1>8 DEF Terminal
<1>10. asked' \subseteq Runs
  BY DEF WriteFinish, Inv, TypeOK
<1> QED
  BY <1>1, <1>2, <1>8, <1>9, <1>10, LoudWork DEF WriteFinish

LEMMA WritePeriodInv ==
    ASSUME RunsAssumption, Inv, NEW r \in Runs, WritePeriod(r) PROVE Inv'
<1>1. At(r, "store", "badge") /\ "store" \in Live /\ "badge" \in Live \ {"store"}
  BY DEF WritePeriod, Live
<1>2. copy[r].doc \in Docs /\ copy[r].doc.status # "queued"
  BY <1>1 DEF At, Inv, TypeOK, Rows, Stored
<1>3. Synced(copy[r].doc) \in Rows /\ Synced(copy[r].doc).status # "queued"
  BY <1>2, SyncedRow
<1>4. /\ row' \in [Runs -> Rows] /\ row'[r].status # "queued"
      /\ \A q \in Runs : q # r => row'[q] = row[q]
  BY <1>3 DEF WritePeriod, Inv, TypeOK
<1>5. asked' \subseteq Runs
  BY DEF WritePeriod, history, Inv, TypeOK
<1> QED
  BY <1>1, <1>4, <1>5, LoudWork DEF WritePeriod, history

LEMMA KillInv ==
    ASSUME RunsAssumption, Inv, NEW r \in Runs, Kill(r) PROVE Inv'
<1>1. /\ stage' \in [Runs -> Stages]
      /\ \A q \in Runs : stage'[q] \notin Live /\ stage'[q] # "store"
  BY DEF Kill, Inv, TypeOK, Stages, Live
<1>2. TypeOK'
  BY <1>1 DEF Kill, Faults, Inv, TypeOK, handlers, history, Counts, RunsAssumption
<1> QED
  BY <1>1, <1>2
  DEF Kill, Inv, SlotKept, Taken, DocFollows, CancelRead, StartRead, Stored, NotTwice, handlers

LEMMA RestartInv == ASSUME RunsAssumption, Inv, Restart PROVE Inv'
<1>1. Cardinality(inflight') = 0
  BY FS_EmptySet DEF Restart
<1>2. TypeOK'
  BY <1>1 DEF Restart, Faults, Inv, TypeOK, history, Counts, Stages, RunsAssumption
<1> QED
  BY <1>2 DEF Restart, Inv, SlotKept, Taken, DocFollows, CancelRead, StartRead, Stored, NotTwice,
     RunsAssumption, Live

-----------------------------------------------------------------------------
LEMMA NextInv == ASSUME RunsAssumption, Inv, [Next]_vars PROVE Inv'
<1>1. ASSUME NEW r \in Runs, AskStart(r) \/ ReadCancel(r) \/ Handler(r) PROVE Inv'
  BY <1>1, AskStartInv, ReadCancelInv, ReadStartInv, WriteStartInv, NotifyInv, WriteCancelInv
  DEF Handler
<1>2. ASSUME NEW r \in Runs, Coordinate(r) PROVE Inv'
  BY <1>2, ReapInv, PickReadyInv, ClaimInv, SubmitInv DEF Coordinate
<1>3. ASSUME NEW r \in Runs, Work(r) \/ EngineFails(r) \/ Kill(r) PROVE Inv'
  BY <1>3, ReadingWorkInv, ReadPeriodInv, ProgressInv, WriteFinishInv, WritePeriodInv, KillInv
  DEF Work
<1>4. CASE UNCHANGED vars
  BY <1>4 DEF vars, Inv, TypeOK, SlotKept, Taken, DocFollows, CancelRead, StartRead, Stored, NotTwice
<1> QED
  BY <1>1, <1>2, <1>3, <1>4, RestartInv DEF Next

LEMMA Always == Spec => []Inv
<1>1. Init => Inv
  BY InitInv, RunsAssumption
<1>2. Inv /\ [Next]_vars => Inv'
  BY NextInv, RunsAssumption
<1> QED
  BY <1>1, <1>2, PTL DEF Spec

\* The state is well typed; in particular the coordinator's table never holds
\* more runs than max_concurrent.
THEOREM TypeCorrect == Spec => []TypeOK
BY Always, PTL DEF Inv

\* No run is executed by two workers, nor submitted while one has it, however the
\* copies of its row are written back over each other.
THEOREM ExecutedOnceAtATime == Spec => []NotTwice
BY Always, PTL DEF Inv

-----------------------------------------------------------------------------
(* What nobody's hand disturbs: the cancellation and the badge of a run that *)
(* nobody asked to start.                                                    *)

HandsOff == \A r \in Runs : r \notin byHand => starting[r] = "none"

\* A worker that writes the end of its run, or what comes after it, leaves a row
\* that ended ended.
Closing ==
  \A r \in Runs : r \notin byHand =>
    /\ stage[r] = "finish" /\ copy[r].status \in Terminal => row[r].status \in Terminal
    /\ stage[r] = "period" => row[r].status \in Terminal
    /\ stage[r] = "store" => copy[r].doc.status \in Terminal

\* A cancellation that somebody has read is still in the row.
CancelSeen ==
  \A r \in Runs : \A loaded \in cancelCopy[r] :
    r \notin byHand /\ loaded.cancel => row[r].cancel \/ row[r].status \in Terminal

Asked == \A r \in Runs : r \in asked /\ r \notin byHand =>
           row[r].status \in Terminal \/ row[r].cancel

\* Until a worker dies or the API restarts the pool is whole, and the badge is
\* "running" only for a run that was taken and whose worker has not ended.
Lit ==
  count.kills + count.restarts = 0 =>
    /\ pool = "ok"
    /\ \A r \in Runs : r \notin byHand /\ stage[r] \notin Live /\ claimed # r =>
         badge[r] # "running"

Kept == HandsOff /\ Closing /\ CancelSeen /\ Asked

\* What no step takes back from the row of such a run: its end, and, until then,
\* its cancellation.
Forward(q) ==
  /\ row[q].status \in Terminal => row'[q].status \in Terminal
  /\ row[q].cancel => row'[q].cancel \/ row'[q].status \in Terminal

LEMMA InitKept == ASSUME RunsAssumption, Init PROVE Kept /\ Lit
BY DEF Init, Kept, HandsOff, Closing, CancelSeen, Asked, Lit

LEMMA FlushedRow ==
    ASSUME TypeOK, NEW r \in Runs, NEW loaded \in Rows, NEW new \in Rows,
           WriteBack(r, loaded, new)
    PROVE  /\ \A q \in Runs : q # r => row'[q] = row[q]
           /\ row'[r].status = Flush(row[r].status, loaded.status, new.status)
           /\ row'[r].cancel = Flush(row[r].cancel, loaded.cancel, new.cancel)
BY DEF WriteBack, Flushed, TypeOK

LEMMA SyncedCancel ==
    ASSUME NEW doc \in Docs
    PROVE  Synced(doc) \in Rows /\ Synced(doc).status = doc.status /\ Synced(doc).cancel = doc.cancel
BY DEF Synced, Rows, Docs

\* The steps of the API and the coordinator that write no row.
LEMMA QuietKept ==
    ASSUME Inv, Kept, UNCHANGED row, asked' \subseteq asked, byHand \subseteq byHand',
           \A r \in Runs : r \notin byHand' => starting'[r] = "none",
           \A r \in Runs : \A loaded \in cancelCopy'[r] :
             loaded \in cancelCopy[r] \/ loaded = row[r],
           \A r \in Runs : stage'[r] \in {"finish", "period", "store"} =>
             stage'[r] = stage[r] /\ copy'[r] = copy[r]
    PROVE  Kept'
<1>1. HandsOff' /\ Asked'
  BY DEF Kept, HandsOff, Asked
<1>2. Closing'
  BY DEF Kept, Closing
<1>3. CancelSeen'
  BY DEF Kept, CancelSeen
<1> QED
  BY <1>1, <1>2, <1>3 DEF Kept

LEMMA ApiKept ==
    ASSUME Inv, Kept, NEW r \in Runs,
           \/ AskStart(r) \/ ReadStart(r) \/ Notify(r) \/ ReadCancel(r)
    PROVE  Kept'
<1>1. UNCHANGED <<row, stage, copy, asked>>
  BY DEF AskStart, ReadStart, Notify, ReadCancel, workers, history
<1>2. byHand \subseteq byHand'
  BY DEF AskStart, ReadStart, Notify, ReadCancel, history
<1>3. \A q \in Runs : q \notin byHand' => starting'[q] = "none"
  <2>1. CASE AskStart(r)
    BY <2>1 DEF AskStart, Inv, TypeOK, Kept, HandsOff
  <2>2. CASE ReadStart(r)
    BY <2>2 DEF ReadStart, Inv, TypeOK, Kept, HandsOff, history
  <2>3. CASE Notify(r)
    BY <2>3 DEF Notify, Inv, TypeOK, Kept, HandsOff, history
  <2>4. CASE ReadCancel(r)
    BY <2>4 DEF ReadCancel, Kept, HandsOff, history
  <2> QED
    BY <2>1, <2>2, <2>3, <2>4
<1>4. \A q \in Runs : \A loaded \in cancelCopy'[q] : loaded \in cancelCopy[q] \/ loaded = row[q]
  BY DEF AskStart, ReadStart, Notify, ReadCancel, Inv, TypeOK
<1> QED
  BY <1>1, <1>2, <1>3, <1>4, QuietKept

LEMMA CoordinatorKept ==
    ASSUME Inv, Kept, NEW r \in Runs, Reap(r) \/ PickReady(r) \/ Submit(r)
    PROVE  Kept'
<1>1. UNCHANGED <<row, copy, asked, byHand, starting, cancelCopy>>
  BY DEF Reap, PickReady, Submit, handlers, history, workers
<1>2. \A q \in Runs : stage'[q] \in {"finish", "period", "store"} => stage'[q] = stage[q]
  BY DEF Reap, PickReady, Submit, workers, Inv, TypeOK
<1>3. \A q \in Runs : q \notin byHand' => starting'[q] = "none"
  BY <1>1 DEF Kept, HandsOff
<1> QED
  BY <1>1, <1>2, <1>3, QuietKept

LEMMA EndingKept ==
    ASSUME RunsAssumption, Inv, Kept, (\E r \in Runs : Kill(r)) \/ Restart \/ UNCHANGED vars
    PROVE  Kept'
<1>1. UNCHANGED <<row, copy, asked, byHand>>
  BY DEF Kill, Restart, handlers, history, vars
<1>2. \A q \in Runs : stage'[q] \in {"finish", "period", "store"} => stage'[q] = stage[q]
  BY DEF Kill, Restart, vars, Inv, TypeOK, Live
<1>3. \A q \in Runs : q \notin byHand' => starting'[q] = "none"
  BY <1>1 DEF Kill, Restart, vars, handlers, Kept, HandsOff
<1>4. \A q \in Runs : cancelCopy'[q] \subseteq cancelCopy[q]
  BY DEF Kill, Restart, vars, handlers
<1> QED
  BY <1>1, <1>2, <1>3, <1>4, QuietKept

\* The steps of a worker that write no row.
LEMMA ReaderKept ==
    ASSUME Inv, Kept, NEW r \in Runs,
           \/ Begin(r) \/ Check(r) \/ EngineFails(r) \/ ReadFinish(r) \/ ReadPeriod(r)
           \/ SetBadge(r)
    PROVE  Kept'
<1>1. UNCHANGED <<row, asked, byHand, starting, cancelCopy>>
  BY DEF Begin, Check, EngineFails, ReadFinish, ReadPeriod, SetBadge, handlers, history
<1>2. HandsOff' /\ Asked' /\ CancelSeen'
  BY <1>1 DEF Kept, HandsOff, Asked, CancelSeen
<1>3. \A q \in Runs : q # r => stage'[q] = stage[q] /\ copy'[q] = copy[q]
  BY DEF Begin, Check, EngineFails, ReadFinish, ReadPeriod, SetBadge, At, ReadRow, Inv, TypeOK
<1>4. stage'[r] = "finish" => copy'[r] = row[r]
  BY DEF Begin, Check, EngineFails, ReadFinish, ReadPeriod, SetBadge, At, ReadRow, Inv, TypeOK
<1>5. stage'[r] # "period"
  BY DEF Begin, Check, EngineFails, ReadFinish, ReadPeriod, SetBadge, At, Inv, TypeOK
<1>6. stage'[r] = "store" => stage[r] = "period" /\ copy'[r].doc.status = row[r].status
  <2>1. CASE ReadPeriod(r)
    <3>1. row[r] \in Rows
      BY DEF Inv, TypeOK
    <3>2. copy'[r] = [row[r] EXCEPT !.doc.status = row[r].status, !.doc.cancel = row[r].cancel]
      BY <2>1 DEF ReadPeriod, Inv, TypeOK
    <3>3. copy'[r].doc.status = row[r].status
      BY <3>1, <3>2 DEF Rows, Docs
    <3> QED
      BY <2>1, <3>3 DEF ReadPeriod, At
  <2>2. CASE ~ReadPeriod(r)
    <3>1. stage'[r] # "store"
      BY <2>2 DEF Begin, Check, EngineFails, ReadFinish, SetBadge, At, Inv, TypeOK
    <3> QED
      BY <3>1
  <2> QED
    BY <2>1, <2>2
<1>7. Closing'
  BY <1>1, <1>3, <1>4, <1>5, <1>6 DEF Kept, Closing
<1> QED
  BY <1>2, <1>7 DEF Kept

\* The steps that write the row of run r.
LEMMA LoudKept ==
    ASSUME Inv, Kept, NEW r \in Runs,
           \A q \in Runs : q # r => row'[q] = row[q] /\ stage'[q] = stage[q],
           UNCHANGED <<byHand, copy>>,
           \A q \in Runs : q \notin byHand => starting'[q] = "none",
           r \notin byHand => Forward(r),
           \A q \in Runs : cancelCopy'[q] \subseteq cancelCopy[q],
           \A q \in Runs : q # r => (q \in asked' => q \in asked),
           r \in asked' /\ r \notin byHand =>
             r \in asked \/ row'[r].status \in Terminal \/ row'[r].cancel,
           stage'[r] \in {"finish", "store"} => stage'[r] = stage[r],
           r \notin byHand /\ stage'[r] = "period" =>
             stage'[r] = stage[r] \/ row'[r].status \in Terminal
    PROVE  Kept'
<1>1. HandsOff'
  BY DEF HandsOff
<1>2. Closing'
  BY DEF Kept, Closing, Forward
<1>3. CancelSeen'
  BY DEF Kept, CancelSeen, Forward
<1>4. Asked'
  BY DEF Kept, Asked, Forward
<1> QED
  BY <1>1, <1>2, <1>3, <1>4 DEF Kept

LEMMA WriteStartKept ==
    ASSUME RunsAssumption, Inv, Kept, NEW r \in Runs, WriteStart(r) PROVE Kept'
<1> DEFINE new == Synced(Begun(startCopy[r].doc))
<1>1. startCopy[r] \in Rows /\ startCopy[r].doc \in Docs
  BY DEF Inv, TypeOK, Rows
<1>2. new \in Rows
  BY <1>1, SyncedRow, BegunDoc
<1>3. WriteBack(r, startCopy[r], new)
  BY DEF WriteStart
<1> HIDE DEF new
<1>4. \A q \in Runs : q # r => row'[q] = row[q]
  BY <1>1, <1>2, <1>3, WrittenBack DEF Inv
<1>5. r \in byHand
  BY DEF WriteStart, Kept, HandsOff
<1>6. \A q \in Runs : q \notin byHand => starting'[q] = "none"
  BY <1>5 DEF WriteStart, Kept, HandsOff, Inv, TypeOK
<1>7. UNCHANGED <<stage, copy, cancelCopy, byHand, asked>>
  BY DEF WriteStart, workers, history
<1> QED
  BY <1>4, <1>5, <1>6, <1>7, LoudKept

LEMMA WriteCancelKept ==
    ASSUME RunsAssumption, Inv, Kept, NEW r \in Runs, WriteCancel(r) PROVE Kept'
<1>1. PICK loaded \in cancelCopy[r] :
        LET told == [loaded.doc EXCEPT !.cancel = TRUE]
            new == IF loaded.status = "queued"
                     THEN Synced([told EXCEPT !.status = "cancelled"])
                     ELSE [status |-> loaded.status, cancel |-> TRUE, doc |-> told]
        IN /\ WriteBack(r, loaded, new)
           /\ cancelCopy' = [cancelCopy EXCEPT ![r] = @ \ {loaded}]
           /\ asked' = IF row[r].status \in Terminal THEN asked ELSE asked \cup {r}
           /\ UNCHANGED <<badge, starting, startCopy, coordinator, workers, byHand, count>>
  BY DEF WriteCancel
<1> DEFINE told == [loaded.doc EXCEPT !.cancel = TRUE]
<1> DEFINE ended == [told EXCEPT !.status = "cancelled"]
<1> DEFINE new == IF loaded.status = "queued" THEN Synced(ended)
                  ELSE [status |-> loaded.status, cancel |-> TRUE, doc |-> told]
<1>2. loaded \in Rows /\ loaded.doc \in Docs /\ loaded.status \in Statuses
  BY <1>1 DEF Inv, TypeOK, Rows
<1>3. told \in Docs /\ ended \in Docs /\ ended.status = "cancelled" /\ ended.cancel
  BY <1>2 DEF Docs, Statuses, Terminal
<1>4. WriteBack(r, loaded, new)
  BY <1>1
<1>5. /\ new \in Rows /\ new.cancel = TRUE
      /\ new.status = IF loaded.status = "queued" THEN "cancelled" ELSE loaded.status
  <2>1. CASE loaded.status = "queued"
    BY <1>3, <2>1, SyncedCancel
  <2>2. CASE loaded.status # "queued"
    BY <1>2, <1>3, <2>2 DEF Rows
  <2> QED
    BY <2>1, <2>2
<1> HIDE DEF new
<1>6. /\ \A q \in Runs : q # r => row'[q] = row[q]
      /\ row'[r].status = Flush(row[r].status, loaded.status, new.status)
      /\ row'[r].cancel = Flush(row[r].cancel, loaded.cancel, new.cancel)
  BY <1>2, <1>4, <1>5, FlushedRow DEF Inv
<1>7. row'[r].status = row[r].status \/ row'[r].status \in Terminal
  BY <1>5, <1>6 DEF Flush, Terminal
<1>8. row'[r].cancel = row[r].cancel \/ row'[r].cancel = TRUE
  BY <1>5, <1>6 DEF Flush
<1>9. ~loaded.cancel => row'[r].cancel = TRUE
  BY <1>5, <1>6 DEF Flush
<1>10. Forward(r)
  BY <1>7, <1>8 DEF Forward
<1>11. r \notin byHand => row'[r].status \in Terminal \/ row'[r].cancel
  <2>1. CASE loaded.cancel
    BY <1>7, <1>8, <2>1 DEF Kept, CancelSeen
  <2>2. CASE ~loaded.cancel
    BY <1>9, <2>2
  <2> QED
    BY <2>1, <2>2
<1>12. \A q \in Runs : q \notin byHand => starting'[q] = "none"
  BY <1>1 DEF Kept, HandsOff
<1>13. UNCHANGED <<stage, copy, byHand>>
  BY <1>1 DEF workers
<1>14. \A q \in Runs : cancelCopy'[q] \subseteq cancelCopy[q]
  BY <1>1 DEF Inv, TypeOK
<1>15. asked' \subseteq asked \cup {r}
  BY <1>1
<1> QED
  BY <1>6, <1>10, <1>11, <1>12, <1>13, <1>14, <1>15, LoudKept

LEMMA ClaimKept ==
    ASSUME RunsAssumption, Inv, Kept, NEW r \in Runs, Claim(r) PROVE Kept'
<1> DEFINE new == Synced(Begun(row[r].doc))
<1>1. row[r] \in Rows /\ row[r].doc \in Docs
  BY DEF Inv, TypeOK, Rows
<1>2. new \in Rows
  BY <1>1, SyncedRow, BegunDoc
<1>3. WriteBack(r, row[r], new) /\ row[r].status = "queued" /\ ~row[r].cancel
  BY DEF Claim
<1> HIDE DEF new
<1>4. \A q \in Runs : q # r => row'[q] = row[q]
  BY <1>1, <1>2, <1>3, WrittenBack DEF Inv
<1>5. Forward(r)
  BY <1>3 DEF Forward, Terminal
<1>6. UNCHANGED <<stage, copy, byHand, asked, starting, cancelCopy>>
  BY DEF Claim, handlers, workers, history
<1>7. \A q \in Runs : q \notin byHand => starting'[q] = "none"
  BY <1>6 DEF Kept, HandsOff
<1> QED
  BY <1>4, <1>5, <1>6, <1>7, LoudKept

LEMMA ProgressKept ==
    ASSUME RunsAssumption, Inv, Kept, NEW r \in Runs, Progress(r) PROVE Kept'
<1>1. PICK from \in {"progress", "last"}, to \in {"bars", "ending"} : At(r, from, to)
  BY DEF Progress
<1>2. /\ row'[r].status = row[r].status /\ row'[r].cancel = row[r].cancel
      /\ \A q \in Runs : q # r => row'[q] = row[q]
  BY DEF Progress, Inv, TypeOK, Rows
<1>3. /\ \A q \in Runs : q # r => stage'[q] = stage[q]
      /\ stage'[r] \in {"bars", "ending"}
  BY <1>1 DEF At, Inv, TypeOK
<1>4. Forward(r)
  BY <1>2 DEF Forward
<1>5. UNCHANGED <<copy, byHand, asked, starting, cancelCopy>>
  BY DEF Progress, handlers, history
<1>6. \A q \in Runs : q \notin byHand => starting'[q] = "none"
  BY <1>5 DEF Kept, HandsOff
<1> QED
  BY <1>2, <1>3, <1>4, <1>5, <1>6, LoudKept

LEMMA WriteFinishKept ==
    ASSUME RunsAssumption, Inv, Kept, NEW r \in Runs, WriteFinish(r) PROVE Kept'
<1> DEFINE doc == [copy[r].doc EXCEPT !.status = outcome[r],
                                      !.results = outcome[r] # "failed" \/ @]
<1> DEFINE new == Synced(doc)
<1>1. copy[r] \in Rows /\ copy[r].doc \in Docs /\ outcome[r] \in Terminal
  BY DEF Inv, TypeOK, Rows
<1>2. doc \in Docs /\ doc.status = outcome[r]
  BY <1>1 DEF Docs, Statuses
<1>3. new \in Rows /\ new.status = outcome[r]
  BY <1>2, SyncedRow
<1>4. WriteBack(r, copy[r], new) /\ stage[r] = "finish"
  BY DEF WriteFinish
<1> HIDE DEF new
<1>5. /\ \A q \in Runs : q # r => row'[q] = row[q]
      /\ row'[r].status = Flush(row[r].status, copy[r].status, new.status)
  BY <1>1, <1>3, <1>4, FlushedRow DEF Inv
<1>6. r \notin byHand => row'[r].status \in Terminal
  BY <1>1, <1>3, <1>4, <1>5 DEF Flush, Kept, Closing
<1>7. /\ \A q \in Runs : q # r => stage'[q] = stage[q]
      /\ stage'[r] \in {"period", "badge"}
  BY DEF WriteFinish, Inv, TypeOK
<1>8. /\ UNCHANGED <<copy, byHand, starting, cancelCopy>>
      /\ asked' \subseteq asked
  BY DEF WriteFinish, handlers
<1>9. \A q \in Runs : q \notin byHand => starting'[q] = "none"
  BY <1>8 DEF Kept, HandsOff
<1> QED
  BY <1>5, <1>6, <1>7, <1>8, <1>9, LoudKept DEF Forward

LEMMA WritePeriodKept ==
    ASSUME RunsAssumption, Inv, Kept, NEW r \in Runs, WritePeriod(r) PROVE Kept'
<1>1. stage[r] = "store" /\ copy[r].doc \in Docs
  BY DEF WritePeriod, At, Inv, TypeOK, Rows
<1>2. row'[r] = Synced(copy[r].doc) /\ \A q \in Runs : q # r => row'[q] = row[q]
  BY DEF WritePeriod, Inv, TypeOK
<1>3. r \notin byHand => row'[r].status \in Terminal
  BY <1>1, <1>2, SyncedRow DEF Kept, Closing
<1>4. /\ \A q \in Runs : q # r => stage'[q] = stage[q]
      /\ stage'[r] = "badge"
  BY DEF WritePeriod, At, Inv, TypeOK
<1>5. UNCHANGED <<copy, byHand, asked, starting, cancelCopy>>
  BY DEF WritePeriod, handlers, history
<1>6. \A q \in Runs : q \notin byHand => starting'[q] = "none"
  BY <1>5 DEF Kept, HandsOff
<1> QED
  BY <1>2, <1>3, <1>4, <1>5, <1>6, LoudKept DEF Forward

LEMMA NextKept == ASSUME RunsAssumption, Inv, Kept, [Next]_vars PROVE Kept'
<1>1. ASSUME NEW r \in Runs, AskStart(r) \/ ReadCancel(r) \/ Handler(r) PROVE Kept'
  BY <1>1, ApiKept, WriteStartKept, WriteCancelKept DEF Handler
<1>2. ASSUME NEW r \in Runs, Coordinate(r) PROVE Kept'
  BY <1>2, CoordinatorKept, ClaimKept DEF Coordinate
<1>3. ASSUME NEW r \in Runs, Work(r) \/ EngineFails(r) PROVE Kept'
  BY <1>3, ReaderKept, ProgressKept, WriteFinishKept, WritePeriodKept DEF Work
<1> QED
  BY <1>1, <1>2, <1>3, EndingKept DEF Next

-----------------------------------------------------------------------------
(* The badge.                                                               *)

LEMMA LitKept ==
    ASSUME Lit, byHand \subseteq byHand',
           count'.kills + count'.restarts = 0 =>
             /\ count.kills + count.restarts = 0
             /\ pool' = pool
             /\ \A r \in Runs : r \notin byHand' /\ stage'[r] \notin Live /\ claimed' # r =>
                  \/ badge'[r] # "running"
                  \/ badge'[r] = badge[r] /\ stage[r] \notin Live /\ claimed # r
    PROVE  Lit'
BY DEF Lit

LEMMA NextLit == ASSUME RunsAssumption, Inv, Kept, Lit, [Next]_vars PROVE Lit'
<1> USE DEF Inv
<1>1. count.kills \in Nat /\ count.restarts \in Nat
  BY DEF TypeOK, Counts, RunsAssumption
<1>2. ASSUME NEW r \in Runs, AskStart(r) \/ ReadStart(r) \/ WriteStart(r)
                              \/ ReadCancel(r) \/ WriteCancel(r)
      PROVE  Lit'
  <2>1. UNCHANGED <<badge, stage, claimed, pool>> /\ byHand \subseteq byHand'
    BY <1>2 DEF AskStart, ReadStart, WriteStart, ReadCancel, WriteCancel, coordinator, workers,
       history
  <2>2. count'.kills = count.kills /\ count'.restarts = count.restarts
    BY <1>2 DEF AskStart, ReadStart, WriteStart, ReadCancel, WriteCancel, TypeOK, Counts
  <2> QED
    BY <2>1, <2>2, LitKept
<1>3. ASSUME NEW r \in Runs, Notify(r) PROVE Lit'
  <2>1. r \in byHand
    BY <1>3 DEF Notify, Kept, HandsOff
  <2>2. \A q \in Runs : q # r => badge'[q] = badge[q]
    BY <1>3 DEF Notify, TypeOK
  <2>3. UNCHANGED <<stage, claimed, pool, byHand, count>>
    BY <1>3 DEF Notify, workers, history
  <2> QED
    BY <2>1, <2>2, <2>3, LitKept
<1>4. ASSUME NEW r \in Runs, Reap(r) PROVE Lit'
  <2>1. \A q \in Runs : q # r => stage'[q] = stage[q]
    BY <1>4 DEF Reap, TypeOK
  <2>2. stage[r] \notin Live /\ UNCHANGED <<badge, claimed, pool, byHand, count>>
    BY <1>4 DEF Reap, Live, history
  <2> QED
    BY <2>1, <2>2, LitKept
<1>5. ASSUME NEW r \in Runs, PickReady(r) \/ Claim(r) PROVE Lit'
  <2>1. claimed = NoRun /\ UNCHANGED <<badge, stage, pool, byHand, count>>
    BY <1>5 DEF PickReady, Claim, SlotFree, workers, history
  <2>2. \A q \in Runs : claimed # q
    BY <2>1 DEF RunsAssumption
  <2> QED
    BY <2>1, <2>2, LitKept
<1>6. ASSUME NEW r \in Runs, Submit(r) PROVE Lit'
  <2>1. UNCHANGED <<pool, byHand, count>> /\ r \notin inflight /\ claimed = r
    BY <1>6 DEF Submit, NotTwice, history
  <2>2. \A q \in Runs : q # r => badge'[q] = badge[q] /\ stage'[q] = stage[q]
    BY <1>6 DEF Submit, TypeOK
  <2>3. count.kills + count.restarts = 0 => stage'[r] \in Live
    BY <1>6, <2>1 DEF Submit, Lit, TypeOK, Live
  <2> QED
    BY <2>1, <2>2, <2>3, LitKept
<1>7. ASSUME NEW r \in Runs,
             \/ Begin(r) \/ Check(r) \/ Progress(r) \/ ReadFinish(r) \/ WriteFinish(r)
             \/ ReadPeriod(r) \/ WritePeriod(r) \/ EngineFails(r)
      PROVE  Lit'
  <2>1. UNCHANGED <<badge, claimed, pool, byHand>>
    BY <1>7 DEF Begin, Check, Progress, ReadFinish, WriteFinish, ReadPeriod, WritePeriod,
       EngineFails, coordinator, history
  <2>2. count'.kills = count.kills /\ count'.restarts = count.restarts
    BY <1>7 DEF Begin, Check, Progress, ReadFinish, WriteFinish, ReadPeriod, WritePeriod,
       EngineFails, TypeOK, Counts
  <2>3. \A q \in Runs : q # r => stage'[q] = stage[q]
    BY <1>7 DEF Begin, Check, Progress, ReadFinish, WriteFinish, ReadPeriod, WritePeriod,
       EngineFails, At, TypeOK
  <2>4. stage'[r] \in Live
    BY <1>7 DEF Begin, Check, Progress, ReadFinish, WriteFinish, ReadPeriod, WritePeriod,
       EngineFails, At, TypeOK, Live
  <2> QED
    BY <2>1, <2>2, <2>3, <2>4, LitKept
<1>8. ASSUME NEW r \in Runs, SetBadge(r) PROVE Lit'
  <2>1. /\ UNCHANGED <<claimed, pool, byHand, count>> /\ badge'[r] = "ended"
        /\ \A q \in Runs : q # r => stage'[q] = stage[q] /\ badge'[q] = badge[q]
    BY <1>8 DEF SetBadge, At, TypeOK, coordinator, history
  <2> QED
    BY <2>1, LitKept
<1>9. ASSUME NEW r \in Runs, Kill(r) PROVE Lit'
  <2>1. count'.kills = count.kills + 1 /\ count'.restarts = count.restarts
    BY <1>9 DEF Kill, TypeOK, Counts
  <2> QED
    BY <1>1, <2>1 DEF Lit
<1>10. CASE Restart
  <2>1. count'.restarts = count.restarts + 1 /\ count'.kills = count.kills
    BY <1>10 DEF Restart, TypeOK, Counts
  <2> QED
    BY <1>1, <2>1 DEF Lit
<1>11. CASE UNCHANGED vars
  BY <1>11 DEF vars, Lit
<1> QED
  BY <1>2, <1>3, <1>4, <1>5, <1>6, <1>7, <1>8, <1>9, <1>10, <1>11
  DEF Next, Handler, Coordinate, Work

\* A cancellation that was written is kept, and the badge of a run that ended does
\* not stay at "running", whichever stale copy is written last.
THEOREM EndsAreSettled == Spec => []Settled
<1>1. Init => Kept /\ Lit
  BY InitKept, RunsAssumption
<1>2. Inv /\ Kept /\ Lit /\ [Next]_vars => (Kept /\ Lit)'
  BY NextKept, NextLit, RunsAssumption
<1>3. TypeOK /\ Kept /\ Lit => Settled
  BY DEF Kept, Asked, Lit, Settled, CancelKept, BadgeSettled, TypeOK
<1>4. Inv => TypeOK
  BY DEF Inv
<1> QED
  BY <1>1, <1>2, <1>3, <1>4, Always, PTL DEF Spec
=============================================================================
