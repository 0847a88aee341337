-------------------------- MODULE TaskRunner_proof --------------------------
(***************************************************************************)
(* Proofs about TaskRunner, for any processes, tasks and kinds: the state  *)
(* is well typed, the active record belongs to a worker that still runs or *)
(* can be told to be orphaned, and no running worker is taken for dead.    *)
(* While no file was torn, tasks that all exclude each other are worked on *)
(* one at a time, are cancelled only on request and leave true records.    *)
(***************************************************************************)
EXTENDS TaskRunner, TLAPS

\* The active record's worker is the _local_task of its process.
Held == active.id \in Tasks /\ worker[active.id] \in Live =>
          local[owner[active.id]] = active.id /\ active.id \notin gone

\* Only a task that was started is known to anybody, and one whose process died
\* has ended.
Started == /\ \A t \in thrown : worker[t] # "none"
           /\ \A t \in gone : worker[t] = "ended"
           /\ \A p \in Procs : /\ busy[p] # NoTask => worker[busy[p]] # "none"
                               /\ local[p] # NoTask => worker[local[p]] # "none"

\* The active record shows the cancellation that its process is in the middle
\* of, and the one that has been thrown into its worker.
Shown == /\ active.id \in thrown => active.cancel
         /\ \A p \in Procs : active.id # NoTask /\ busy[p] = active.id => active.cancel

Inv == TypeOK /\ ActiveHonest /\ Held /\ Started /\ Shown

LEMMA InitInv == ASSUME TaskAssumption, Init PROVE Inv
BY DEF TaskAssumption, Init, NoActive, Inv, TypeOK, ActiveHonest, Held, Started, Shown,
   Workers, Hows, Statuses, Bounded, Live

\* Finalizing leaves no active record.
LEMMA Finalized ==
    ASSUME TaskAssumption, TypeOK, NEW p \in Procs,
           NEW status \in Statuses, Finalize(p, status)
    PROVE  /\ active'.id = NoTask
           /\ active' \in [id : Tasks \cup {NoTask}, cancel : BOOLEAN, old : BOOLEAN]
           /\ verdict' \in [Tasks -> Statuses \cup {"none"}]
           /\ tokens' \in [Procs -> SUBSET Tasks]
<1>1. CASE active.id = NoTask
  BY <1>1 DEF Finalize, TypeOK, file
<1>2. CASE active.id # NoTask
  <2>1. active' = NoActive /\ active.id \in Tasks
    BY <1>2 DEF Finalize, TypeOK
  <2>2. verdict' \in [Tasks -> Statuses \cup {"none"}] /\ tokens' \in [Procs -> SUBSET Tasks]
    BY <1>2, <2>1 DEF Finalize, TypeOK
  <2>3. /\ NoActive.id = NoTask
        /\ NoActive \in [id : Tasks \cup {NoTask}, cancel : BOOLEAN, old : BOOLEAN]
    BY DEF NoActive
  <2> QED
    BY <2>1, <2>2, <2>3
<1> QED
  BY <1>1, <1>2

\* What a step keeps of the asyncio tasks: a task that was started stays so, one
\* that ended stays so, and no process takes one up.
Lasting ==
    /\ \A u \in Tasks : worker[u] # "none" => worker'[u] # "none"
    /\ \A u \in Tasks : worker[u] = "ended" => worker'[u] = "ended"
    /\ \A p \in Procs : local'[p] # NoTask => local'[p] = local[p]

\* An asyncio task that ends.
LEMMA Ended ==
    ASSUME TypeOK, NEW t \in Tasks, NEW why \in Hows, Ends(t, why)
    PROVE  /\ worker' \in [Tasks -> Workers] /\ how' \in [Tasks -> Hows]
           /\ local' \in [Procs -> Tasks \cup {NoTask}]
           /\ \A u \in Tasks : worker[u] # "none" => worker'[u] # "none"
           /\ \A u \in Tasks : worker[u] = "ended" => worker'[u] = "ended"
           /\ \A p \in Procs : local'[p] # NoTask => local'[p] = local[p]
BY DEF Ends, TypeOK, Workers, Lasting

\* Without an active record there is nothing to lie about.
LEMMA NothingActive ==
    ASSUME TaskAssumption, active'.id = NoTask
    PROVE  ActiveHonest' /\ Held' /\ (NoTask \notin thrown' => Shown')
BY DEF TaskAssumption, ActiveHonest, Held, Shown

\* The steps at whose end no record is active.
LEMMA RaisedInv ==
    ASSUME TaskAssumption, Inv, NEW t \in Tasks, Raised(t)
    PROVE  Inv'
<1>1. owner[t] \in Procs /\ "cancelled" \in Statuses /\ "cancelled" \in Hows
  BY DEF Inv, TypeOK, Statuses, Hows
<1>2. TypeOK' /\ active'.id = NoTask
  BY <1>1, Finalized, Ended DEF Raised, Inv, TypeOK
<1>3. Lasting
  BY DEF Raised, Ends, Lasting, Inv, TypeOK
<1>5. Started'
  BY <1>3 DEF Lasting, Raised, Inv, Started, TypeOK
<1>4. NoTask \notin thrown'
  BY DEF TaskAssumption, Raised, Inv, TypeOK
<1> QED
  BY <1>2, <1>5, <1>4, NothingActive DEF Inv

LEMMA FinishInv ==
    ASSUME TaskAssumption, Inv, NEW t \in Tasks, Finish(t)
    PROVE  Inv'
<1>1. PICK status \in Statuses \ {"cancelled"} :
         /\ Finalize(owner[t], status)
         /\ \/ Ends(t, status)
            \/ /\ worker' = [worker EXCEPT ![t] = "reporting"]
               /\ how' = [how EXCEPT ![t] = status]
               /\ UNCHANGED local
  BY DEF Finish
<1>2. owner[t] \in Procs /\ status \in Hows
  BY DEF Inv, TypeOK, Hows
<1>3. /\ worker' \in [Tasks -> Workers] /\ how' \in [Tasks -> Hows]
      /\ local' \in [Procs -> Tasks \cup {NoTask}]
      /\ Lasting
  <2>1. CASE Ends(t, status)
    BY <1>2, <2>1 DEF Ends, Lasting, Inv, TypeOK, Workers
  <2>2. CASE /\ worker' = [worker EXCEPT ![t] = "reporting"]
             /\ how' = [how EXCEPT ![t] = status]
             /\ UNCHANGED local
    <3>1. worker[t] = "running"
      BY DEF Finish, Steps
    <3> QED
      BY <1>2, <2>2, <3>1 DEF Inv, TypeOK, Workers, Lasting
  <2> QED
    BY <1>1, <2>1, <2>2
<1>4. TypeOK' /\ active'.id = NoTask
  BY <1>1, <1>2, <1>3, Finalized DEF Finish, Inv, TypeOK
<1>5. Started'
  BY <1>3 DEF Lasting, Finish, Inv, Started, TypeOK
<1>6. NoTask \notin thrown'
  BY DEF TaskAssumption, Finish, Inv, TypeOK
<1> QED
  BY <1>4, <1>5, <1>6, NothingActive DEF Inv

LEMMA ClearInv ==
    ASSUME TaskAssumption, Inv, NEW p \in Procs, Reconcile(p) \/ Restart(p)
    PROVE  Inv'
<1>1. ASSUME Clear(p) PROVE /\ active'.id = NoTask
                            /\ active' \in [id : Tasks \cup {NoTask}, cancel : BOOLEAN, old : BOOLEAN]
                            /\ verdict' \in [Tasks -> Statuses \cup {"none"}]
                            /\ tokens' \in [Procs -> SUBSET Tasks]
  BY <1>1, Finalized DEF Clear, Inv, Statuses
<1>2. up' \in [Procs -> BOOLEAN] /\ UNCHANGED <<jobs, local, events, busy, asked, count>>
  BY DEF Reconcile, Restart, Inv, TypeOK
<1>3. CASE Clear(p)
  <2>1. TypeOK' /\ Started'
    BY <1>1, <1>2, <1>3 DEF Inv, TypeOK, Started, jobs
  <2>2. NoTask \notin thrown'
    BY <1>2 DEF TaskAssumption, Inv, TypeOK, jobs
  <2> QED
    BY <1>1, <1>3, <2>1, <2>2, NothingActive DEF Inv
<1>4. CASE UNCHANGED <<file, tokens>>
  BY <1>2, <1>4 DEF Inv, TypeOK, ActiveHonest, Held, Started, Shown, jobs, file
<1> QED
  BY <1>3, <1>4 DEF Reconcile, Restart

LEMMA DiesInv ==
    ASSUME TaskAssumption, Inv, NEW p \in Procs, Crash(p) \/ CrashWriting(p)
    PROVE  Inv'
<1>1. PICK torn \in {0, 1} : Dies(p, torn)
  BY DEF Crash, CrashWriting
<1>2. /\ worker' \in [Tasks -> Workers] /\ how' \in [Tasks -> Hows]
      /\ gone' \in SUBSET Tasks /\ count' \in [Bounded -> Nat]
  BY <1>1 DEF Dies, Counted, Bounded, Inv, TypeOK, Workers, Hows
<1>3. /\ local' \in [Procs -> Tasks \cup {NoTask}] /\ busy' \in [Procs -> Tasks \cup {NoTask}]
      /\ tokens' \in [Procs -> SUBSET Tasks] /\ events' \in [Procs -> SUBSET Tasks]
      /\ up' \in [Procs -> BOOLEAN]
  BY <1>1 DEF Dies, Inv, TypeOK
<1>4. Started'
  BY <1>1 DEF Dies, Inv, TypeOK, Started, TaskAssumption
<1>5. CASE Crash(p)
  <2>1. TypeOK' /\ active' = active
    BY <1>1, <1>2, <1>3, <1>5 DEF Crash, Dies, Inv, TypeOK, file
  <2>2. ActiveHonest'
    BY <1>1, <2>1 DEF Dies, Inv, TypeOK, ActiveHonest, Live
  <2>3. Held'
    BY <1>1, <2>1 DEF Dies, Inv, TypeOK, Held, Live
  <2>4. Shown'
    BY <1>1, <2>1 DEF Dies, Inv, TypeOK, Shown
  <2> QED
    BY <1>4, <2>1, <2>2, <2>3, <2>4 DEF Inv
<1>6. CASE CrashWriting(p)
  <2>1. TypeOK' /\ active'.id = NoTask
    BY <1>1, <1>2, <1>3, <1>6 DEF CrashWriting, Dies, NoActive, Inv, TypeOK
  <2>2. NoTask \notin thrown'
    BY <1>1 DEF TaskAssumption, Dies, Inv, TypeOK
  <2> QED
    BY <1>4, <2>1, <2>2, NothingActive DEF Inv
<1> QED
  BY <1>5, <1>6

LEMMA StartInv ==
    ASSUME TaskAssumption, Inv, NEW t \in Tasks, Start(t)
    PROVE  Inv'
<1> USE DEF Start, Inv
<1>1. TypeOK'
  BY DEF TypeOK, Workers
<1>2. active'.id = t /\ worker'[t] = "created" /\ local'[owner[t]] = t /\ owner' = owner
        /\ t \notin gone /\ t \notin thrown
  BY DEF TypeOK, Started
<1>3. ActiveHonest' /\ Held'
  BY <1>2 DEF ActiveHonest, Held, Live
<1>4. Started'
  BY DEF TypeOK, Started
<1>5. Shown'
  BY <1>2 DEF TypeOK, Started, Shown, TaskAssumption
<1> QED
  BY <1>1, <1>3, <1>4, <1>5

LEMMA BeginInv ==
    ASSUME TaskAssumption, Inv, NEW t \in Tasks, Begin(t) \/ Return(t)
    PROVE  Inv'
<1>1. \/ Ends(t, "cancelled") /\ worker[t] = "created" /\ t \in thrown
      \/ Ends(t, how[t]) /\ worker[t] = "reporting"
      \/ /\ worker[t] = "created" /\ worker' = [worker EXCEPT ![t] = "running"]
         /\ UNCHANGED <<how, local>>
  BY DEF Begin, Return, Steps
<1>2. /\ "cancelled" \in Hows /\ how[t] \in Hows
      /\ UNCHANGED <<file, kind, owner, thrown, gone, tokens, events, busy, asked, up, count>>
  BY DEF Begin, Return, Inv, TypeOK, Hows, Statuses
<1>3. /\ worker' \in [Tasks -> Workers] /\ how' \in [Tasks -> Hows]
      /\ local' \in [Procs -> Tasks \cup {NoTask}]
      /\ Lasting
  <2>1. CASE Ends(t, "cancelled")
    BY <1>2, <2>1 DEF Ends, Lasting, Inv, TypeOK, Workers
  <2>2. CASE Ends(t, how[t])
    BY <1>2, <2>2 DEF Ends, Lasting, Inv, TypeOK, Workers
  <2>3. CASE /\ worker[t] = "created" /\ worker' = [worker EXCEPT ![t] = "running"]
             /\ UNCHANGED <<how, local>>
    BY <1>2, <2>3 DEF Inv, TypeOK, Workers, Lasting
  <2> QED
    BY <1>1, <2>1, <2>2, <2>3
<1>4. TypeOK'
  BY <1>2, <1>3 DEF Inv, TypeOK, file
<1>5. Started' /\ Shown'
  BY <1>2, <1>3 DEF Lasting, Inv, TypeOK, Started, Shown, file
<1>6. active' = active /\ \A u \in Tasks : u # t => worker'[u] = worker[u]
  BY <1>1, <1>2 DEF Ends, Inv, TypeOK, file
<1>7. CASE active.id # t
  <2>1. \A p \in Procs : local[p] # t => local'[p] = local[p]
    BY <1>1 DEF Ends, Inv, TypeOK
  <2>2. ActiveHonest' /\ Held'
    BY <1>2, <1>6, <1>7, <2>1 DEF Inv, TypeOK, ActiveHonest, Held, Live, TaskAssumption
  <2> QED
    BY <1>4, <1>5, <2>2 DEF Inv
<1>8. CASE active.id = t
  <2>1. worker[t] # "reporting"
    BY <1>8 DEF Inv, ActiveHonest, Live, Started, TypeOK, TaskAssumption
  <2>2. \/ worker'[t] = "ended" /\ active.cancel
        \/ worker'[t] = "running" /\ UNCHANGED local
    BY <1>1, <1>8, <2>1 DEF Ends, Inv, TypeOK, Shown
  <2>3. ActiveHonest'
    BY <1>6, <1>8, <2>2 DEF ActiveHonest, Live
  <2>4. Held'
    BY <1>1, <1>2, <1>6, <1>8, <2>1, <2>2 DEF Inv, Held, Live
  <2> QED
    BY <1>4, <1>5, <2>3, <2>4 DEF Inv
<1> QED
  BY <1>7, <1>8

LEMMA CancelInv ==
    ASSUME TaskAssumption, Inv, NEW p \in Procs, CancelRecord(p) \/ CancelLocal(p) \/ GrowsOld
    PROVE  Inv'
<1>1. CASE CancelRecord(p)
  <2>1. TypeOK'
    <3>1. active.id \in Tasks /\ active' \in [id : Tasks \cup {NoTask}, cancel : BOOLEAN, old : BOOLEAN]
      BY <1>1 DEF CancelRecord, Inv, TypeOK
    <3>2. busy' \in [Procs -> Tasks \cup {NoTask}] /\ asked' \subseteq Tasks
      BY <1>1, <3>1 DEF CancelRecord, Inv, TypeOK
    <3>3. count' \in [Bounded -> Nat]
      BY <1>1 DEF CancelRecord, Counted, Bounded, Inv, TypeOK
    <3> QED
      BY <1>1, <3>1, <3>2, <3>3 DEF CancelRecord, Inv, TypeOK, jobs
  <2>2. active'.id = active.id /\ active'.cancel /\ worker[active.id] # "none"
    BY <1>1 DEF CancelRecord, Inv, TypeOK, ActiveHonest, Live, Started
  <2> QED
    BY <1>1, <2>1, <2>2
       DEF CancelRecord, Inv, TypeOK, ActiveHonest, Held, Started, Shown, jobs
<1>2. CASE GrowsOld
  BY <1>2 DEF GrowsOld, Inv, TypeOK, ActiveHonest, Held, Started, Shown, jobs, procs
<1>3. CASE CancelLocal(p)
  <2>1. /\ busy' \in [Procs -> Tasks \cup {NoTask}] /\ busy[p] \in Tasks
        /\ events' \in [Procs -> SUBSET Tasks] /\ tokens' \in [Procs -> SUBSET Tasks]
    BY <1>3 DEF CancelLocal, Inv, TypeOK
  <2>2. CASE local[p] # NoTask /\ Orphaned(p)
    <3>1. TypeOK' /\ active'.id = NoTask
      <4>1. active.id \in Tasks /\ active' = NoActive
        BY <1>3, <2>2 DEF CancelLocal, Orphaned, Inv, TypeOK
      <4>2. verdict' \in [Tasks -> Statuses \cup {"none"}] /\ thrown' = thrown
        BY <1>3, <2>2, <4>1 DEF CancelLocal, Inv, TypeOK, Statuses
      <4> QED
        BY <1>3, <2>1, <4>1, <4>2 DEF CancelLocal, NoActive, Inv, TypeOK
    <3>2. Started' /\ NoTask \notin thrown'
      BY <1>3, <2>2 DEF CancelLocal, Inv, TypeOK, Started, TaskAssumption
    <3> QED
      BY <3>1, <3>2, NothingActive DEF Inv
  <2>3. CASE ~(local[p] # NoTask /\ Orphaned(p))
    <3>1. TypeOK'
      BY <1>3, <2>1, <2>3 DEF CancelLocal, Inv, TypeOK, file
    <3>2. UNCHANGED <<file, kind, owner, worker, how, gone, local>>
      BY <1>3, <2>3 DEF CancelLocal
    <3>3. thrown' = thrown \/ /\ thrown' = thrown \cup {local[p]} /\ local[p] # NoTask
                              /\ active.id = busy[p]
      BY <1>3, <2>3 DEF CancelLocal
    <3>4. \A q \in Procs : busy'[q] = busy[q] \/ busy'[q] = NoTask
      BY <1>3 DEF CancelLocal, Inv, TypeOK
    <3>5. ActiveHonest' /\ Held' /\ Started'
      BY <3>2, <3>3, <3>4 DEF Inv, TypeOK, ActiveHonest, Held, Started, file
    <3>6. active.id = busy[p] => active.cancel
      BY <2>1 DEF Inv, Shown, TaskAssumption
    <3>7. Shown'
      BY <3>2, <3>3, <3>4, <3>6 DEF Inv, Shown, file
    <3> QED
      BY <3>1, <3>5, <3>7 DEF Inv
  <2> QED
    BY <2>2, <2>3
<1> QED
  BY <1>1, <1>2, <1>3

LEMMA NextInv == ASSUME TaskAssumption, Inv, [Next]_vars PROVE Inv'
<1>1. ASSUME NEW t \in Tasks, CheckToken(t) \/ Progress(t) \/ Interrupt(t) PROVE Inv'
  BY <1>1, RaisedInv DEF CheckToken, Progress, Interrupt
<1>2. ASSUME NEW t \in Tasks, Start(t) \/ Works(t) PROVE Inv'
  BY <1>1, <1>2, StartInv, BeginInv, FinishInv DEF Works
<1>3. ASSUME NEW p \in Procs,
             \/ Reconcile(p) \/ CancelRecord(p) \/ CancelLocal(p)
             \/ Crash(p) \/ CrashWriting(p) \/ Restart(p)
      PROVE  Inv'
  BY <1>3, ClearInv, CancelInv, DiesInv
<1>4. CASE GrowsOld
  BY <1>4 DEF GrowsOld, Inv, TypeOK, ActiveHonest, Held, Started, Shown, jobs, procs
<1>5. CASE UNCHANGED vars
  BY <1>5 DEF vars, file, procs, jobs, Inv, TypeOK, ActiveHonest, Held, Started, Shown
<1> QED
  BY <1>2, <1>3, <1>4, <1>5 DEF Next

LEMMA Always == Spec => []Inv
<1>1. Init => Inv
  BY InitInv, TaskAssumption
<1>2. Inv /\ [Next]_vars => Inv'
  BY NextInv, TaskAssumption
<1> QED
  BY <1>1, <1>2, PTL DEF Spec

\* The state is well typed.
THEOREM TypeCorrect == Spec => []TypeOK
BY Always, PTL DEF Inv

\* No worker returns and leaves its own record running for ever.
THEOREM ActiveNeverLies == Spec => []ActiveHonest
BY Always, PTL DEF Inv

\* reconcile_stale_active_task only clears what no process works on.
THEOREM NoFalseOrphan == Spec => []OrphansDead
<1>1. Inv => OrphansDead
  BY DEF Inv, OrphansDead, Orphaned, WorkerRunning, Held, TypeOK
<1> QED
  BY <1>1, Always, PTL

-----------------------------------------------------------------------------
(* Tasks that all exclude each other, while no file was torn.              *)

\* Whoever works is the active one, and nobody reports.
Alone == /\ \A t \in Tasks : worker[t] \in Live => active.id = t
         /\ \A t \in Tasks : worker[t] # "reporting"
         /\ \A p \in Procs : local[p] # NoTask => worker[local[p]] \in Live

\* Nothing is said yet of a task that has not ended.
Fresh == \A t \in Tasks :
           worker[t] \in Live \cup {"none"} => verdict[t] = "none" /\ how[t] = "none"

\* Every trace of a cancellation goes back to a request.
Requested == /\ active.cancel => active.id \in asked
             /\ thrown \subseteq asked
             /\ \A p \in Procs : /\ events[p] \subseteq asked
                                 /\ busy[p] # NoTask => busy[p] \in asked

\* A task that left its record active was killed, or cancelled before it began.
Left == \A t \in Tasks : worker[t] = "ended" /\ active.id = t =>
          how[t] = "killed" \/ (active.cancel /\ how[t] = "cancelled")

Told     == \A t \in Tasks : verdict[t] # "none" => verdict[t] = how[t] \/ how[t] = "killed"
Recorded == \A t \in Tasks : worker[t] = "ended" => verdict[t] # "none" \/ active.id = t

One == Alone /\ Fresh /\ Requested /\ Left /\ Told /\ Recorded /\ CancelledOnRequest

LEMMA InitOne == ASSUME TaskAssumption, Init PROVE One
BY DEF TaskAssumption, Init, NoActive, One, Alone, Fresh, Requested, Left, Told, Recorded,
   CancelledOnRequest, Live

\* A worker ends with its record.
LEMMA EndsOne ==
    ASSUME TaskAssumption, TypeOK, One, NEW t \in Tasks, worker[t] \in Live,
           NEW why \in Statuses, Finalize(owner[t], why), Ends(t, why),
           why = "cancelled" => t \in asked,
           UNCHANGED <<thrown, events, busy, asked>>
    PROVE  One'
<1>1. active.id = t /\ how[t] = "none" /\ t # NoTask
  BY DEF One, Alone, Fresh, TaskAssumption
<1>2. /\ active' = NoActive /\ verdict' = [verdict EXCEPT ![t] = why]
      /\ worker' = [worker EXCEPT ![t] = "ended"] /\ how' = [how EXCEPT ![t] = why]
      /\ local' = [p \in Procs |-> IF local[p] = t THEN NoTask ELSE local[p]]
  BY <1>1 DEF Finalize, Ends, TypeOK
<1>3. \A u \in Tasks : u # t => /\ verdict'[u] = verdict[u] /\ how'[u] = how[u]
                               /\ worker'[u] = worker[u]
  BY <1>2 DEF TypeOK
<1>4. verdict'[t] = why /\ how'[t] = why /\ worker'[t] = "ended" /\ why # "none"
  BY <1>2 DEF TypeOK, Statuses
<1>5. \A u \in Tasks : u # t => active.id # u /\ worker[u] \notin Live
  BY <1>1 DEF One, Alone
<1>6. active'.id = NoTask /\ ~active'.cancel
  BY <1>2 DEF NoActive
<1>7. Alone'
  <2>1. \A p \in Procs : local'[p] # NoTask => local'[p] = local[p] /\ local[p] # t
    BY <1>2
  <2>2. \A p \in Procs : local[p] # NoTask => local[p] \in Tasks
    BY DEF TypeOK
  <2> QED
    BY <1>3, <1>4, <1>5, <2>1, <2>2 DEF One, Alone, Live
<1>8. Fresh' /\ Left' /\ Told' /\ Recorded'
  BY <1>3, <1>4, <1>5, <1>6 DEF One, Fresh, Left, Told, Recorded, Live, TaskAssumption
<1>9. Requested' /\ CancelledOnRequest'
  BY <1>3, <1>4, <1>6 DEF One, Requested, CancelledOnRequest
<1> QED
  BY <1>7, <1>8, <1>9 DEF One

LEMMA WorksOne ==
    ASSUME TaskAssumption, Inv, OneKind, One, NEW t \in Tasks, Works(t)
    PROVE  One'
<1> USE DEF Inv
<1>1. \A u \in Tasks : worker[u] # "reporting"
  BY DEF One, Alone
<1>2. CASE Begin(t)
  <2>1. CASE t \in thrown
    <3>1. worker[t] \in Live /\ how[t] = "none" /\ active.id = t /\ t \in asked
      BY <1>2, <2>1 DEF Begin, One, Alone, Fresh, Requested, Live
    <3>2. active.cancel
      BY <2>1, <3>1 DEF Shown
    <3>3. /\ worker' = [worker EXCEPT ![t] = "ended"] /\ how' = [how EXCEPT ![t] = "cancelled"]
          /\ local' = [p \in Procs |-> IF local[p] = t THEN NoTask ELSE local[p]]
          /\ UNCHANGED <<file, thrown, events, busy, asked>>
      BY <1>2, <2>1, <3>1 DEF Begin, Ends, TypeOK
    <3>4. active' = active /\ verdict' = verdict
      BY <3>3 DEF file
    <3>5. \A u \in Tasks : u # t => worker'[u] = worker[u] /\ how'[u] = how[u]
      BY <3>3 DEF TypeOK
    <3>6. worker'[t] = "ended" /\ how'[t] = "cancelled"
      BY <3>3 DEF TypeOK
    <3>7. \A p \in Procs : local'[p] # NoTask =>
             local'[p] = local[p] /\ local[p] # t /\ local[p] \in Tasks
      BY <3>3 DEF TypeOK
    <3>8. Alone'
      BY <3>4, <3>5, <3>6, <3>7 DEF One, Alone, Live
    <3>9. verdict[t] = "none"
      BY <3>1 DEF One, Fresh
    <3>10. Fresh' /\ Left' /\ Told' /\ Recorded'
      BY <3>1, <3>2, <3>4, <3>5, <3>6, <3>9 DEF One, Fresh, Left, Told, Recorded, Live
    <3>11. Requested' /\ CancelledOnRequest'
      BY <3>1, <3>3, <3>4, <3>5, <3>6 DEF One, Requested, CancelledOnRequest
    <3> QED
      BY <3>8, <3>10, <3>11 DEF One
  <2>2. CASE t \notin thrown
    <3>1. /\ worker' = [worker EXCEPT ![t] = "running"] /\ worker[t] = "created"
          /\ UNCHANGED <<active, verdict, how, local, thrown, events, busy, asked>>
      BY <1>2, <2>2 DEF Begin, file
    <3>2. \A u \in Tasks : u # t => worker'[u] = worker[u]
      BY <3>1 DEF TypeOK
    <3>3. worker'[t] = "running"
      BY <3>1 DEF TypeOK
    <3>4. \A p \in Procs : local[p] # NoTask => local[p] \in Tasks
      BY DEF TypeOK
    <3>5. Alone'
      BY <3>1, <3>2, <3>3, <3>4 DEF One, Alone, Live
    <3> QED
      BY <3>1, <3>2, <3>3, <3>5 DEF One, Fresh, Left, Told, Recorded, Requested,
         CancelledOnRequest, Live
  <2> QED
    BY <2>1, <2>2
<1>3. CASE CheckToken(t) \/ Progress(t) \/ Interrupt(t)
  <2>1. worker[t] \in Live
    BY <1>1, <1>3 DEF CheckToken, Progress, Interrupt, Steps, Live
  <2>2. active.id = t /\ owner[t] \in Procs
    BY <2>1 DEF One, Alone, TypeOK
  <2>3. t \in asked
    BY <1>3, <2>2 DEF CheckToken, Progress, Interrupt, Sees, One, Requested
  <2> QED
    BY <1>3, <2>1, <2>3, EndsOne DEF CheckToken, Progress, Interrupt, Raised, Statuses
<1>4. CASE Finish(t)
  <2>1. worker[t] \in Live
    BY <1>4 DEF Finish, Steps, Live
  <2>2. kind[t] \notin Reports
    BY DEF OneKind
  <2>3. PICK status \in Statuses \ {"cancelled"} :
          Finalize(owner[t], status) /\ Ends(t, status)
    BY <1>4, <2>2 DEF Finish
  <2> QED
    BY <1>4, <2>1, <2>3, EndsOne DEF Finish
<1>5. ~Return(t)
  BY <1>1 DEF Return, Steps
<1> QED
  BY <1>2, <1>3, <1>4, <1>5 DEF Works

LEMMA StartOne ==
    ASSUME TaskAssumption, Inv, OneKind, One, NEW t \in Tasks, Start(t)
    PROVE  One'
<1> USE DEF Inv
<1>1. active.id = NoTask
  BY DEF Start, Conflict, OneKind, TypeOK
<1>2. \A u \in Tasks : worker[u] \notin Live
  BY <1>1 DEF One, Alone, TaskAssumption
<1>3. /\ active' = [id |-> t, cancel |-> FALSE, old |-> FALSE] /\ worker[t] = "none"
      /\ worker' = [worker EXCEPT ![t] = "created"]
      /\ local' = [local EXCEPT ![owner[t]] = t]
      /\ UNCHANGED <<verdict, how, thrown, events, busy, asked>>
  BY DEF Start
<1>4. \A u \in Tasks : u # t => worker'[u] = worker[u]
  BY <1>3 DEF TypeOK
<1>5. worker'[t] = "created" /\ active'.id = t /\ ~active'.cancel
  BY <1>3 DEF TypeOK
<1>6. \A p \in Procs : local'[p] # NoTask => local'[p] = t
  BY <1>2, <1>3 DEF TypeOK, One, Alone
<1>7. Alone'
  BY <1>2, <1>4, <1>5, <1>6 DEF One, Alone, Live
<1>8. Fresh' /\ Left' /\ Told' /\ Recorded'
  BY <1>1, <1>2, <1>3, <1>4, <1>5 DEF One, Fresh, Left, Told, Recorded, Live, TaskAssumption
<1>9. Requested' /\ CancelledOnRequest'
  BY <1>3, <1>5 DEF One, Requested, CancelledOnRequest
<1> QED
  BY <1>7, <1>8, <1>9 DEF One

\* A record is cleared of which no worker is left.
LEMMA ClearOne ==
    ASSUME TaskAssumption, Inv, One, NEW t \in Tasks, active.id = t,
           worker[t] \notin Live,
           active' = NoActive,
           verdict' = [verdict EXCEPT ![t] = IF active.cancel THEN "cancelled" ELSE "failed"],
           UNCHANGED <<worker, how, local, asked, thrown>>,
           \A p \in Procs : /\ events'[p] \subseteq asked
                            /\ busy'[p] # NoTask => busy'[p] \in asked
    PROVE  One'
<1> USE DEF Inv
<1>1. worker[t] = "ended"
  BY DEF ActiveHonest, Started, TaskAssumption
<1>2. how[t] = "killed" \/ (active.cancel /\ how[t] = "cancelled")
  BY <1>1 DEF One, Left
<1>3. verdict'[t] # "none" /\ (verdict'[t] = how[t] \/ how[t] = "killed")
  BY <1>2 DEF TypeOK
<1>4. \A u \in Tasks : u # t => verdict'[u] = verdict[u] /\ active.id # u
  BY DEF TypeOK
<1>5. active'.id = NoTask /\ ~active'.cancel
  BY DEF NoActive
<1>6. \A u \in Tasks : worker[u] \notin Live
  BY <1>4 DEF One, Alone
<1>7. Alone'
  BY <1>6 DEF One, Alone
<1>8. Fresh' /\ Left' /\ Told' /\ Recorded'
  BY <1>1, <1>3, <1>4, <1>5, <1>6 DEF One, Fresh, Left, Told, Recorded, Live, TaskAssumption
<1>9. Requested' /\ CancelledOnRequest'
  BY <1>5 DEF One, Requested, CancelledOnRequest
<1> QED
  BY <1>7, <1>8, <1>9 DEF One

\* Nothing changes but what is known of cancellations.
LEMMA SameOne ==
    ASSUME One, Requested',
           active'.id = active.id, active.cancel => active'.cancel,
           UNCHANGED <<verdict, worker, how, local>>, asked \subseteq asked'
    PROVE  One'
BY DEF One, Alone, Fresh, Left, Told, Recorded, CancelledOnRequest

LEMMA ReconcileOne ==
    ASSUME TaskAssumption, Inv, One, NEW p \in Procs, Reconcile(p) \/ Restart(p)
    PROVE  One'
<1> USE DEF Inv
<1>1. UNCHANGED <<worker, how, local, asked, thrown, events, busy>>
  BY DEF Reconcile, Restart, jobs
<1>2. CASE UNCHANGED file
  BY <1>1, <1>2, SameOne DEF One, Requested, file
<1>3. CASE Orphaned(p) /\ Clear(p)
  <2>1. active.id \in Tasks /\ active.id # NoTask
    BY <1>3 DEF Orphaned, TypeOK
  <2>2. worker[active.id] \notin Live
    BY <1>3, <2>1 DEF Orphaned, WorkerRunning, Held, TypeOK
  <2>3. /\ active' = NoActive
        /\ verdict' = [verdict EXCEPT ![active.id] =
                         IF active.cancel THEN "cancelled" ELSE "failed"]
    BY <1>3, <2>1 DEF Clear, Finalize
  <2>4. \A q \in Procs : /\ events'[q] \subseteq asked
                         /\ busy'[q] # NoTask => busy'[q] \in asked
    BY <1>1 DEF One, Requested
  <2> QED
    BY <1>1, <2>1, <2>2, <2>3, <2>4, ClearOne
<1> QED
  BY <1>2, <1>3 DEF Reconcile, Restart, file

LEMMA CancelOne ==
    ASSUME TaskAssumption, Inv, One, NEW p \in Procs, CancelRecord(p) \/ CancelLocal(p)
    PROVE  One'
<1> USE DEF Inv
<1>1. CASE CancelRecord(p)
  <2>1. /\ active' = [active EXCEPT !.cancel = TRUE] /\ active.id \in Tasks
        /\ busy' = [busy EXCEPT ![p] = active.id] /\ asked' = asked \cup {active.id}
        /\ UNCHANGED <<verdict, worker, how, local, thrown, events>>
    BY <1>1 DEF CancelRecord, jobs, TypeOK
  <2>2. active'.id = active.id /\ active'.cancel
    BY <2>1 DEF TypeOK
  <2>3. Requested'
    BY <2>1, <2>2 DEF One, Requested, TypeOK
  <2> QED
    BY <2>1, <2>2, <2>3, SameOne
<1>2. CASE CancelLocal(p)
  <2>1. busy[p] \in asked /\ busy[p] \in Tasks /\ busy[p] # NoTask
    BY <1>2 DEF CancelLocal, One, Requested, TypeOK
  <2>2. /\ busy' = [busy EXCEPT ![p] = NoTask]
        /\ events' = [events EXCEPT ![p] = @ \cup {busy[p]}]
        /\ UNCHANGED <<worker, how, local, asked>>
    BY <1>2 DEF CancelLocal
  <2>3. \A q \in Procs : /\ events'[q] \subseteq asked
                         /\ busy'[q] # NoTask => busy'[q] \in asked
    BY <2>1, <2>2 DEF One, Requested, TypeOK
  <2>4. CASE local[p] # NoTask /\ Orphaned(p)
    <3>1. active.id \in Tasks /\ worker[active.id] \notin Live
      BY <2>4 DEF Orphaned, WorkerRunning, Held, TypeOK
    <3>2. /\ active' = NoActive /\ UNCHANGED thrown
          /\ verdict' = [verdict EXCEPT ![active.id] =
                           IF active.cancel THEN "cancelled" ELSE "failed"]
      BY <1>2, <2>4 DEF CancelLocal
    <3> QED
      BY <2>2, <2>3, <3>1, <3>2, ClearOne
  <2>5. CASE ~(local[p] # NoTask /\ Orphaned(p))
    <3>1. /\ UNCHANGED <<active, verdict>>
          /\ thrown' = IF local[p] # NoTask /\ active.id = busy[p]
                       THEN thrown \cup {local[p]} ELSE thrown
      BY <1>2, <2>5 DEF CancelLocal, file
    <3>2. local[p] # NoTask /\ active.id = busy[p] => local[p] \in asked
      BY <2>1 DEF One, Alone, TypeOK
    <3>3. Requested'
      BY <2>2, <2>3, <3>1, <3>2 DEF One, Requested
    <3> QED
      BY <2>2, <3>1, <3>3, SameOne
  <2> QED
    BY <2>4, <2>5
<1> QED
  BY <1>1, <1>2

\* The asyncio task a process knows is its own.
Own == \A p \in Procs : local[p] # NoTask => owner[local[p]] = p

LEMMA NextOwn == ASSUME TypeOK, Own, [Next]_vars PROVE Own'
<1>1. owner' = owner
  BY DEF Next, vars, jobs, Works, Start, Begin, CheckToken, Progress, Interrupt, Raised,
     Finish, Return, Reconcile, CancelRecord, CancelLocal, GrowsOld, Dies, Crash,
     CrashWriting, Restart
<1>2. ASSUME \A p \in Procs : local'[p] # NoTask => local'[p] = local[p] PROVE Own'
  BY <1>1, <1>2 DEF Own
<1>3. CASE UNCHANGED local
  BY <1>2, <1>3
<1>4. ASSUME NEW t \in Tasks, Start(t) PROVE Own'
  BY <1>1, <1>4 DEF Start, Own, TypeOK
<1>5. ASSUME NEW t \in Tasks, Works(t) PROVE Own'
  BY <1>2, <1>5 DEF Works, Begin, CheckToken, Progress, Interrupt, Raised, Finish, Return,
     Ends, TypeOK
<1>6. ASSUME NEW p \in Procs, Crash(p) \/ CrashWriting(p) PROVE Own'
  BY <1>2, <1>6 DEF Crash, CrashWriting, Dies, TypeOK
<1> QED
  BY <1>3, <1>4, <1>5, <1>6 DEF Next, vars, procs, Reconcile, CancelRecord, CancelLocal,
     GrowsOld, Restart

LEMMA CrashOne ==
    ASSUME TaskAssumption, Inv, Own, One, NEW p \in Procs, Crash(p)
    PROVE  One'
<1> USE DEF Inv
<1>1. /\ Dies(p, 0) /\ active' = active /\ verdict' = verdict
      /\ thrown' = thrown /\ asked' = asked
  BY DEF Crash, Dies, file
<1>2. \A t \in Tasks :
        \/ worker'[t] = worker[t] /\ how'[t] = how[t]
        \/ worker'[t] = "ended" /\ worker[t] \in Live /\ how'[t] = "killed"
  BY <1>1 DEF Dies, TypeOK, Live, Workers, One, Alone
<1>3. \A q \in Procs : /\ events'[q] \subseteq asked
                       /\ busy'[q] # NoTask => busy'[q] \in asked
  BY <1>1 DEF Dies, One, Requested, TypeOK
<1>4. \A q \in Procs : local'[q] # NoTask =>
        q # p /\ local'[q] = local[q] /\ local[q] \in Tasks
  BY <1>1 DEF Dies, TypeOK
<1>5. \A q \in Procs : local[q] # NoTask => owner[local[q]] = q
  BY DEF Own
<1>6. \A t \in Tasks : owner[t] # p => worker'[t] = worker[t]
  BY <1>1 DEF Dies
<1>7. Alone'
  BY <1>1, <1>2, <1>4, <1>5, <1>6 DEF One, Alone, Live
<1>8. Fresh' /\ Left' /\ Told' /\ Recorded'
  BY <1>1, <1>2 DEF One, Alone, Fresh, Left, Told, Recorded, Live
<1>9. Requested' /\ CancelledOnRequest'
  BY <1>1, <1>2, <1>3 DEF One, Requested, CancelledOnRequest
<1> QED
  BY <1>7, <1>8, <1>9 DEF One

\* A file that was torn stays so, and kinds do not change.
LEMMA OneKindBefore ==
    ASSUME TypeOK, [Next]_vars, OneKind' PROVE OneKind
<1>1. kind' = kind
  BY DEF Next, vars, jobs, Works, Start, Begin, CheckToken, Progress, Interrupt, Raised,
     Finish, Return, Reconcile, CancelRecord, CancelLocal, GrowsOld, Dies, Crash,
     CrashWriting, Restart
<1>2. count'["torn"] = 0 => count["torn"] = 0
  <2>1. UNCHANGED count \/ (\E p \in Procs : CancelRecord(p) \/ Crash(p) \/ CrashWriting(p))
    BY DEF Next, vars, Works, Start, Begin, CheckToken, Progress, Interrupt, Raised,
       Finish, Return, Reconcile, CancelLocal, GrowsOld, Restart
  <2>2. ASSUME NEW p \in Procs, CancelRecord(p) PROVE count'["torn"] = count["torn"]
    BY <2>2 DEF CancelRecord, Counted, Bounded, TypeOK
  <2>3. ASSUME NEW p \in Procs, Crash(p) PROVE count'["torn"] = count["torn"]
    BY <2>3 DEF Crash, Dies, Bounded, TypeOK
  <2>4. ASSUME NEW p \in Procs, CrashWriting(p) PROVE count'["torn"] # 0
    BY <2>4 DEF CrashWriting, Dies, Bounded, TypeOK
  <2> QED
    BY <2>1, <2>2, <2>3, <2>4
<1> QED
  BY <1>1, <1>2 DEF OneKind

LEMMA NextOne ==
    ASSUME TaskAssumption, Inv, Own, OneKind, OneKind', One, [Next]_vars PROVE One'
<1>1. ASSUME NEW t \in Tasks, Start(t) \/ Works(t) PROVE One'
  BY <1>1, StartOne, WorksOne
<1>2. ASSUME NEW p \in Procs, CrashWriting(p) PROVE FALSE
  <2>1. count'["torn"] = count["torn"] + 1
    BY <1>2 DEF CrashWriting, Dies, Inv, TypeOK, Bounded
  <2> QED
    BY <2>1 DEF OneKind
<1>3. ASSUME NEW p \in Procs, \/ Reconcile(p) \/ CancelRecord(p) \/ CancelLocal(p)
                              \/ Crash(p) \/ CrashWriting(p) \/ Restart(p)
      PROVE  One'
  BY <1>2, <1>3, ReconcileOne, CancelOne, CrashOne
<1>4. CASE GrowsOld
  <2>1. active'.id = active.id /\ active'.cancel = active.cancel
    BY <1>4 DEF GrowsOld, Inv, TypeOK
  <2>2. UNCHANGED <<verdict, worker, how, local, asked, thrown, events, busy>>
    BY <1>4 DEF GrowsOld, procs, jobs
  <2> QED
    BY <2>1, <2>2, SameOne DEF One, Requested
<1>5. CASE UNCHANGED vars
  BY <1>5, SameOne DEF vars, file, procs, jobs, One, Requested
<1> QED
  BY <1>1, <1>3, <1>4, <1>5 DEF Next

LEMMA AlwaysOne == Spec => [](OneKind => One)
<1>1. Init => Own /\ (OneKind => One)
  BY InitOne, TaskAssumption DEF Init, Own
<1>2. Inv /\ Own /\ [Next]_vars => Own'
  BY NextOwn DEF Inv
<1>3. Inv /\ Own /\ (OneKind => One) /\ [Next]_vars => (OneKind => One)'
  BY NextOne, OneKindBefore, TaskAssumption DEF Inv
<1> QED
  BY <1>1, <1>2, <1>3, Always, PTL DEF Spec

\* Of two tasks of exclusive kinds only one is worked on, and only what somebody
\* asked for is cancelled.
THEOREM KindsStayApart == Spec => []KindsApart
<1>1. Inv /\ (OneKind => One) => KindsApart
  BY DEF KindsApart, OneKindExclusive, OneKindCancelled, Exclusive, One, Alone
<1> QED
  BY <1>1, Always, AlwaysOne, PTL

\* What became of every task is in the records, truthfully.
THEOREM RecordsStayTrue == Spec => []RecordsTrue
<1>1. (OneKind => One) => RecordsTrue
  BY DEF RecordsTrue, VerdictTrue, CompletionRecorded, One, Told, Recorded
<1> QED
  BY <1>1, AlwaysOne, PTL
=============================================================================
