--------------------------- MODULE Services_proof ---------------------------
(***************************************************************************)
(* Proofs about the services, for any callers, values and bounds: what a   *)
(* service promises holds whichever part runs.                             *)
(***************************************************************************)
EXTENDS Services, FiniteSetTheorems, WellFoundedInduction, TLAPS

\* A step is a step of the part that runs.
LEMMA PartStep ==
  ASSUME [Next]_all
  PROVE  /\ part' = part
         /\ part = "account" => [A!Next]_A!vars
         /\ part = "research" => [R!Next]_R!vars
         /\ part = "simulation" => [S!Next]_S!vars
         /\ part = "strategies" => [Y!Next]_Y!vars
         /\ part = "sources" => [C!Next]_C!vars
         /\ part = "feedback" => [F!Next]_F!vars
         /\ part = "history" => [H!Next]_H!vars
         /\ part = "updates" => [U!Next]_U!vars
         /\ part = "calls" => [O!Next]_O!vars
<1>1. CASE UNCHANGED all
  BY <1>1 DEF all, accountVars, researchVars, simulationVars, strategiesVars, sourcesVars,
       feedbackVars, historyVars, updatesVars, callsVars, A!vars, R!vars, S!vars, Y!vars,
       C!vars, F!vars, H!vars, U!vars, O!vars
<1>2. CASE Next
  BY <1>2 DEF Next, AccountStep, ResearchStep, SimulationStep, StrategiesStep, SourcesStep,
       FeedbackStep, BrokerBookStep, AnalysisRunsStep, UpdaterStep, OandaClientStep
<1> QED
  BY <1>1, <1>2

-----------------------------------------------------------------------------
(* Updater                                                                 *)

Scripts == [at : {"resolve", "checkout", "install", "restart", "lock"},
            track : Tracks \cup {"none"}, target : Nat, alone : BOOLEAN]

\* A script that another runs beside is not alone.
JobsOK(J) ==
  /\ J \in [U!Jobs -> Scripts \cup {U!Off}]
  /\ \A j \in U!Jobs : J[j].at = "checkout" =>
       J[j].track \in Tracks /\ J[j].target \in 1..MaxCommit
  /\ \A i, j \in U!Jobs : i # j /\ J[i] # U!Off /\ J[j] # U!Off => ~J[i].alone

\* What a script that was alone has installed and restarted is still there.
TreeOK(J, h, d, s) ==
  \A j \in U!Jobs : J[j].alone =>
    /\ J[j].at \in {"restart", "lock"} => d = h
    /\ J[j].at = "lock" => s = h

ChecksOK(k, tr) ==
  /\ k \in [Callers -> [track : Tracks, overtaken : BOOLEAN] \cup {U!None}]
  /\ \A c \in Callers : k[c] # U!None /\ ~k[c].overtaken => k[c].track = tr

UpdaterInv ==
  /\ U!TypeOK /\ JobsOK(job) /\ TreeOK(job, head, deps, served)
  /\ ChecksOK(checks, track) /\ U!CheckCurrent

\* Of the scripts near their end none is new.
NoneNew(J, Q) ==
  \A i \in U!Jobs : Q[i].at \in {"restart", "lock"} /\ Q[i].alone =>
    J[i].at = Q[i].at /\ J[i].alone

LEMMA StartedIs ==
  ASSUME NEW J, JobsOK(J), NEW j \in U!Jobs
  PROVE  JobsOK(U!Started(J, j)) /\ NoneNew(J, U!Started(J, j))
<1> DEFINE others == \E i \in U!Jobs \ {j} : J[i] # U!Off
           fresh == [at |-> "resolve", track |-> "none", target |-> 0, alone |-> ~others]
           Q == U!Started(J, j)
<1>1. Q = [i \in U!Jobs |-> IF i = j THEN fresh
             ELSE IF J[i] = U!Off THEN U!Off ELSE [J[i] EXCEPT !.alone = FALSE]]
  BY DEF U!Started
<1>2. fresh \in Scripts /\ fresh.at = "resolve" /\ fresh # U!Off
        /\ (fresh.alone => ~others)
  BY DEF Scripts, U!Off
<1> HIDE DEF fresh, others, Q
<1>3. ASSUME NEW i \in U!Jobs, i # j, J[i] # U!Off
      PROVE  /\ Q[i] \in Scripts /\ ~Q[i].alone /\ Q[i].at = J[i].at
             /\ Q[i].track = J[i].track /\ Q[i].target = J[i].target
  <2>1. J[i] \in Scripts
    BY <1>3 DEF JobsOK
  <2>2. Q[i] = [J[i] EXCEPT !.alone = FALSE]
    BY <1>1, <1>3
  <2> QED
    BY <2>1, <2>2 DEF Scripts
<1>4. Q[j] = fresh /\ \A i \in U!Jobs : i # j /\ J[i] = U!Off => Q[i] = U!Off
  BY <1>1
<1>5. Q \in [U!Jobs -> Scripts \cup {U!Off}]
  <2>1. \A i \in U!Jobs : Q[i] \in Scripts \cup {U!Off}
    BY <1>2, <1>3, <1>4
  <2>2. Q = [i \in U!Jobs |-> Q[i]]
    BY <1>1
  <2> QED
    BY <2>1, <2>2
<1>6. U!Off.at = "off"
  BY DEF U!Off
<1>7. JobsOK(Q)
  <2>1. ASSUME NEW i \in U!Jobs, Q[i].at = "checkout"
        PROVE  Q[i].track \in Tracks /\ Q[i].target \in 1..MaxCommit
    BY <2>1, <1>2, <1>3, <1>4, <1>6 DEF JobsOK
  <2>2. ASSUME NEW i \in U!Jobs, NEW k \in U!Jobs, i # k, Q[i] # U!Off, Q[k] # U!Off
        PROVE  ~Q[i].alone
    BY <2>2, <1>2, <1>3, <1>4 DEF others
  <2> QED
    BY <2>1, <2>2, <1>5 DEF JobsOK
<1>8. NoneNew(J, Q)
  BY <1>2, <1>3, <1>4, <1>6 DEF NoneNew
<1> QED
  BY <1>7, <1>8 DEF Q

LEMMA StoppedIs ==
  ASSUME NEW J, JobsOK(J), NEW j \in U!Jobs
  PROVE  JobsOK([J EXCEPT ![j] = U!Off]) /\ NoneNew(J, [J EXCEPT ![j] = U!Off])
BY DEF JobsOK, NoneNew, U!Off

\* The end of a script, which may start another one.
LEMMA EndedIs ==
  ASSUME UpdaterInv, NEW j \in U!Jobs, NEW how, U!Ended(j, how)
  PROVE  /\ JobsOK(job') /\ NoneNew(job, job')
         /\ request' \in [Callers -> {"idle", "start", "force"}]
<1>1. request' \in [Callers -> {"idle", "start", "force"}]
  BY DEF U!Ended, UpdaterInv, U!TypeOK
<1> DEFINE J == [job EXCEPT ![j] = U!Off]
<1>2. job' = J \/ \E c \in Callers : job' = U!Started(J, c)
  BY DEF U!Ended
<1>3. JobsOK(J) /\ NoneNew(job, J)
  BY StoppedIs DEF UpdaterInv
<1> HIDE DEF J
<1>4. ASSUME NEW c \in Callers, job' = U!Started(J, c)
      PROVE  JobsOK(job') /\ NoneNew(job, job')
  <2>1. JobsOK(job') /\ NoneNew(J, job')
    BY <1>3, <1>4, StartedIs DEF U!Jobs
  <2> QED
    BY <2>1, <1>3 DEF NoneNew
<1> QED
  BY <1>1, <1>2, <1>3, <1>4

Resolved(r, tr, n) == [r EXCEPT !.at = "checkout", !.track = tr, !.target = n]

LEMMA ResolvedScript ==
  ASSUME NEW r \in Scripts, NEW tr \in Tracks, NEW n \in Nat
  PROVE  /\ Resolved(r, tr, n) \in Scripts /\ Resolved(r, tr, n).at = "checkout"
         /\ Resolved(r, tr, n).track = tr /\ Resolved(r, tr, n).target = n
         /\ Resolved(r, tr, n).alone = r.alone
BY DEF Scripts, Resolved

LEMMA ScriptStep ==
  ASSUME UpdaterInv, NEW j \in U!Jobs,
         \/ U!Resolve(j) \/ U!Checkout(j) \/ U!Install(j) \/ U!Restart(j) \/ U!Lock(j)
         \/ U!Fails(j)
  PROVE  UpdaterInv'
<1>1. /\ JobsOK(job) /\ TreeOK(job, head, deps, served) /\ ChecksOK(checks, track)
      /\ U!TypeOK /\ U!CheckCurrent
  BY DEF UpdaterInv
<1>2. /\ head \in 1..MaxCommit /\ deps \in 1..MaxCommit /\ served \in 1..MaxCommit
      /\ lock \in 1..MaxCommit /\ track \in Tracks /\ tip \in [Tracks -> 1..MaxCommit]
      /\ MaxCommit \in Nat /\ MaxFaults["updates"] \in Nat /\ faults \in 0..MaxFaults["updates"]
  BY <1>1, ServicesAssumption DEF U!TypeOK, Failing
<1> DEFINE Asked == request' \in [Callers -> {"idle", "start", "force"}]
           Tree == {head', deps', served', lock'} \subseteq 1..MaxCommit
           G == JobsOK(job') /\ TreeOK(job', head', deps', served') /\ Asked /\ Tree
                /\ ChecksOK(checks', track) /\ U!CheckCurrent'
                /\ faults' \in 0..MaxFaults["updates"]
<1>3. SUFFICES G
  <2>1. UNCHANGED <<dev, track, auto, tip, sim, calls>>
    BY DEF U!Resolve, U!Checkout, U!Install, U!Restart, U!Lock, U!Fails, U!config, U!tree
  <2>2. ASSUME G PROVE U!TypeOK'
    <3>1. \A i \in U!Jobs : job'[i].at \in {"off", "resolve", "checkout", "install", "restart", "lock"}
      BY <2>2 DEF JobsOK, Scripts, U!Off
    <3> QED
      BY <2>1, <2>2, <3>1, <1>1 DEF U!TypeOK
  <2> QED
    BY <2>1, <2>2 DEF UpdaterInv
\* A step that leaves what is checked out, installed and running alone.
<1>4. ASSUME NoneNew(job, job'), UNCHANGED <<head, deps, served>>
      PROVE  TreeOK(job', head', deps', served')
  BY <1>4, <1>1 DEF TreeOK, NoneNew
<1>5. CASE U!Resolve(j)
  <2>1. UNCHANGED <<head, deps, served, lock, checks, cached, track, faults>>
    BY <1>5 DEF U!Resolve, U!tree, U!config
  <2>2. CASE \E how : U!Ended(j, how)
    BY <2>1, <2>2, <1>1, <1>2, <1>4, EndedIs DEF UpdaterInv, U!CheckCurrent
  <2>3. CASE /\ ~ tip[track] <= head /\ UNCHANGED request
             /\ job' = [job EXCEPT ![j].at = "checkout", ![j].track = track,
                                   ![j].target = tip[track]]
    <3>1. job[j] \in Scripts
      BY <1>5, <1>1 DEF U!Resolve, JobsOK, U!Off
    <3> DEFINE r == Resolved(job[j], track, tip[track])
    <3>2. tip[track] \in 1..MaxCommit
      BY <1>2
    <3>3. /\ r \in Scripts /\ r.at = "checkout" /\ r.track = track /\ r.target = tip[track]
          /\ r.alone = job[j].alone
      <4>1. tip[track] \in Nat /\ track \in Tracks
        BY <3>2, <1>2
      <4> QED
        BY <4>1, <3>1, ResolvedScript
    <3>4. job' = [job EXCEPT ![j] = r]
      BY <2>3, <1>1 DEF JobsOK, Resolved
    <3>6. job' \in [U!Jobs -> Scripts \cup {U!Off}] /\ job'[j] = r /\ job[j] # U!Off
          /\ \A i \in U!Jobs : i # j => job'[i] = job[i]
      BY <3>1, <3>3, <3>4, <1>1 DEF JobsOK, U!Off, Scripts
    <3> HIDE DEF r
    <3>5. JobsOK(job') /\ NoneNew(job, job')
      BY <3>2, <3>3, <3>6, <1>1, <1>2 DEF JobsOK, NoneNew
    <3> QED
      BY <3>5, <2>1, <2>3, <1>1, <1>2, <1>4 DEF U!CheckCurrent, U!TypeOK
  <2> QED
    BY <1>5, <2>2, <2>3 DEF U!Resolve
<1>6. CASE U!Checkout(j) \/ U!Install(j)
  <2>1. PICK where \in {"install", "restart"} :
          /\ job' = [job EXCEPT ![j].at = where]
          /\ UNCHANGED <<request, lock, served, checks, cached, track, faults>>
          /\ where = "install" => head' \in job[j].target..tip[job[j].track] /\ UNCHANGED deps
                                  /\ job[j].at = "checkout"
          /\ where = "restart" => deps' = head /\ UNCHANGED head /\ job[j].at = "install"
    BY <1>6 DEF U!Checkout, U!Install, U!Step, U!config
  <2>2. job[j] \in Scripts
    BY <2>1, <1>1 DEF JobsOK, U!Off
  <2>3. /\ [job[j] EXCEPT !.at = where] \in Scripts
        /\ [job[j] EXCEPT !.at = where].alone = job[j].alone
        /\ [job[j] EXCEPT !.at = where].at = where
    BY <2>2 DEF Scripts
  <2>4. /\ job'[j] \in Scripts /\ job'[j].at = where /\ job'[j].alone = job[j].alone
        /\ job' = [job EXCEPT ![j] = job'[j]] /\ job[j] # U!Off
        /\ \A i \in U!Jobs : i # j => job'[i] = job[i]
    BY <2>1, <2>3, <1>1 DEF JobsOK, U!Off
  <2>5. JobsOK(job')
    BY <2>4, <1>1 DEF JobsOK
  <2>6. Tree
    <3>1. CASE where = "install"
      <4>1. job[j].target \in 1..MaxCommit /\ tip[job[j].track] \in 1..MaxCommit
        BY <3>1, <2>1, <1>1, <1>2 DEF JobsOK
      <4>2. head' \in 1..MaxCommit
        BY <3>1, <4>1, <2>1, <1>2
      <4> QED
        BY <4>2, <3>1, <2>1, <1>2
    <3>2. CASE where = "restart"
      BY <3>2, <2>1, <1>2
    <3> QED
      BY <3>1, <3>2
  <2>7. TreeOK(job', head', deps', served')
    <3>1. ASSUME NEW i \in U!Jobs, job'[i].alone, job'[i].at \in {"restart", "lock"}
          PROVE  i = j /\ where = "restart"
      BY <3>1, <2>1, <2>4, <1>1 DEF JobsOK, U!Off
    <3> QED
      BY <3>1, <2>1, <2>4 DEF TreeOK
  <2> QED
    BY <2>1, <2>5, <2>6, <2>7, <1>1, <1>2 DEF U!CheckCurrent, U!TypeOK
<1>7. CASE U!Restart(j)
  <2>1. /\ UNCHANGED <<head, deps, lock, track, faults>> /\ served' = head
        /\ request' = [c \in Callers |-> "idle"] /\ checks' = [c \in Callers |-> U!None]
        /\ cached' = U!None /\ job[j].at = "restart"
    BY <1>7 DEF U!Restart, U!config
  <2>2. JobsOK(job') /\ \A i \in U!Jobs : job'[i].at # "restart" \/ job'[i] = job[i]
    <3>1. ASSUME j = "unit" PROVE
             /\ [job[j] EXCEPT !.at = "lock"] \in Scripts
             /\ [job[j] EXCEPT !.at = "lock"].at = "lock"
             /\ [job[j] EXCEPT !.at = "lock"].alone = job[j].alone
      BY <2>1, <1>1 DEF JobsOK, Scripts, U!Off
    <3>2. \A i \in U!Jobs :
            \/ job'[i] = U!Off
            \/ i = "unit" /\ j # "unit" /\ job'[i] = job[i]
            \/ i = "unit" /\ j = "unit" /\ job'[i] = [job[j] EXCEPT !.at = "lock"]
      <4> SUFFICES ASSUME NEW i \in U!Jobs
                   PROVE  \/ job'[i] = U!Off
                          \/ i = "unit" /\ j # "unit" /\ job'[i] = job[i]
                          \/ i = "unit" /\ j = "unit" /\ job'[i] = [job[j] EXCEPT !.at = "lock"]
        OBVIOUS
      <4>1. job'[i] = IF i = "unit" /\ j = "unit" THEN [job["unit"] EXCEPT !.at = "lock"]
                      ELSE IF i = "unit" THEN job["unit"] ELSE U!Off
        BY <1>7 DEF U!Restart, U!Unit
      <4> QED
        BY <4>1
    <3>3. job' \in [U!Jobs -> Scripts \cup {U!Off}]
      <4>1. \A i \in U!Jobs : job'[i] \in Scripts \cup {U!Off}
        BY <3>1, <3>2, <1>1 DEF JobsOK
      <4>2. job' = [i \in U!Jobs |-> job'[i]]
        BY <1>7 DEF U!Restart
      <4> QED
        BY <4>1, <4>2
    <3>4. \A i, k \in U!Jobs : job'[i] # U!Off /\ job'[k] # U!Off => i = k
      BY <3>2
    <3>5. ASSUME NEW i \in U!Jobs, job'[i] # job[i] PROVE job'[i].at \in {"off", "lock"}
      <4>1. CASE job'[i] = U!Off
        BY <4>1 DEF U!Off
      <4>2. CASE j = "unit" /\ job'[i] = [job[j] EXCEPT !.at = "lock"]
        BY <4>2, <3>1
      <4> QED
        BY <4>1, <4>2, <3>2, <3>5
    <3>6. \A i \in U!Jobs : job'[i].at \in {"restart", "checkout"} => job'[i] = job[i]
      BY <3>5
    <3> QED
      BY <3>3, <3>4, <3>6, <1>1 DEF JobsOK
  <2>3. \A i \in U!Jobs : job'[i].at = "lock" /\ job'[i].alone => deps = head
    <3>1. ASSUME NEW i \in U!Jobs, job'[i].at = "lock", job'[i].alone
          PROVE  job[i].at \in {"restart", "lock"} /\ job[i].alone
      <4>1. \/ job'[i] = U!Off \/ job'[i] = job[i]
            \/ i = j /\ job'[i] = [job[j] EXCEPT !.at = "lock"]
        BY <1>7 DEF U!Restart, U!Unit
      <4>2. job[j] \in Scripts
        BY <2>1, <1>1 DEF JobsOK, U!Off
      <4>3. [job[j] EXCEPT !.at = "lock"].alone = job[j].alone
        BY <4>2 DEF Scripts
      <4> QED
        <5>1. job'[i] # U!Off
          BY <3>1 DEF U!Off
        <5>2. CASE job'[i] = job[i]
          BY <3>1, <5>2
        <5>3. CASE i = j /\ job'[i] = [job[j] EXCEPT !.at = "lock"]
          BY <3>1, <5>3, <4>3, <2>1
        <5> QED
          BY <4>1, <5>1, <5>2, <5>3
    <3> QED
      BY <3>1, <1>1 DEF TreeOK
  <2>4. TreeOK(job', head', deps', served')
    BY <2>1, <2>2, <2>3, <1>1 DEF TreeOK
  <2>5. Asked /\ ChecksOK(checks', track) /\ U!CheckCurrent'
    BY <2>1 DEF ChecksOK, U!CheckCurrent
  <2> QED
    BY <2>1, <2>2, <2>4, <2>5, <1>2
<1>8. CASE U!Lock(j) \/ U!Fails(j)
  <2>1. /\ UNCHANGED <<head, deps, served, checks, cached, track>>
        /\ lock' \in {lock, head} /\ \E how : U!Ended(j, how)
        /\ \/ UNCHANGED faults
           \/ faults' = faults + 1 /\ faults < MaxFaults["updates"]
    BY <1>8 DEF U!Lock, U!Fails, U!tree, U!config, U!Fault
  <2>2. faults' \in 0..MaxFaults["updates"]
    BY <2>1, <1>2
  <2> QED
    BY <2>1, <2>2, <1>1, <1>2, <1>4, EndedIs DEF UpdaterInv, U!CheckCurrent
<1> QED
  BY <1>5, <1>6, <1>7, <1>8

\* What starts a script: the timer and requests of the page.
LEMMA TriggerStep ==
  ASSUME UpdaterInv, U!Timer \/ \E c \in Callers : U!Trigger(c) \/ U!Refused(c)
  PROVE  UpdaterInv'
<1>1. /\ JobsOK(job) /\ TreeOK(job, head, deps, served) /\ ChecksOK(checks, track)
      /\ U!TypeOK /\ U!CheckCurrent
  BY DEF UpdaterInv
<1>2. /\ MaxFaults["updates"] \in Nat /\ faults \in 0..MaxFaults["updates"]
      /\ MaxCalls["updates"] \in Nat /\ calls \in 0..MaxCalls["updates"]
  BY <1>1, ServicesAssumption DEF U!TypeOK, Failing, Limited
<1>3. /\ UNCHANGED <<dev, track, auto, tip, head, deps, served, lock, checks, cached, sim>>
      /\ job' = job \/ \E j \in U!Jobs : job' = U!Started(job, j)
  BY DEF U!Timer, U!Trigger, U!Refused, U!config, U!tree, U!web, U!Jobs
<1>4. request' \in [Callers -> {"idle", "start", "force"}]
  BY <1>1 DEF U!TypeOK, U!Timer, U!Trigger, U!Refused, U!web
<1>5. faults' \in 0..MaxFaults["updates"] /\ calls' \in 0..MaxCalls["updates"]
  <2>1. calls' = calls + 1 /\ calls < MaxCalls["updates"]
    BY DEF U!Timer, U!Trigger, U!Refused, U!Call
  <2>2. faults' = faults \/ (faults' = faults + 1 /\ faults < MaxFaults["updates"])
    BY DEF U!Timer, U!Trigger, U!Refused, U!Fault
  <2> QED
    BY <2>1, <2>2, <1>2
<1>6. JobsOK(job') /\ NoneNew(job, job')
  <2>1. CASE job' = job
    BY <2>1, <1>1 DEF NoneNew
  <2>2. CASE \E j \in U!Jobs : job' = U!Started(job, j)
    BY <2>2, <1>1, StartedIs
  <2> QED
    BY <2>1, <2>2, <1>3
<1>7. TreeOK(job', head', deps', served')
  BY <1>3, <1>6, <1>1 DEF TreeOK, NoneNew
<1>8. \A i \in U!Jobs : job'[i].at \in {"off", "resolve", "checkout", "install", "restart", "lock"}
  BY <1>6 DEF JobsOK, Scripts, U!Off
<1>9. U!TypeOK'
  BY <1>1, <1>3, <1>4, <1>5, <1>8 DEF U!TypeOK
<1> QED
  BY <1>1, <1>3, <1>6, <1>7, <1>9 DEF UpdaterInv, U!CheckCurrent

\* What leaves the scripts alone.
LEMMA PageStep ==
  ASSUME UpdaterInv,
         \/ \E k \in Tracks : U!Push(k)
         \/ U!Simulated
         \/ \E c \in Callers : U!Simulate(c) \/ U!Check(c) \/ U!Checked(c) \/ U!Save(c)
  PROVE  UpdaterInv'
<1>1. /\ JobsOK(job) /\ TreeOK(job, head, deps, served) /\ ChecksOK(checks, track)
      /\ U!TypeOK /\ U!CheckCurrent
  BY DEF UpdaterInv
<1>2. /\ MaxFaults["updates"] \in Nat /\ faults \in 0..MaxFaults["updates"]
      /\ MaxCalls["updates"] \in Nat /\ calls \in 0..MaxCalls["updates"]
      /\ MaxCommit \in Nat /\ tip \in [Tracks -> 1..MaxCommit]
  BY <1>1, ServicesAssumption DEF U!TypeOK, Failing, Limited
<1>3. UNCHANGED <<dev, head, deps, served, lock, job, request>>
  BY DEF U!Push, U!Simulated, U!Simulate, U!Check, U!Checked, U!Save, U!config, U!tree, U!web
<1>4. /\ calls' = calls \/ (calls' = calls + 1 /\ calls < MaxCalls["updates"])
      /\ faults' = faults \/ (faults' = faults + 1 /\ faults < MaxFaults["updates"])
  BY DEF U!Push, U!Simulated, U!Simulate, U!Check, U!Checked, U!Save, U!Call, U!Fault
<1>5. faults' \in 0..MaxFaults["updates"] /\ calls' \in 0..MaxCalls["updates"]
  BY <1>2, <1>4
<1>6. track' \in Tracks /\ auto' \in BOOLEAN /\ sim' \in {"idle", "running", "success"}
  BY <1>1 DEF U!Push, U!Simulated, U!Simulate, U!Check, U!Checked, U!Save, U!config, U!web,
       U!TypeOK
<1>7. tip' \in [Tracks -> 1..MaxCommit]
  <2>1. CASE \E k \in Tracks : U!Push(k)
    BY <2>1, <1>2 DEF U!Push
  <2>2. CASE tip' = tip
    BY <2>2, <1>2
  <2> QED
    BY <2>1, <2>2 DEF U!Simulated, U!Simulate, U!Check, U!Checked, U!Save
<1>8. U!TypeOK'
  BY <1>1, <1>3, <1>5, <1>6, <1>7 DEF U!TypeOK
<1>9. ChecksOK(checks', track') /\ U!CheckCurrent'
  <2>1. ASSUME NEW k \in Tracks, U!Push(k) PROVE UNCHANGED <<checks, cached, track>>
    BY <2>1 DEF U!Push, U!config, U!web
  <2>2. CASE UNCHANGED <<checks, cached, track>>
    BY <2>2, <1>1 DEF U!CheckCurrent
  <2>3. CASE U!Simulated
    BY <2>3, <1>1 DEF U!Simulated, U!CheckCurrent, U!config
  <2>4. ASSUME NEW c \in Callers, U!Check(c)
        PROVE  ChecksOK(checks', track') /\ U!CheckCurrent'
    <3> DEFINE new == [track |-> track, overtaken |-> FALSE]
    <3>1. UNCHANGED <<track, cached>> /\ checks' = [checks EXCEPT ![c] = new]
      BY <2>4 DEF U!Check, U!config
    <3>2. new \in [track : Tracks, overtaken : BOOLEAN] /\ new.track = track
      BY <1>1 DEF U!TypeOK
    <3> HIDE DEF new
    <3> QED
      BY <3>1, <3>2, <1>1 DEF ChecksOK, U!CheckCurrent
  <2>5. ASSUME NEW c \in Callers, U!Checked(c)
        PROVE  ChecksOK(checks', track') /\ U!CheckCurrent'
    <3>1. /\ UNCHANGED track /\ checks' = [checks EXCEPT ![c] = U!None] /\ checks[c] # U!None
          /\ \/ cached' = U!None
             \/ cached'.track = checks[c].track /\ cached'.overtaken = checks[c].overtaken
      BY <2>5 DEF U!Checked, U!config
    <3> QED
      BY <3>1, <1>1 DEF ChecksOK, U!CheckCurrent
  <2>6. ASSUME NEW c \in Callers, U!Save(c)
        PROVE  ChecksOK(checks', track') /\ U!CheckCurrent'
    <3>1. /\ cached' = U!None
          /\ checks' = [i \in Callers |-> IF checks[i] = U!None THEN U!None
                                          ELSE [checks[i] EXCEPT !.overtaken = TRUE]]
      BY <2>6 DEF U!Save, U!Cleared
    <3>2. ASSUME NEW i \in Callers
          PROVE  \/ checks'[i] = U!None
                 \/ checks'[i] \in [track : Tracks, overtaken : BOOLEAN] /\ checks'[i].overtaken
      <4>1. CASE checks[i] # U!None
        <5>1. checks[i] \in [track : Tracks, overtaken : BOOLEAN]
          BY <4>1, <1>1 DEF ChecksOK
        <5>2. checks'[i] = [checks[i] EXCEPT !.overtaken = TRUE]
          BY <4>1, <3>1
        <5> QED
          BY <5>1, <5>2
      <4> QED
        BY <4>1, <3>1
    <3>3. checks' = [i \in Callers |-> checks'[i]]
      BY <3>1
    <3> QED
      BY <3>1, <3>2, <3>3 DEF ChecksOK, U!CheckCurrent
  <2>7. ASSUME NEW c \in Callers, U!Simulate(c) PROVE UNCHANGED <<checks, cached, track>>
    BY <2>7 DEF U!Simulate, U!config
  <2> QED
    BY <2>1, <2>2, <2>3, <2>4, <2>5, <2>6, <2>7
<1> QED
  BY <1>1, <1>3, <1>8, <1>9 DEF UpdaterInv

\* Whatever scripts, settings and checks overlap, one that ran alone records what
\* is installed and running, and the check that is shown is of the track that is
\* configured.
THEOREM UpdatesTrue == Spec => []UpdateTrue
<1> DEFINE Inv == part = "updates" => UpdaterInv
<1>1. Init => Inv
  <2>1. ASSUME U!Init PROVE UpdaterInv
    <3>1. U!TypeOK
      BY <2>1, ServicesAssumption DEF U!Init, U!TypeOK, U!Off, Failing, Limited
    <3>2. JobsOK(job) /\ TreeOK(job, head, deps, served)
      BY <2>1 DEF U!Init, JobsOK, TreeOK, U!Off
    <3>3. ChecksOK(checks, track) /\ U!CheckCurrent
      BY <2>1 DEF U!Init, ChecksOK, U!CheckCurrent
    <3> QED
      BY <3>1, <3>2, <3>3 DEF UpdaterInv
  <2> QED
    BY <2>1 DEF Init
<1>2. Inv /\ [Next]_all => Inv'
  <2> SUFFICES ASSUME Inv, [Next]_all, part' = "updates" PROVE UpdaterInv'
    OBVIOUS
  <2>1. UpdaterInv /\ [U!Next]_U!vars
    BY PartStep
  <2>2. CASE UNCHANGED U!vars
    BY <2>1, <2>2 DEF U!vars, UpdaterInv, U!TypeOK, U!CheckCurrent
  <2> QED
    BY <2>1, <2>2, ScriptStep, TriggerStep, PageStep DEF U!Next
<1>3. Inv => UpdateTrue
  <2>1. UpdaterInv => U!LockTrue
    BY DEF UpdaterInv, TreeOK, U!LockTrue
  <2> QED
    BY <2>1 DEF UpdateTrue, UpdaterInv
<1> QED
  BY <1>1, <1>2, <1>3, PTL DEF Spec

-----------------------------------------------------------------------------
(* OandaClient                                                             *)

Requests == [pc : O!Steps, object : {0} \cup O!Objects, on : Nat, tries : Nat, done : Nat,
             told : {"none", "ok", "refused", "failed"}]

\* A request that got past get_oanda_client has an object.
CallsTyped ==
  /\ call \in [O!Requesters -> Requests]
  /\ \A c \in O!Requesters : call[c].pc \in {"idle", "get", "ended"} \/ call[c].object \in O!Objects
  /\ opened \in Nat /\ session \in [O!Objects -> 0..opened] /\ closed \subseteq 1..opened

\* An object is made only after the last one was closed, so there are enough.
Counted ==
  /\ made \in Nat /\ closes \in 0..MaxCloses
  /\ \/ current = 0 /\ made <= closes
     \/ current = made /\ made \in 1..closes + 1

\* Every session belongs to one object, which forgets it when it is closed: by
\* _ensure_client, by _recreate_client or by close_oanda_client.
Owned ==
  \A k \in O!Objects : session[k] # 0 =>
    /\ session[k] \notin closed
    /\ \A j \in O!Objects : session[j] = session[k] => j = k

CallsInv == CallsTyped /\ Counted /\ Owned

LEMMA RetriedRequest ==
  ASSUME NEW r \in Requests
  PROVE  /\ O!Retried(r) \in Requests /\ O!Retried(r).object = r.object
<1>1. [r EXCEPT !.pc = "limit", !.tries = @ + 1]
        = [r EXCEPT !.pc = "limit", !.tries = r.tries + 1]
  BY DEF Requests
<1>2. r.tries + 1 \in Nat
  BY DEF Requests
<1> QED
  BY <1>1, <1>2 DEF O!Retried, Requests, O!Steps

\* O!Get gives the request an object that is among O!Objects.
LEMMA GetInv == ASSUME CallsInv, NEW c \in O!Requesters, O!Get(c) PROVE CallsInv'
<1> USE DEF CallsInv, O!Get, O!At, O!sessions, O!bounds
<1>1. Counted' /\ made' \in 1..MaxCloses + 1 /\ current' = made'
  BY ServicesAssumption DEF Counted
<1>2. current' \in O!Objects
  BY <1>1 DEF O!Objects
<1>3. call'[c] \in Requests /\ call' = [call EXCEPT ![c] = call'[c]] /\ call'[c].object \in O!Objects
  BY <1>2 DEF CallsTyped, Requests, O!Steps
<1>4. CallsTyped'
  BY <1>3 DEF CallsTyped
<1>5. Owned'
  BY DEF Owned
<1> QED
  BY <1>1, <1>4, <1>5

\* Closing the session of an object forgets it.
LEMMA CloseInv ==
  ASSUME CallsInv, NEW c \in O!Requesters, call[c].object \in O!Objects,
         NEW where \in {"opening", "reopening"}, O!Close(c, call[c].object, where)
  PROVE  CallsInv'
<1> USE DEF CallsInv, O!Close, O!Goto, O!registry, O!bounds
<1>1. CallsTyped'
  BY DEF CallsTyped, Requests, O!Steps
<1>2. Counted'
  BY DEF Counted
<1>3. Owned'
  BY DEF CallsTyped, Owned
<1> QED
  BY <1>1, <1>2, <1>3

\* The session that is opened is a new one.
LEMMA OpenInv == ASSUME CallsInv, NEW c \in O!Requesters, O!Open(c) PROVE CallsInv'
<1> USE DEF CallsInv, O!Open, O!registry, O!bounds
<1>1. call[c] \in Requests /\ call[c].object \in O!Objects
  BY DEF CallsTyped
<1>2. call'[c] \in Requests /\ call'[c].object = call[c].object
  <2>1. CASE call[c].pc = "opening"
    <3>1. call'[c] = [call[c] EXCEPT !.pc = "send", !.on = opened + 1]
      BY <2>1 DEF CallsTyped
    <3>2. opened + 1 \in Nat /\ "send" \in O!Steps
      BY DEF CallsTyped, O!Steps
    <3> HIDE DEF CallsInv, O!Open, O!registry, O!bounds
    <3>3. /\ [call[c] EXCEPT !.pc = "send", !.on = opened + 1] \in Requests
          /\ [call[c] EXCEPT !.pc = "send", !.on = opened + 1].object = call[c].object
      <4>1. \A r \in Requests : \A n \in Nat :
               /\ [r EXCEPT !.pc = "send", !.on = n] \in Requests
               /\ [r EXCEPT !.pc = "send", !.on = n].object = r.object
        BY <3>2 DEF Requests
      <4> QED
        BY <1>1, <3>2, <4>1
    <3> QED
      BY <3>1, <3>3
  <2>2. CASE call[c].pc = "reopening"
    BY <1>1, <2>2, RetriedRequest DEF CallsTyped
  <2> QED
    BY <2>1, <2>2
<1>3. CallsTyped'
  BY <1>1, <1>2 DEF CallsTyped
<1>4. Counted'
  BY DEF Counted
<1>5. Owned'
  BY <1>1 DEF CallsTyped, Owned
<1> QED
  BY <1>3, <1>4, <1>5

\* A bot that stops closes the session of the registered object, and no other
\* object has it.
LEMMA CloseAllInv == ASSUME CallsInv, O!CloseAll PROVE CallsInv'
<1> USE DEF CallsInv, O!CloseAll
<1>1. Counted' /\ current \in 1..MaxCloses + 1
  BY ServicesAssumption DEF Counted
<1> current \in O!Objects
  BY <1>1 DEF O!Objects
<1>2. session' \in [O!Objects -> 0..opened]
  <2>1. 0 \in 0..opened
    BY DEF CallsTyped
  <2> QED
    BY <2>1 DEF CallsTyped
<1>3. closed' \subseteq 1..opened
  <2>1. session[current] \in 0..opened /\ opened \in Nat /\ closed \subseteq 1..opened
    BY DEF CallsTyped
  <2>2. {session[current]} \ {0} \subseteq 1..opened
    BY <2>1
  <2> QED
    BY <2>1, <2>2
<1>4. CallsTyped'
  BY <1>2, <1>3 DEF CallsTyped
<1>5. Owned'
  BY <1>1 DEF CallsTyped, Owned
<1> QED
  BY <1>1, <1>4, <1>5

\* Every other step of a request leaves the O!sessions alone.
LEMMA RequestInv ==
  ASSUME CallsInv, NEW c \in O!Requesters,
         \/ O!Call(c) \/ O!Limit(c) \/ O!Reuse(c) \/ O!Send(c) \/ O!Act(c) \/ O!Reply(c) \/ O!Refuse(c)
         \/ O!Overloaded(c) \/ O!Lost(c)
  PROVE  CallsInv'
<1> USE DEF CallsInv, O!At, O!Goto, O!sessions, O!registry, O!bounds
<1>1. Counted'
  BY DEF Counted, O!Call, O!Limit, O!Reuse, O!Send, O!Act, O!Reply, O!Refuse, O!Overloaded, O!Lost
<1>2. Owned'
  BY DEF Owned, O!Call, O!Limit, O!Reuse, O!Send, O!Act, O!Reply, O!Refuse, O!Overloaded, O!Lost
<1>3. /\ call'[c] \in Requests /\ call' = [call EXCEPT ![c] = call'[c]]
      /\ call'[c].pc \in {"idle", "get", "ended"} \/ call'[c].object \in O!Objects
  <2> call[c] \in Requests
    BY DEF CallsTyped
  <2>1. CASE O!Call(c)
    <3>1. call'[c] = [call[c] EXCEPT !.pc = "get", !.tries = 1]
      BY <2>1 DEF O!Call, CallsTyped
    <3>2. call' = [call EXCEPT ![c] = call'[c]]
      BY <2>1 DEF O!Call, CallsTyped
    <3>3. "get" \in O!Steps /\ call'[c].pc = "get"
      BY <3>1 DEF Requests, O!Steps
    <3>4. call'[c] \in Requests
      <4>1. \A r \in Requests : [r EXCEPT !.pc = "get", !.tries = 1] \in Requests
        BY <3>3 DEF Requests
      <4> HIDE DEF CallsInv, O!At, O!Goto, O!sessions, O!registry, O!bounds
      <4> QED
        BY <3>1, <4>1
    <3> QED
      BY <3>2, <3>3, <3>4
  <2>2. CASE O!Limit(c)
    BY <2>2 DEF O!Limit, CallsTyped, Requests, O!Steps
  <2>8. CASE O!Send(c)
    <3>1. call' = [call EXCEPT ![c] = call'[c]] /\ call[c].object \in O!Objects
      BY <2>8 DEF O!Send, CallsTyped
    <3>2. CASE call[c].on \in closed
      <4>1. call'[c] = [call[c] EXCEPT !.pc = "ended", !.told = "refused"]
        BY <2>8, <3>2 DEF O!Send, CallsTyped
      <4>2. call'[c] \in Requests /\ call'[c].object = call[c].object
        BY <4>1 DEF Requests, O!Steps
      <4> QED
        BY <3>1, <4>2
    <3>3. CASE call[c].on \notin closed
      <4>1. call'[c] = [call[c] EXCEPT !.pc = "inflight"]
        BY <2>8, <3>3 DEF O!Send, CallsTyped
      <4>2. call'[c] \in Requests /\ call'[c].object = call[c].object
        BY <4>1 DEF Requests, O!Steps
      <4> QED
        BY <3>1, <4>2
    <3> QED
      BY <3>2, <3>3
  <2>7. CASE O!Reuse(c)
    <3>1. session[call[c].object] \in Nat /\ call[c].object \in O!Objects
      BY <2>7 DEF O!Reuse, CallsTyped
    <3>2. call'[c] = [call[c] EXCEPT !.pc = "send", !.on = session[call[c].object]]
      BY <2>7 DEF O!Reuse, CallsTyped
    <3>3. call' = [call EXCEPT ![c] = call'[c]]
      BY <2>7 DEF O!Reuse, CallsTyped
    <3> QED
      BY <3>1, <3>2, <3>3 DEF Requests, O!Steps
  <2>3. CASE O!Act(c)
    <3>1. call' = [call EXCEPT ![c] = call'[c]] /\ call[c].object \in O!Objects
      BY <2>3 DEF O!Act, CallsTyped
    <3>2. \E n \in Nat : call'[c] = [call[c] EXCEPT !.pc = "acted", !.done = n]
      <4>1. call[c].done \in Nat /\ call[c].done + 1 \in Nat
        BY DEF Requests
      <4>2. CASE c \in Orders
        <5>1. call'[c] = [call[c] EXCEPT !.pc = "acted", !.done = call[c].done + 1]
          BY <2>3, <4>2 DEF O!Act, CallsTyped
        <5> QED
          BY <4>1, <5>1
      <4>3. CASE c \notin Orders
        <5>1. call'[c] = [call[c] EXCEPT !.pc = "acted", !.done = call[c].done]
          BY <2>3, <4>3 DEF O!Act, CallsTyped
        <5> QED
          BY <4>1, <5>1
      <4> QED
        BY <4>2, <4>3
    <3>3. call'[c] \in Requests /\ call'[c].object = call[c].object
      BY <3>2 DEF Requests, O!Steps
    <3> QED
      BY <3>1, <3>3
  <2>4. CASE O!Reply(c) \/ O!Refuse(c)
    BY <2>4 DEF O!Reply, O!Refuse, CallsTyped, Requests, O!Steps
  <2>5. CASE O!Overloaded(c)
    BY <2>5, RetriedRequest DEF O!Overloaded, CallsTyped
  <2>6. CASE O!Lost(c)
    BY <2>6 DEF O!Lost, CallsTyped, Requests, O!Steps
  <2> QED
    BY <2>1, <2>2, <2>3, <2>4, <2>5, <2>6, <2>7, <2>8
<1>4. UNCHANGED O!sessions
  BY DEF O!Call, O!Limit, O!Reuse, O!Send, O!Act, O!Reply, O!Refuse, O!Overloaded, O!Lost
<1>5. CallsTyped'
  BY <1>3, <1>4 DEF CallsTyped
<1> QED
  BY <1>1, <1>2, <1>5

\* Every other step of the client.
LEMMA ClientNext == ASSUME CallsInv, [O!Next]_O!vars PROVE CallsInv'
<1>1. ASSUME NEW c \in O!Requesters, O!Renew(c) \/ O!Recreate(c) PROVE CallsInv'
  <2>1. call[c].object \in O!Objects
    BY <1>1 DEF O!Renew, O!Recreate, O!At, CallsInv, CallsTyped
  <2> QED
    BY <1>1, <2>1, CloseInv DEF O!Renew, O!Recreate
<1>2. CASE UNCHANGED O!vars
  BY <1>2 DEF O!vars, CallsInv, CallsTyped, Counted, Owned
<1> QED
  BY <1>1, <1>2, GetInv, OpenInv, CloseAllInv, RequestInv DEF O!Next, O!Step

\* A try sends at most one order.
Trying == {"get", "limit", "ensure", "opening", "send", "inflight"}

TriesOK(r) ==
  /\ r.tries <= MaxTries /\ r.done <= r.tries
  /\ r.pc = "idle" => r.done = 0
  /\ r.pc \in Trying => r.done < r.tries

Bounded ==
  /\ lock \in [O!Objects -> O!Requesters \cup {Nobody}]
  /\ faults \in 0..MaxFaults["calls"]
  /\ \A c \in O!Requesters : TriesOK(call[c])

\* What a step does to a request.
Turns(r, q) ==
  /\ q.pc # "idle"
  /\ \/ q.tries = r.tries /\ q.done = r.done /\ (q.pc \in Trying => r.pc \in Trying)
     \/ r.pc = "idle" /\ q.tries = 1 /\ q.done = r.done
     \/ r.tries < MaxTries /\ q.tries = r.tries + 1 /\ q.done = r.done
     \/ r.pc = "inflight" /\ q.pc = "acted" /\ q.tries = r.tries /\ q.done \in {r.done, r.done + 1}

LEMMA TurnsOK ==
  ASSUME NEW r \in Requests, NEW q \in Requests, TriesOK(r), Turns(r, q)
  PROVE  TriesOK(q)
<1>1. r.tries \in Nat /\ r.done \in Nat /\ q.tries \in Nat /\ q.done \in Nat /\ MaxTries \in Nat \ {0}
  BY ServicesAssumption DEF Requests
<1> QED
  BY <1>1 DEF TriesOK, Turns, Trying

LEMMA RetriedTurns ==
  ASSUME NEW r \in Requests, r.pc # "idle"
  PROVE  Turns(r, O!Retried(r))
<1>1. CASE r.tries < MaxTries
  <2>1. O!Retried(r) = [r EXCEPT !.pc = "limit", !.tries = r.tries + 1]
    BY <1>1 DEF O!Retried, Requests
  <2> QED
    BY <1>1, <2>1 DEF Turns, Requests
<1>2. CASE ~ r.tries < MaxTries
  <2>1. O!Retried(r) = [r EXCEPT !.pc = "ended", !.told = "failed"]
    BY <1>2 DEF O!Retried
  <2> QED
    BY <2>1 DEF Turns, Requests, Trying
<1> QED
  BY <1>1, <1>2

LEMMA RequestTurns ==
  ASSUME CallsInv, NEW c \in O!Requesters, O!Call(c) \/ O!Step(c) \/ O!Overloaded(c)
  PROVE  /\ Turns(call[c], call'[c])
         /\ \A d \in O!Requesters : d # c => call'[d] = call[d]
<1>1. call \in [O!Requesters -> Requests] /\ call[c] \in Requests
  BY DEF CallsInv, CallsTyped
<1> USE DEF O!At, O!Goto
<1>2. CASE O!Call(c)
  <2>1. call'[c] = [call[c] EXCEPT !.pc = "get", !.tries = 1] /\ call[c].pc = "idle"
    BY <1>1, <1>2 DEF O!Call
  <2> QED
    BY <1>1, <1>2, <2>1 DEF Turns, Requests, O!Call
<1>3. CASE O!Get(c)
  <2>1. call'[c] = [call[c] EXCEPT !.pc = "limit", !.object = current'] /\ call[c].pc = "get"
    BY <1>1, <1>3 DEF O!Get
  <2> QED
    BY <1>1, <1>3, <2>1 DEF Turns, Requests, O!Get, Trying
<1>4. CASE O!Limit(c) \/ O!Renew(c) \/ O!Recreate(c) \/ O!Lost(c)
  <2>1. PICK where \in {"ensure", "opening", "reopening", "recreate"} :
          /\ call' = [call EXCEPT ![c].pc = where]
          /\ where \in Trying => call[c].pc \in Trying
    BY <1>4 DEF O!Limit, O!Renew, O!Recreate, O!Lost, O!Close, Trying
  <2>2. call'[c] = [call[c] EXCEPT !.pc = where]
    BY <1>1, <2>1
  <2> QED
    BY <1>1, <2>1, <2>2 DEF Turns, Requests
<1>5. CASE O!Reuse(c)
  <2>1. call'[c] = [call[c] EXCEPT !.pc = "send", !.on = session[call[c].object]]
        /\ call[c].pc = "ensure"
    BY <1>1, <1>5 DEF O!Reuse
  <2> QED
    BY <1>1, <1>5, <2>1 DEF Turns, Requests, O!Reuse, Trying
<1>6. CASE O!Open(c)
  <2>1. CASE call[c].pc = "opening"
    <3>1. call'[c] = [call[c] EXCEPT !.pc = "send", !.on = opened + 1]
      BY <1>1, <1>6, <2>1 DEF O!Open
    <3> QED
      BY <1>1, <1>6, <2>1, <3>1 DEF Turns, Requests, O!Open, Trying
  <2>2. CASE call[c].pc = "reopening"
    BY <1>1, <1>6, <2>2, RetriedTurns DEF O!Open
  <2> QED
    BY <1>6, <2>1, <2>2 DEF O!Open
<1>7. CASE O!Send(c)
  <2>1. \/ call'[c] = [call[c] EXCEPT !.pc = "ended", !.told = "refused"]
        \/ call'[c] = [call[c] EXCEPT !.pc = "inflight"]
    BY <1>1, <1>7 DEF O!Send
  <2>2. call[c].pc = "send"
    BY <1>7 DEF O!Send
  <2> QED
    BY <1>1, <1>7, <2>1, <2>2 DEF Turns, Requests, O!Send, Trying
<1>8. CASE O!Act(c)
  <2>1. PICK n \in {call[c].done, call[c].done + 1} :
          call'[c] = [call[c] EXCEPT !.pc = "acted", !.done = n]
    <3>1. CASE c \in Orders
      BY <1>1, <1>8, <3>1 DEF O!Act
    <3>2. CASE c \notin Orders
      BY <1>1, <1>8, <3>2 DEF O!Act
    <3> QED
      BY <3>1, <3>2
  <2> QED
    BY <1>1, <1>8, <2>1 DEF Turns, Requests, O!Act
<1>9. CASE O!Reply(c) \/ O!Refuse(c)
  <2>1. PICK how \in {"ok", "failed"} : call' = [call EXCEPT ![c].pc = "ended", ![c].told = how]
    BY <1>9 DEF O!Reply, O!Refuse
  <2>2. call'[c] = [call[c] EXCEPT !.pc = "ended", !.told = how]
    BY <1>1, <2>1
  <2> QED
    BY <1>1, <2>1, <2>2 DEF Turns, Requests, Trying
<1>10. CASE O!Overloaded(c)
  BY <1>1, <1>10, RetriedTurns DEF O!Overloaded
<1> QED
  BY <1>2, <1>3, <1>4, <1>5, <1>6, <1>7, <1>8, <1>9, <1>10 DEF O!Step

LEMMA BoundedNext ==
  ASSUME CallsInv, CallsInv', Bounded, [O!Next]_O!vars PROVE Bounded'
<1>1. faults \in 0..MaxFaults["calls"] /\ MaxFaults["calls"] \in Nat
  BY ServicesAssumption DEF Bounded, Failing
<1>2. ASSUME NEW c \in O!Requesters, O!Call(c) \/ O!Step(c) \/ O!Overloaded(c)
      PROVE  Bounded'
  <2>1. lock' \in [O!Objects -> O!Requesters \cup {Nobody}]
    BY <1>2 DEF Bounded, O!Step, O!Call, O!Overloaded, O!Get, O!Limit, O!Reuse, O!Renew,
         O!Recreate, O!Close, O!Open, O!Send, O!Act, O!Reply, O!Refuse, O!Lost, O!sessions
  <2>2. faults' = faults \/ (faults' = faults + 1 /\ faults < MaxFaults["calls"])
    BY <1>2 DEF O!Step, O!Call, O!Overloaded, O!Get, O!Limit, O!Reuse, O!Renew,
         O!Recreate, O!Close, O!Open, O!Send, O!Act, O!Reply, O!Refuse, O!Lost, O!bounds
  <2>3. faults' \in 0..MaxFaults["calls"]
    BY <2>2, <1>1
  <2>4. \A d \in O!Requesters : call[d] \in Requests /\ call'[d] \in Requests
    BY DEF CallsInv, CallsTyped
  <2>5. \A d \in O!Requesters : TriesOK(call'[d])
    BY <1>2, <2>4, RequestTurns, TurnsOK DEF Bounded
  <2> QED
    BY <2>1, <2>3, <2>5 DEF Bounded
<1>3. CASE O!CloseAll
  BY <1>3 DEF O!CloseAll, Bounded
<1>4. CASE UNCHANGED O!vars
  BY <1>4 DEF O!vars, Bounded
<1> QED
  BY <1>2, <1>3, <1>4 DEF O!Next

\* The session that the next request is handed out is open, however renewals,
\* replacements after lost answers and the ends of bots overlap.
THEOREM SessionsOpen == Spec => []HeldOpen
<1> DEFINE Inv == part = "calls" => CallsInv /\ Bounded
<1>1. Init => Inv
  <2>1. ASSUME O!Init PROVE CallsInv
    BY <2>1, ServicesAssumption DEF O!Init, CallsInv, CallsTyped, Requests, O!Steps, Counted,
         Owned, O!Objects
  <2>2. ASSUME O!Init PROVE Bounded
    BY <2>2, ServicesAssumption DEF O!Init, Bounded, TriesOK, Failing, Trying
  <2> QED
    BY <2>1, <2>2 DEF Init
<1>2. Inv /\ [Next]_all => Inv'
  BY PartStep, ClientNext, BoundedNext
<1>3. Inv => HeldOpen
  <2> SUFFICES ASSUME CallsInv, Bounded PROVE O!TypeOK /\ O!HeldOpen
    BY DEF HeldOpen
  <2>1. /\ \A c \in O!Requesters : call[c] \in Requests /\ TriesOK(call[c])
        /\ call = [c \in O!Requesters |-> call[c]]
    BY DEF CallsInv, CallsTyped, Bounded
  <2>2. ASSUME NEW c \in O!Requesters
        PROVE  call[c] \in [pc : O!Steps, object : {0} \cup O!Objects, on : Nat,
                            tries : 0..MaxTries, done : 0..MaxTries,
                            told : {"none", "ok", "refused", "failed"}]
    <3>1. call[c].tries \in 0..MaxTries /\ call[c].done \in 0..MaxTries
      BY <2>1, ServicesAssumption DEF Requests, TriesOK
    <3> QED
      BY <2>1, <3>1 DEF Requests
  <2>3. current \in {0} \cup O!Objects /\ made \in {0} \cup O!Objects
    BY ServicesAssumption DEF CallsInv, Counted, O!Objects
  <2>4. session \in [O!Objects -> Nat]
    BY DEF CallsInv, CallsTyped
  <2>5. O!TypeOK
    BY <2>1, <2>2, <2>3, <2>4 DEF O!TypeOK, CallsInv, CallsTyped, Counted, Bounded
  <2>6. O!HeldOpen
    BY DEF CallsInv, Owned, O!HeldOpen
  <2> QED
    BY <2>5, <2>6
<1> QED
  BY <1>1, <1>2, <1>3, PTL DEF Spec

-----------------------------------------------------------------------------
(* AnalysisRuns                                                            *)

Analyses == [at : {"find", "insert", "again", "merge", "stored", "gates"}, key : Keys,
             nr : 1..MaxCalls["history"], manual : BOOLEAN, copy : H!Row \cup {H!None},
             id : 0..MaxCalls["history"]]

\* A merge has a copy of the row it found.
WritersOK(w) ==
  /\ w \in [Callers -> Analyses \cup {H!Idle}]
  /\ \A c \in Callers : w[c].at = "merge" => w[c].copy \in H!Row

HistoryInv ==
  /\ rows \in [Keys -> H!Row \cup {H!None}] /\ WritersOK(call)
  /\ calls \in 0..MaxCalls["history"]

\* What a writer may become.
LEMMA WriterTurns ==
  ASSUME WritersOK(call), NEW c \in Callers, NEW w \in Analyses \cup {H!Idle},
         w.at = "merge" => w.copy \in H!Row, call' = [call EXCEPT ![c] = w]
  PROVE  WritersOK(call')
BY DEF WritersOK

LEMMA AtWork ==
  ASSUME WritersOK(call), NEW c \in Callers, call[c].at # "idle"
  PROVE  call[c] \in Analyses
BY DEF WritersOK, H!Idle

LEMMA AnalysisTurns ==
  ASSUME NEW a \in Analyses
  PROVE  /\ \A s \in {"insert", "again", "gates"} : [a EXCEPT !.at = s] \in Analyses
         /\ \A s \in {"insert", "again", "gates"} : [a EXCEPT !.at = s].at = s
         /\ \A n \in 0..MaxCalls["history"] : [a EXCEPT !.at = "stored", !.id = n] \in Analyses
         /\ \A n \in 0..MaxCalls["history"] : [a EXCEPT !.at = "stored", !.id = n].at = "stored"
         /\ \A q \in H!Row : [a EXCEPT !.at = "merge", !.copy = q] \in Analyses
         /\ \A q \in H!Row : [a EXCEPT !.at = "merge", !.copy = q].copy = q
BY DEF Analyses

\* What is written for an analysis is a row.
LEMMA DocumentIs ==
  ASSUME NEW c \in Callers, call[c] \in Analyses, MaxCalls["history"] \in Nat
  PROVE  H!Document(c) \in H!Row
BY DEF H!Document, H!Row, Analyses

LEMMA MergedIs ==
  ASSUME NEW q \in H!Row, NEW d \in H!Row, NEW x \in BOOLEAN
  PROVE  /\ H!Merged(q, d, x) \in H!Row
         /\ H!Merged(q, d, x).type = q.type
         /\ q.type = "manual" => H!Merged(q, d, x).result = q.result
BY DEF H!Merged, H!Row

LEMMA RowChanged ==
  ASSUME NEW q \in H!Row
  PROVE  /\ [q EXCEPT !.type = "manual"] \in H!Row
         /\ [q EXCEPT !.type = "manual"].type = "manual"
         /\ [q EXCEPT !.type = "manual"].result = q.result
         /\ \A n \in 0..MaxCalls["history"] : [q EXCEPT !.execution = n] \in H!Row
         /\ \A n \in 0..MaxCalls["history"] : [q EXCEPT !.execution = n].type = q.type
         /\ \A n \in 0..MaxCalls["history"] : [q EXCEPT !.execution = n].result = q.result
BY DEF H!Row

\* A change of one row.
LEMMA OneRow ==
  ASSUME HistoryInv, NEW k \in Keys, NEW q \in H!Row \cup {H!None},
         rows' = [rows EXCEPT ![k] = q],
         \/ rows[k] = H!None \/ q = H!None \/ rows[k].type # "manual"
         \/ q.type = "manual" /\ q.result = rows[k].result
  PROVE  rows' \in [Keys -> H!Row \cup {H!None}] /\ H!ManualHolds
BY DEF HistoryInv, H!ManualHolds

LEMMA HistoryStep ==
  ASSUME HistoryInv, [H!Next]_H!vars
  PROVE  HistoryInv' /\ H!ManualHolds
<1> USE DEF HistoryInv
<1>0. MaxCalls["history"] \in Nat /\ H!None \notin H!Row
  BY ServicesAssumption DEF Limited, H!None, H!Row
<1>1. CASE UNCHANGED H!vars
  BY <1>1 DEF H!vars, WritersOK, H!ManualHolds
<1>2. ASSUME NEW k \in Keys, H!Delete(k) PROVE HistoryInv' /\ H!ManualHolds
  <2>1. rows' = [rows EXCEPT ![k] = H!None] /\ UNCHANGED <<call, calls>>
    BY <1>2 DEF H!Delete
  <2> QED
    BY <2>1, OneRow DEF WritersOK
<1>3. ASSUME NEW c \in Callers, H!Begin(c) PROVE HistoryInv' /\ H!ManualHolds
  <2>1. calls' \in 0..MaxCalls["history"] /\ calls + 1 \in 1..MaxCalls["history"] /\ rows' = rows
    BY <1>3, <1>0 DEF H!Begin
  <2>2. PICK k \in Keys, manual \in BOOLEAN :
           call' = [call EXCEPT ![c] = [at |-> "find", key |-> k, nr |-> calls + 1,
                                        manual |-> manual, copy |-> H!None, id |-> 0]]
    BY <1>3 DEF H!Begin
  <2>3. [at |-> "find", key |-> k, nr |-> calls + 1, manual |-> manual,
         copy |-> H!None, id |-> 0] \in Analyses
    BY <2>1, <1>0 DEF Analyses
  <2>4. WritersOK(call')
    BY <2>2, <2>3, WriterTurns
  <2> QED
    BY <2>1, <2>4 DEF H!ManualHolds
<1>4. ASSUME NEW c \in Callers, H!Find(c) PROVE HistoryInv' /\ H!ManualHolds
  <2>1. call[c] \in Analyses
    BY <1>4, AtWork DEF H!Find, H!At
  <2>2. rows[call[c].key] \in H!Row \cup {H!None}
    BY <2>1 DEF Analyses
  <2>3. WritersOK(call')
    <3>1. CASE rows[call[c].key] # H!None
      <4>1. call' = [call EXCEPT ![c] = [call[c] EXCEPT !.at = "merge", !.copy = rows[call[c].key]]]
        BY <1>4, <3>1 DEF H!Find, H!Existing
      <4> QED
        BY <4>1, <3>1, <2>1, <2>2, AnalysisTurns, WriterTurns
    <3>2. CASE rows[call[c].key] = H!None
      <4> DEFINE w == [call[c] EXCEPT !.at = "insert"]
      <4>1. call' = [call EXCEPT ![c] = w] \/ call' = [call EXCEPT ![c] = H!Idle]
        BY <1>4, <3>2 DEF H!Find, H!Existing, H!Goes, H!Ends
      <4>2. H!Idle.at # "merge"
        BY DEF H!Idle
      <4>3. w \in Analyses /\ w.at # "merge"
        BY <2>1, AnalysisTurns
      <4> HIDE DEF w
      <4> QED
        BY <4>1, <4>2, <4>3, WriterTurns
    <3> QED
      BY <3>1, <3>2
  <2> QED
    BY <2>3, <1>4 DEF H!Find, H!ManualHolds
<1>5. ASSUME NEW c \in Callers, H!Insert(c) PROVE HistoryInv' /\ H!ManualHolds
  <2>1. call[c] \in Analyses /\ calls' = calls
    BY <1>5, AtWork DEF H!Insert, H!At
  <2>2. CASE rows[call[c].key] = H!None
    <3>1. rows' = [rows EXCEPT ![call[c].key] = H!Document(c)]
      BY <1>5, <2>2 DEF H!Insert
    <3>2. call' = [call EXCEPT ![c] = [call[c] EXCEPT !.at = "stored", !.id = call[c].nr]]
      BY <1>5, <2>2 DEF H!Insert, H!Stored
    <3>3. call[c].nr \in 0..MaxCalls["history"] /\ call[c].key \in Keys
      BY <2>1, <1>0 DEF Analyses
    <3>4. WritersOK(call')
      BY <3>2, <3>3, <2>1, AnalysisTurns, WriterTurns
    <3>5. H!Document(c) \in H!Row
      BY <2>1, <1>0, DocumentIs
    <3>6. rows' \in [Keys -> H!Row \cup {H!None}] /\ H!ManualHolds
      BY <3>1, <3>3, <3>5, <2>2, OneRow
    <3> QED
      BY <2>1, <3>4, <3>6
  <2>3. CASE rows[call[c].key] # H!None
    <3>1. call' = [call EXCEPT ![c] = [call[c] EXCEPT !.at = "again"]] /\ rows' = rows
      BY <1>5, <2>3 DEF H!Insert, H!Goes
    <3>2. WritersOK(call')
      BY <3>1, <2>1, AnalysisTurns, WriterTurns
    <3> QED
      BY <2>1, <3>1, <3>2 DEF H!ManualHolds
  <2> QED
    BY <2>2, <2>3
<1>6. ASSUME NEW c \in Callers, H!Merge(c) PROVE HistoryInv' /\ H!ManualHolds
  <2> DEFINE key == call[c].key
             copy == call[c].copy
             q == H!Merged(copy, H!Document(c), key \in Exits)
  <2>1. call[c] \in Analyses /\ copy \in H!Row /\ calls' = calls /\ call[c].at = "merge"
    BY <1>6, AtWork DEF H!Merge, H!At, WritersOK
  <2>2. key \in Keys /\ copy.id \in 0..MaxCalls["history"] /\ copy.type \in {"live", "manual"}
    BY <2>1, <1>0 DEF Analyses, H!Row
  <2>3. call' = [call EXCEPT ![c] = [call[c] EXCEPT !.at = "stored", !.id = copy.id]]
    BY <1>6 DEF H!Merge, H!Stored
  <2>4. WritersOK(call')
    BY <2>1, <2>2, <2>3, AnalysisTurns, WriterTurns
  <2>5. q \in H!Row /\ q.type = copy.type /\ (copy.type = "manual" => q.result = copy.result)
    <3>1. (key \in Exits) \in BOOLEAN /\ H!Document(c) \in H!Row
      BY <2>1, <1>0, DocumentIs
    <3> QED
      BY <2>1, <3>1, MergedIs
  <2>6. rows' = rows \/ rows' = [rows EXCEPT ![key] = q]
    BY <1>6 DEF H!Merge
  <2> HIDE DEF q
  <2>7. rows' \in [Keys -> H!Row \cup {H!None}]
    BY <2>5, <2>6
  <2>8. H!ManualHolds
    <3> SUFFICES ASSUME NEW i \in Keys, rows[i] # H!None, rows[i].type = "manual"
                 PROVE  \/ rows'[i].type = "manual" /\ rows'[i].result = rows[i].result
                        \/ /\ H!At(c, "merge") /\ key = i
                           /\ copy.type = "live" \/ copy.result # rows[i].result
      BY DEF H!ManualHolds
    <3>1. CASE i = key /\ rows'[i] = q
      BY <3>1, <2>1, <2>2, <2>5 DEF H!At
    <3>2. CASE rows'[i] = rows[i]
      BY <3>2
    <3> QED
      BY <2>2, <2>6, <3>1, <3>2
  <2> QED
    BY <2>1, <2>4, <2>7, <2>8
<1>7. ASSUME NEW c \in Callers, H!Mark(c) PROVE HistoryInv' /\ H!ManualHolds
  <2> DEFINE key == call[c].key
  <2>1. call[c] \in Analyses /\ calls' = calls /\ key \in Keys
    BY <1>7, AtWork DEF H!Mark, H!At, Analyses
  <2>2. CASE H!Holds(key, call[c].id)
    <3>1. /\ rows' = [rows EXCEPT ![key] = [rows[key] EXCEPT !.type = "manual"]]
          /\ call' = [call EXCEPT ![c] = [call[c] EXCEPT !.at = "gates"]]
          /\ rows[key] \in H!Row
      BY <1>7, <2>1, <2>2 DEF H!Mark, H!Goes, H!Holds
    <3>2. WritersOK(call')
      BY <2>1, <3>1, AnalysisTurns, WriterTurns
    <3>3. rows' \in [Keys -> H!Row \cup {H!None}] /\ H!ManualHolds
      BY <2>1, <3>1, RowChanged, OneRow
    <3> QED
      BY <2>1, <3>2, <3>3
  <2>3. CASE ~H!Holds(key, call[c].id)
    <3>1. call' = [call EXCEPT ![c] = H!Idle] /\ rows' = rows
      BY <1>7, <2>3 DEF H!Mark, H!Ends
    <3>2. WritersOK(call')
      BY <3>1, WriterTurns DEF H!Idle
    <3> QED
      BY <2>1, <3>1, <3>2 DEF H!ManualHolds
  <2> QED
    BY <2>2, <2>3
<1>8. ASSUME NEW c \in Callers, H!Outcome(c) PROVE HistoryInv' /\ H!ManualHolds
  <2> DEFINE key == call[c].key
  <2>1. call[c] \in Analyses /\ calls' = calls
    BY <1>8, AtWork DEF H!Outcome, H!At
  <2>2. key \in Keys /\ call[c].nr \in 0..MaxCalls["history"]
    BY <2>1, <1>0 DEF Analyses
  <2>3. call' = [call EXCEPT ![c] = H!Idle]
    BY <1>8 DEF H!Outcome, H!Ends
  <2>4. WritersOK(call')
    BY <2>3, WriterTurns DEF H!Idle
  <2>5. rows' \in [Keys -> H!Row \cup {H!None}] /\ H!ManualHolds
    <3>1. CASE key \notin Exits /\ H!Holds(key, call[c].id)
      <4>1. /\ rows' = [rows EXCEPT ![key] = [rows[key] EXCEPT !.execution = call[c].nr]]
            /\ rows[key] \in H!Row
        BY <1>8, <2>2, <3>1 DEF H!Outcome, H!Holds
      <4> DEFINE q == [rows[key] EXCEPT !.execution = call[c].nr]
      <4>2. q \in H!Row /\ q.type = rows[key].type /\ q.result = rows[key].result
        BY <4>1, <2>2, RowChanged
      <4> HIDE DEF q
      <4> QED
        BY <2>2, <4>1, <4>2, OneRow DEF q
    <3>2. CASE ~(key \notin Exits /\ H!Holds(key, call[c].id))
      <4>1. rows' = rows
        BY <1>8, <3>2 DEF H!Outcome
      <4> QED
        BY <4>1 DEF H!ManualHolds
    <3> QED
      BY <3>1, <3>2
  <2> QED
    BY <2>1, <2>4, <2>5
<1>9. ASSUME NEW c \in Callers, H!Fault(c) PROVE HistoryInv' /\ H!ManualHolds
  <2>1. call' = [call EXCEPT ![c] = H!Idle] /\ rows' = rows /\ calls' = calls
    BY <1>9 DEF H!Fault, H!Ends
  <2>2. WritersOK(call')
    BY <2>1, WriterTurns DEF H!Idle
  <2> QED
    BY <2>1, <2>2 DEF H!ManualHolds
<1> QED
  BY <1>1, <1>2, <1>3, <1>4, <1>5, <1>6, <1>7, <1>8, <1>9 DEF H!Next

\* Whatever passes, requests, exit monitors and deletions overlap, a manual
\* result and its mark are lost only with the row or to an old copy of it.
THEOREM ManualKept == Spec => ManualStays
<1> DEFINE Inv == part = "history" => HistoryInv
<1>1. Init => Inv
  BY ServicesAssumption DEF Init, H!Init, HistoryInv, WritersOK, H!Idle, Limited
<1>2. Inv /\ [Next]_all => Inv' /\ [part = "history" => H!ManualHolds]_all
  BY PartStep, HistoryStep
<1> QED
  BY <1>1, <1>2, PTL DEF Spec, ManualStays

-----------------------------------------------------------------------------
(* Strategies                                                              *)

Definitions == [Y!Fields -> Values]
Documents == [exists : {TRUE}, def : Definitions, on : BOOLEAN, badge : Y!Badges,
              column : BOOLEAN]
Numbered == [n : Nat \ {0}, def : Definitions]

\* The versions among the last Keep.
LastOf(vs) == {v \in vs : Cardinality({w \in vs : v.n < w.n}) < Keep}

\* What was saved has numbers of its own.
NumbersOK(vs, sv) ==
  /\ vs \subseteq sv /\ sv \subseteq Numbered /\ IsFiniteSet(sv)
  /\ \A v, w \in sv : v.n = w.n => v = w

\* The history of a strategy that is there has its last versions, and so the
\* newest of all, from which the next number is counted.
HistoryOK(vs, sv) ==
  /\ LastOf(sv) \subseteq vs
  /\ \E v \in vs : \A w \in sv : w.n <= v.n

Changes == [op : {"edit", "switch", "badge"}, id : Ids, doc : Documents, column : BOOLEAN]
Deletions == [op : {"delete"}, id : Ids, seen : SUBSET Numbered]

\* The edits that have not been written.
Editing(w) == {c \in Callers : w[c].op = "edit"}

\* Every definition that is saved or to be saved counts as one of saves.
Counting(w, sv, n) ==
  /\ IsFiniteSet(Editing(w)) /\ Cardinality(Editing(w)) <= n
  /\ \A s \in Ids : \A v \in sv[s] : v.n + Cardinality(Editing(w)) <= n

StrategiesInv ==
  /\ rows \in [Ids -> Documents \cup {Y!NoRow}]
  /\ versions \in [Ids -> SUBSET Numbered] /\ saved \in [Ids -> SUBSET Numbered]
  /\ call \in [Callers -> Changes \cup Deletions \cup {Y!Idle}]
  /\ \A s \in Ids : NumbersOK(versions[s], saved[s])
  /\ \A s \in Ids : rows[s].exists => HistoryOK(versions[s], saved[s])
  /\ saves \in 0..MaxSaves /\ calls \in 0..MaxCalls["strategies"]
  /\ Counting(call, saved, saves)

LEMMA SameCardinality == \A set : Y!Cardinality(set) = Cardinality(set)
BY DEF Y!Cardinality, Cardinality

LEMMA NextIs ==
  ASSUME NEW vs \in SUBSET Numbered
  PROVE  /\ vs = {} => Y!NextNumber(vs) = 1
         /\ \A v \in vs : (\A w \in vs : w.n <= v.n) => Y!NextNumber(vs) = v.n + 1
<1> DEFINE ns == {v.n : v \in vs} \cup {0}
<1>1. ns \subseteq Nat
  BY DEF Numbered
<1>2. ASSUME NEW k \in ns, \A y \in ns : k >= y PROVE Y!NextNumber(vs) = k + 1
  <2>1. Y!Max(ns) \in ns /\ \A y \in ns : Y!Max(ns) >= y
    BY <1>2 DEF Y!Max
  <2>3. Y!NextNumber(vs) = 1 + Y!Max(ns)
    BY DEF Y!NextNumber
  <2> HIDE DEF ns
  <2>2. Y!Max(ns) = k
    <3> DEFINE m == Y!Max(ns)
    <3>1. m \in ns /\ \A y \in ns : m >= y
      BY <2>1
    <3> HIDE DEF m
    <3>2. m \in Nat /\ k \in Nat /\ m >= k /\ k >= m
      BY <1>1, <1>2, <3>1
    <3>3. m = k
      BY <3>2
    <3> QED
      BY <3>3 DEF m
  <2> QED
    BY <1>1, <2>2, <2>3
<1>3. ASSUME vs = {} PROVE Y!NextNumber(vs) = 1
  <2>1. 0 \in ns /\ \A y \in ns : 0 >= y
    BY <1>3
  <2> HIDE DEF ns
  <2> QED
    BY <1>2, <2>1
<1>4. ASSUME NEW v \in vs, \A w \in vs : w.n <= v.n PROVE Y!NextNumber(vs) = v.n + 1
  <2>1. v.n \in ns /\ \A y \in ns : v.n >= y
    BY <1>4 DEF Numbered
  <2> HIDE DEF ns
  <2> QED
    BY <1>2, <2>1
<1> QED
  BY <1>3, <1>4

\* AppendVersion gives the next number, and prunes none of the last versions.
LEMMA AppendedIs ==
  ASSUME NEW vs, NEW sv, NumbersOK(vs, sv), HistoryOK(vs, sv) \/ sv = {},
         NEW d \in Definitions, NEW v, v = [n |-> Y!NextNumber(vs), def |-> d]
  PROVE  /\ NumbersOK(Y!Pruned(vs \cup {v}), sv \cup {v})
         /\ HistoryOK(Y!Pruned(vs \cup {v}), sv \cup {v})
         /\ v \in Numbered
         /\ v.n = 1 \/ \E w \in sv : v.n = w.n + 1
<1> DEFINE more == sv \cup {v}
           held == vs \cup {v}
<1>1. /\ v \in Numbered /\ \A w \in sv : w.n < v.n
      /\ v.n = 1 \/ \E w \in sv : v.n = w.n + 1
  <2>1. CASE sv = {}
    <3>1. v.n = 1
      BY <2>1, NextIs DEF NumbersOK
    <3> QED
      BY <2>1, <3>1 DEF Numbered
  <2>2. CASE HistoryOK(vs, sv)
    <3>1. PICK u \in vs : \A w \in sv : w.n <= u.n
      BY <2>2 DEF HistoryOK
    <3>2. vs \in SUBSET Numbered /\ u.n \in Nat \ {0} /\ \A w \in sv : w.n \in Nat \ {0}
      BY DEF NumbersOK, Numbered
    <3>3. Y!NextNumber(vs) = u.n + 1
      BY <3>1, <3>2, NextIs DEF NumbersOK
    <3>4. u \in sv /\ v.n = u.n + 1
      BY <3>3 DEF NumbersOK
    <3>5. \A w \in sv : w.n < v.n
      BY <3>1, <3>2, <3>4
    <3> QED
      BY <3>2, <3>4, <3>5 DEF Numbered
  <2> QED
    BY <2>1, <2>2
<1>2. IsFiniteSet(more) /\ held \subseteq more /\ more \subseteq Numbered
  BY <1>1, FS_AddElement DEF NumbersOK
<1>3. \A set \in SUBSET more : IsFiniteSet(set) /\ Cardinality(set) \in Nat
  BY <1>2, FS_Subset, FS_CardinalityType
<1>4. \A w \in more : w.n \in Nat \ {0}
  BY <1>2 DEF Numbered
<1>5. \A x \in held : x \in Y!Pruned(held) <=> Cardinality({w \in held : w.n > x.n}) < Keep
  BY SameCardinality DEF Y!Pruned
<1>6. NumbersOK(Y!Pruned(held), more)
  <2>1. Y!Pruned(held) \subseteq more
    BY <1>2 DEF Y!Pruned
  <2>2. \A x, w \in more : x.n = w.n => x = w
    BY <1>1, <1>4 DEF NumbersOK
  <2> QED
    BY <1>2, <2>1, <2>2 DEF NumbersOK
<1>7. ASSUME NEW x \in LastOf(more) PROVE x \in Y!Pruned(held)
  <2> DEFINE above == {w \in more : x.n < w.n}
  <2>1. x \in more /\ Cardinality(above) < Keep
    BY <1>7 DEF LastOf
  <2>2. Cardinality({w \in held : w.n > x.n}) < Keep
    <3>1. {w \in held : w.n > x.n} \subseteq above
      BY <1>2, <1>4, <2>1
    <3>2. /\ Cardinality({w \in held : w.n > x.n}) <= Cardinality(above)
          /\ Cardinality({w \in held : w.n > x.n}) \in Nat /\ Cardinality(above) \in Nat
      BY <1>3, <1>2, <3>1, FS_Subset
    <3> QED
      BY <2>1, <3>2, ServicesAssumption
  <2>3. ASSUME x \in sv PROVE x \in vs
    <3> DEFINE before == {w \in sv : x.n < w.n}
    <3>1. Cardinality(before) <= Cardinality(above)
      BY <1>3, FS_Subset
    <3>2. Cardinality(before) \in Nat /\ Cardinality(above) \in Nat
      BY <1>3
    <3>3. Cardinality(before) < Keep
      BY <2>1, <3>1, <3>2, ServicesAssumption
    <3> QED
      BY <2>3, <3>3 DEF LastOf, HistoryOK
  <2>4. x \in held
    BY <2>1, <2>3
  <2> QED
    BY <1>5, <2>2, <2>4
<1>8. v \in Y!Pruned(held) /\ \A w \in more : w.n <= v.n
  <2>1. \A w \in more : w.n <= v.n
    BY <1>1, <1>4
  <2>2. {w \in held : w.n > v.n} = {}
    <3>1. ASSUME NEW w \in held PROVE ~(w.n > v.n)
      <4>1. w \in more /\ w.n \in Nat /\ v.n \in Nat /\ w.n <= v.n
        BY <1>2, <1>4, <2>1
      <4> QED
        BY <4>1
    <3> QED
      BY <3>1
  <2>3. Cardinality({w \in held : w.n > v.n}) < Keep
    <3>1. Cardinality({}) = 0 /\ 0 < Keep
      BY FS_EmptySet, ServicesAssumption
    <3> QED
      BY <2>2, <3>1
  <2> QED
    BY <1>5, <2>1, <2>3
<1> QED
  BY <1>1, <1>6, <1>7, <1>8 DEF HistoryOK

LEMMA EditingTurns ==
  ASSUME NEW w, NEW E, w \in [Callers -> E], IsFiniteSet(Editing(w)), NEW c \in Callers, NEW q
  PROVE  LET now1 == Editing([w EXCEPT ![c] = q])
         IN /\ IsFiniteSet(now1) /\ Cardinality(now1) \in Nat /\ Cardinality(Editing(w)) \in Nat
            /\ w[c].op # "edit" /\ q.op # "edit" => now1 = Editing(w)
            /\ w[c].op # "edit" /\ q.op = "edit" => Cardinality(now1) = Cardinality(Editing(w)) + 1
            /\ w[c].op = "edit" /\ q.op # "edit" => Cardinality(now1) = Cardinality(Editing(w)) - 1
<1> DEFINE now1 == Editing([w EXCEPT ![c] = q])
<1>1. /\ q.op = "edit" => now1 = Editing(w) \cup {c}
      /\ q.op # "edit" => now1 = Editing(w) \ {c}
      /\ c \in Editing(w) <=> w[c].op = "edit"
  BY DEF Editing
<1> HIDE DEF now1
<1>2. IsFiniteSet(now1)
  BY <1>1, FS_AddElement, FS_RemoveElement
<1>3. Cardinality(now1) \in Nat /\ Cardinality(Editing(w)) \in Nat
  BY <1>2, FS_CardinalityType
<1>4. w[c].op # "edit" /\ q.op # "edit" => now1 = Editing(w)
  BY <1>1
<1>5. w[c].op # "edit" /\ q.op = "edit" => Cardinality(now1) = Cardinality(Editing(w)) + 1
  BY <1>1, FS_AddElement
<1>6. w[c].op = "edit" /\ q.op # "edit" => Cardinality(now1) = Cardinality(Editing(w)) - 1
  BY <1>1, FS_RemoveElement
<1> QED
  BY <1>2, <1>3, <1>4, <1>5, <1>6 DEF now1

\* A request that starts changes neither rows nor versions.
LEMMA StartsRequest ==
  ASSUME StrategiesInv, NEW c \in Callers, call[c] = Y!Idle, UNCHANGED <<rows, versions, saved>>,
         NEW q \in Changes \cup Deletions, call' = [call EXCEPT ![c] = q],
         \/ q.op = "edit" /\ saves < MaxSaves /\ saves' = saves + 1 /\ calls' = calls
         \/ /\ q.op # "edit" /\ calls < MaxCalls["strategies"]
            /\ calls' = calls + 1 /\ saves' = saves
  PROVE  StrategiesInv'
<1> DEFINE before == Cardinality(Editing(call))
           after == Cardinality(Editing(call'))
<1>1. call[c].op # "edit" /\ IsFiniteSet(Editing(call)) /\ call \in [Callers -> Changes \cup Deletions \cup {Y!Idle}]
  BY DEF Y!Idle, StrategiesInv, Counting
<1>2. IsFiniteSet(Editing(call')) /\ before \in Nat /\ after \in Nat
  BY <1>1, EditingTurns
<1>3. q.op # "edit" => after = before
  BY <1>1, EditingTurns
<1>4. q.op = "edit" => after = before + 1
  BY <1>1, EditingTurns
<1>5. saves' \in 0..MaxSaves /\ calls' \in 0..MaxCalls["strategies"] /\ saves \in Nat
  BY ServicesAssumption DEF StrategiesInv, Limited
<1> HIDE DEF before, after
<1>6. \A s \in Ids : \A v \in saved[s] : v.n \in Nat /\ v.n + before <= saves
  BY DEF StrategiesInv, Counting, Numbered, before
<1>7. before <= saves
  BY DEF StrategiesInv, Counting, before
<1>8. Counting(call', saved', saves')
  <2>1. after <= saves'
    BY <1>2, <1>3, <1>4, <1>5, <1>7
  <2>2. \A s \in Ids : \A v \in saved[s] : v.n + after <= saves'
    BY <1>2, <1>3, <1>4, <1>5, <1>6
  <2> QED
    BY <1>2, <2>1, <2>2 DEF Counting, after
<1>9. call' \in [Callers -> Changes \cup Deletions \cup {Y!Idle}]
  BY <1>1
<1> QED
  BY <1>5, <1>8, <1>9 DEF StrategiesInv

\* What a request makes of the document is a document.
LEMMA CopyIs ==
  ASSUME NEW doc \in Documents
  PROVE  /\ \A on \in BOOLEAN : Y!Switched(doc, on) \in Documents
         /\ \A badge \in Y!Badges : Y!Badged(doc, badge) \in Documents
         /\ \A fs \in SUBSET Y!Fields : \A given \in [fs -> Values] :
              Y!Edited(doc, given) \in Documents
<1>1. \A on \in BOOLEAN : Y!Switched(doc, on) \in Documents
  BY DEF Documents, Y!Switched
<1>2. \A badge \in Y!Badges : Y!Badged(doc, badge) \in Documents
  BY DEF Documents, Y!Badged
<1>3. ASSUME NEW fs \in SUBSET Y!Fields, NEW given \in [fs -> Values]
      PROVE  Y!Edited(doc, given) \in Documents
  <2> DEFINE d == [f \in Y!Fields |-> IF f \in DOMAIN given THEN given[f] ELSE doc.def[f]]
  <2>1. d \in Definitions
    BY DEF Documents, Definitions
  <2>2. Y!Edited(doc, given) = [doc EXCEPT !.def = d]
    BY DEF Y!Edited
  <2> HIDE DEF d
  <2> QED
    BY <2>1, <2>2 DEF Documents
<1> QED
  BY <1>1, <1>2, <1>3

LEMMA SyncedIs ==
  ASSUME NEW r \in Documents, NEW k \in Changes
  PROVE  Y!Synced(r, k) \in Documents
BY DEF Documents, Changes, Y!Synced

\* AppendVersion, when the strategy is there or has just been made.
LEMMA AppendStep ==
  ASSUME StrategiesInv, NEW s \in Ids, NEW d \in Definitions, Y!AppendVersion(s, d),
         rows[s].exists \/ saved[s] = {}
  PROVE  /\ versions' \in [Ids -> SUBSET Numbered] /\ saved' \in [Ids -> SUBSET Numbered]
         /\ \A i \in Ids : NumbersOK(versions'[i], saved'[i])
         /\ HistoryOK(versions'[s], saved'[s])
         /\ \A i \in Ids \ {s} : versions'[i] = versions[i] /\ saved'[i] = saved[i]
         /\ \A v \in saved'[s] : v \in saved[s] \/ v.n = 1 \/ \E w \in saved[s] : v.n = w.n + 1
<1> DEFINE new == [n |-> Y!NextNumber(versions[s]), def |-> d]
           vs == Y!Pruned(versions[s] \cup {new})
           sv == saved[s] \cup {new}
<1>1. versions' = [versions EXCEPT ![s] = vs] /\ saved' = [saved EXCEPT ![s] = sv]
  BY DEF Y!AppendVersion
<1>2. NumbersOK(versions[s], saved[s]) /\ (HistoryOK(versions[s], saved[s]) \/ saved[s] = {})
  BY DEF StrategiesInv
<1>3. /\ NumbersOK(vs, sv) /\ HistoryOK(vs, sv) /\ new \in Numbered
      /\ new.n = 1 \/ \E w \in saved[s] : new.n = w.n + 1
  <2> HIDE DEF vs, sv
  <2>1. \A e : e = new =>
          /\ NumbersOK(Y!Pruned(versions[s] \cup {e}), saved[s] \cup {e})
          /\ HistoryOK(Y!Pruned(versions[s] \cup {e}), saved[s] \cup {e})
          /\ e \in Numbered /\ (e.n = 1 \/ \E w \in saved[s] : e.n = w.n + 1)
    BY <1>2, AppendedIs
  <2> HIDE DEF new
  <2> QED
    BY <2>1 DEF vs, sv
<1>4. sv \in SUBSET Numbered /\ vs \in SUBSET Numbered
  BY <1>3 DEF NumbersOK
<1>5. versions \in [Ids -> SUBSET Numbered] /\ saved \in [Ids -> SUBSET Numbered]
  BY DEF StrategiesInv
<1>6. \A v \in sv : v \in saved[s] \/ v = new
  OBVIOUS
<1> HIDE DEF vs, sv, new
<1>7. versions'[s] = vs /\ saved'[s] = sv
  BY <1>1, <1>5
<1>8. \A i \in Ids \ {s} : versions'[i] = versions[i] /\ saved'[i] = saved[i]
  BY <1>1, <1>5
<1>9. \A i \in Ids : NumbersOK(versions'[i], saved'[i])
  BY <1>3, <1>7, <1>8 DEF StrategiesInv
<1>10. versions' \in [Ids -> SUBSET Numbered] /\ saved' \in [Ids -> SUBSET Numbered]
  BY <1>1, <1>4, <1>5
<1>11. \A v \in saved'[s] : v \in saved[s] \/ v.n = 1 \/ \E w \in saved[s] : v.n = w.n + 1
  BY <1>3, <1>6, <1>7
<1> QED
  BY <1>3, <1>7, <1>8, <1>9, <1>10, <1>11

LEMMA CreateStep ==
  ASSUME StrategiesInv, NEW s \in Ids, NEW on \in BOOLEAN, Y!Create(s, on)
  PROVE  StrategiesInv'
<1>1. /\ rows[s] = Y!NoRow /\ saved[s] = {} /\ saves < MaxSaves /\ saves' = saves + 1
      /\ UNCHANGED <<call, calls>>
  BY DEF Y!Create
<1>2. PICK d \in Definitions : /\ rows' = [rows EXCEPT ![s] = Y!Row(d, on, "not_run", on)]
                               /\ Y!AppendVersion(s, d)
  BY DEF Y!Create, Definitions
<1>3. Y!Row(d, on, "not_run", on) \in Documents
  BY DEF Y!Row, Documents, Y!Badges
<1>4. /\ versions' \in [Ids -> SUBSET Numbered] /\ saved' \in [Ids -> SUBSET Numbered]
      /\ \A i \in Ids : NumbersOK(versions'[i], saved'[i])
      /\ HistoryOK(versions'[s], saved'[s])
      /\ \A i \in Ids \ {s} : versions'[i] = versions[i] /\ saved'[i] = saved[i]
      /\ \A v \in saved'[s] : v.n = 1
  BY <1>1, <1>2, AppendStep
<1>5. rows' \in [Ids -> Documents \cup {Y!NoRow}] /\ \A i \in Ids \ {s} : rows'[i] = rows[i]
  BY <1>2, <1>3 DEF StrategiesInv
<1>6. \A i \in Ids : rows'[i].exists => HistoryOK(versions'[i], saved'[i])
  BY <1>4, <1>5 DEF StrategiesInv
<1>7. saves \in Nat /\ saves' \in 0..MaxSaves
  BY <1>1, ServicesAssumption DEF StrategiesInv
<1>8. Counting(call', saved', saves')
  <2> DEFINE e == Cardinality(Editing(call))
  <2>1. IsFiniteSet(Editing(call)) /\ e \in Nat /\ e <= saves
    BY FS_CardinalityType DEF StrategiesInv, Counting
  <2>2. \A i \in Ids : \A v \in saved[i] : v.n \in Nat /\ v.n + e <= saves
    BY DEF StrategiesInv, Counting, Numbered
  <2> HIDE DEF e
  <2>3. ASSUME NEW i \in Ids, NEW v \in saved'[i] PROVE v.n + e <= saves + 1
    <3>1. CASE i = s
      BY <3>1, <2>1, <2>3, <1>4, <1>7
    <3>2. CASE i # s
      <4>1. v.n \in Nat /\ v.n + e <= saves
        BY <3>2, <2>2, <2>3, <1>4
      <4> QED
        BY <4>1, <2>1, <1>7
    <3> QED
      BY <3>1, <3>2
  <2> QED
    BY <2>1, <2>3, <1>1, <1>7 DEF Counting, e
<1> QED
  BY <1>1, <1>4, <1>5, <1>6, <1>7, <1>8 DEF StrategiesInv

LEMMA WriteStep == ASSUME StrategiesInv, NEW c \in Callers, Y!Write(c) PROVE StrategiesInv'
<1> DEFINE k == call[c]
           e == Cardinality(Editing(call))
           e1 == Cardinality(Editing(call'))
<1>1. k \in Changes /\ call' = [call EXCEPT ![c] = Y!Idle] /\ UNCHANGED <<saves, calls>>
  BY DEF Y!Write, StrategiesInv, Deletions, Y!Idle
<1>2. call \in [Callers -> Changes \cup Deletions \cup {Y!Idle}] /\ IsFiniteSet(Editing(call))
  BY DEF StrategiesInv, Counting
<1>3. call' \in [Callers -> Changes \cup Deletions \cup {Y!Idle}] /\ Y!Idle.op # "edit"
  BY <1>1, <1>2 DEF Y!Idle
<1>4. /\ IsFiniteSet(Editing(call')) /\ e \in Nat /\ e1 \in Nat
      /\ k.op # "edit" => e1 = e
      /\ k.op = "edit" => e1 = e - 1
  BY <1>1, <1>2, <1>3, EditingTurns
<1>5. e <= saves /\ saves \in Nat /\ \A i \in Ids : \A v \in saved[i] : v.n \in Nat /\ v.n + e <= saves
  BY DEF StrategiesInv, Counting, Numbered
<1> HIDE DEF e, e1
<1>8. e1 <= saves
  BY <1>4, <1>5
<1>6. CASE UNCHANGED <<rows, versions, saved>>
  <2>1. \A i \in Ids : \A v \in saved'[i] : v.n + e1 <= saves'
    BY <1>1, <1>4, <1>5, <1>6
  <2>2. Counting(call', saved', saves')
    BY <1>1, <1>4, <1>8, <2>1 DEF Counting, e1
  <2> QED
    BY <1>1, <1>3, <1>6, <2>2 DEF StrategiesInv
<1>7. CASE rows[k.id].exists /\ rows' = [rows EXCEPT ![k.id] = Y!Synced(rows[k.id], k)]
  <2>1. k.id \in Ids /\ rows[k.id] \in Documents
    BY <1>1, <1>7 DEF Changes, StrategiesInv, Y!NoRow
  <2>2. Y!Synced(rows[k.id], k) \in Documents
    BY <1>1, <2>1, SyncedIs
  <2>3. rows' \in [Ids -> Documents \cup {Y!NoRow}] /\ \A i \in Ids \ {k.id} : rows'[i] = rows[i]
    BY <1>7, <2>2 DEF StrategiesInv
  <2>4. CASE k.op = "edit"
    <3>1. Y!AppendVersion(k.id, k.doc.def) /\ k.doc.def \in Definitions
      BY <1>1, <1>7, <2>4 DEF Y!Write, Changes, Documents
    <3>2. /\ versions' \in [Ids -> SUBSET Numbered] /\ saved' \in [Ids -> SUBSET Numbered]
          /\ \A i \in Ids : NumbersOK(versions'[i], saved'[i])
          /\ HistoryOK(versions'[k.id], saved'[k.id])
          /\ \A i \in Ids \ {k.id} : versions'[i] = versions[i] /\ saved'[i] = saved[i]
          /\ \A v \in saved'[k.id] :
               v \in saved[k.id] \/ v.n = 1 \/ \E w \in saved[k.id] : v.n = w.n + 1
      BY <1>7, <2>1, <3>1, AppendStep
    <3>3. \A i \in Ids : rows'[i].exists => HistoryOK(versions'[i], saved'[i])
      BY <2>3, <3>2 DEF StrategiesInv
    <3>4. ASSUME NEW i \in Ids, NEW v \in saved'[i] PROVE v.n + e1 <= saves
      <4>1. e1 = e - 1 /\ e1 \in Nat /\ e \in Nat
        BY <1>4, <2>4
      <4>2. CASE v \in saved[i]
        BY <4>1, <4>2, <1>5
      <4>3. CASE v.n = 1
        BY <4>1, <4>3, <1>5
      <4>4. CASE \E w \in saved[i] : v.n = w.n + 1
        BY <4>1, <4>4, <1>5
      <4> QED
        BY <3>2, <3>4, <4>2, <4>3, <4>4
    <3>5. Counting(call', saved', saves')
      BY <1>1, <1>4, <1>8, <3>4 DEF Counting, e1
    <3> QED
      BY <1>1, <1>3, <2>3, <3>2, <3>3, <3>5 DEF StrategiesInv
  <2>5. CASE k.op # "edit"
    <3>1. UNCHANGED <<versions, saved>>
      BY <1>7, <2>5 DEF Y!Write
    <3>2. \A i \in Ids : rows'[i].exists => HistoryOK(versions'[i], saved'[i])
      BY <1>7, <2>1, <2>3, <3>1 DEF StrategiesInv
    <3>3. Counting(call', saved', saves')
      BY <1>1, <1>4, <1>5, <2>5, <3>1 DEF Counting, e1
    <3> QED
      BY <1>1, <1>3, <2>3, <3>1, <3>2, <3>3 DEF StrategiesInv
  <2> QED
    BY <2>4, <2>5
<1> QED
  BY <1>6, <1>7 DEF Y!Write

LEMMA DeleteRowStep ==
  ASSUME StrategiesInv, NEW c \in Callers, Y!DeleteRow(c)
  PROVE  StrategiesInv'
<1> DEFINE k == call[c]
<1>1. /\ k \in Deletions /\ call' = [call EXCEPT ![c] = Y!Idle] /\ UNCHANGED <<saved, saves, calls>>
      /\ rows' = [rows EXCEPT ![k.id] = Y!NoRow]
      /\ versions' = [versions EXCEPT ![k.id] = versions[k.id] \ k.seen]
  BY DEF Y!DeleteRow, StrategiesInv, Changes, Y!Idle
<1>2. k.id \in Ids /\ k.op = "delete"
  BY <1>1 DEF Deletions
<1>3. call \in [Callers -> Changes \cup Deletions \cup {Y!Idle}] /\ IsFiniteSet(Editing(call))
  BY DEF StrategiesInv, Counting
<1>4. Y!Idle.op # "edit"
  BY DEF Y!Idle
<1>5. Editing(call') = Editing(call)
  BY <1>1, <1>2, <1>3, <1>4, EditingTurns
<1>6. Counting(call', saved', saves')
  BY <1>1, <1>5 DEF Counting, StrategiesInv
<1>7. /\ versions' \in [Ids -> SUBSET Numbered] /\ rows' \in [Ids -> Documents \cup {Y!NoRow}]
      /\ call' \in [Callers -> Changes \cup Deletions \cup {Y!Idle}]
  BY <1>1, <1>2, <1>3 DEF StrategiesInv
<1>8. \A i \in Ids : NumbersOK(versions'[i], saved'[i])
  BY <1>1, <1>2 DEF StrategiesInv, NumbersOK
<1>9. \A i \in Ids : rows'[i].exists => HistoryOK(versions'[i], saved'[i])
  BY <1>1, <1>2 DEF StrategiesInv, Y!NoRow
<1> QED
  BY <1>1, <1>6, <1>7, <1>8, <1>9 DEF StrategiesInv

LEMMA StrategiesStepInv ==
  ASSUME StrategiesInv, [Y!Next]_Y!vars
  PROVE  StrategiesInv'
<1>1. CASE UNCHANGED Y!vars
  BY <1>1 DEF Y!vars, StrategiesInv, Counting
<1>2. ASSUME NEW c \in Callers, NEW s \in Ids,
             Y!Edit(c, s) \/ Y!Switch(c, s) \/ Y!SetBadge(c, s) \/ Y!DeleteVersions(c, s)
      PROVE  StrategiesInv'
  <2>1. /\ call[c] = Y!Idle /\ rows[s].exists /\ UNCHANGED <<rows, versions, saved>>
    BY <1>2 DEF Y!Edit, Y!Switch, Y!SetBadge, Y!DeleteVersions
  <2>2. rows[s] \in Documents /\ rows[s].column \in BOOLEAN
    <3>1. ~Y!NoRow.exists
      BY DEF Y!NoRow
    <3>2. rows[s] \in Documents
      BY <2>1, <3>1 DEF StrategiesInv
    <3> QED
      BY <3>2 DEF Documents
  <2>3. ASSUME NEW op \in {"edit", "switch", "badge"}, NEW doc \in Documents
        PROVE  [op |-> op, id |-> s, doc |-> doc, column |-> rows[s].column] \in Changes
    BY <2>2 DEF Changes
  <2>4. CASE Y!Edit(c, s)
    <3>1. PICK fs \in SUBSET Y!Fields : \E given \in [fs -> Values] :
             Y!Takes(c, "edit", s, Y!Edited(rows[s], given))
      BY <2>4 DEF Y!Edit
    <3>2. PICK given \in [fs -> Values] : Y!Takes(c, "edit", s, Y!Edited(rows[s], given))
      BY <3>1
    <3> DEFINE q == [op |-> "edit", id |-> s, doc |-> Y!Edited(rows[s], given),
                     column |-> rows[s].column]
    <3>3. q \in Changes /\ q.op = "edit" /\ call' = [call EXCEPT ![c] = q]
      BY <2>2, <2>3, <3>2, CopyIs DEF Y!Takes
    <3>4. saves < MaxSaves /\ saves' = saves + 1 /\ calls' = calls
      BY <2>4 DEF Y!Edit
    <3> HIDE DEF q
    <3> QED
      BY <2>1, <3>3, <3>4, StartsRequest
  <2>5. CASE Y!Switch(c, s)
    <3>1. PICK on \in BOOLEAN : Y!Takes(c, "switch", s, Y!Switched(rows[s], on))
      BY <2>5 DEF Y!Switch
    <3> DEFINE q == [op |-> "switch", id |-> s, doc |-> Y!Switched(rows[s], on),
                     column |-> rows[s].column]
    <3>2. q \in Changes /\ q.op # "edit" /\ call' = [call EXCEPT ![c] = q]
      BY <2>2, <2>3, <3>1, CopyIs DEF Y!Takes
    <3>3. calls < MaxCalls["strategies"] /\ calls' = calls + 1 /\ saves' = saves
      BY <2>5 DEF Y!Switch
    <3> HIDE DEF q
    <3> QED
      BY <2>1, <3>2, <3>3, StartsRequest
  <2>6. CASE Y!SetBadge(c, s)
    <3>1. PICK badge \in Y!Badges : Y!Takes(c, "badge", s, Y!Badged(rows[s], badge))
      BY <2>6 DEF Y!SetBadge
    <3> DEFINE q == [op |-> "badge", id |-> s, doc |-> Y!Badged(rows[s], badge),
                     column |-> rows[s].column]
    <3>2. q \in Changes /\ q.op # "edit" /\ call' = [call EXCEPT ![c] = q]
      BY <2>2, <2>3, <3>1, CopyIs DEF Y!Takes
    <3>3. calls < MaxCalls["strategies"] /\ calls' = calls + 1 /\ saves' = saves
      BY <2>6 DEF Y!SetBadge
    <3> HIDE DEF q
    <3> QED
      BY <2>1, <3>2, <3>3, StartsRequest
  <2>7. CASE Y!DeleteVersions(c, s)
    <3> DEFINE q == [op |-> "delete", id |-> s, seen |-> versions[s]]
    <3>1. q \in Deletions /\ q.op # "edit" /\ call' = [call EXCEPT ![c] = q]
      BY <2>7 DEF Y!DeleteVersions, Deletions, StrategiesInv
    <3>2. calls < MaxCalls["strategies"] /\ calls' = calls + 1 /\ saves' = saves
      BY <2>7 DEF Y!DeleteVersions
    <3> HIDE DEF q
    <3> QED
      BY <2>1, <3>1, <3>2, StartsRequest
  <2> QED
    BY <1>2, <2>4, <2>5, <2>6, <2>7
<1> QED
  BY <1>1, <1>2, CreateStep, WriteStep, DeleteRowStep DEF Y!Next

\* Whatever edits, switches, badges and deletions overlap, the last Keep versions
\* of a strategy that is there are in its history under numbers of their own.
THEOREM VersionsKept == Spec => []SavedKept
<1> DEFINE Inv == part = "strategies" => StrategiesInv
<1>1. Init => Inv
  <2>1. ASSUME Y!Init PROVE StrategiesInv
    <3>1. Editing(call) = {}
      BY <2>1 DEF Y!Init, Y!Idle, Editing
    <3>2. Counting(call, saved, saves)
      BY <2>1, <3>1, FS_EmptySet DEF Y!Init, Counting
    <3>3. \A s \in Ids : NumbersOK(versions[s], saved[s])
      BY <2>1, FS_EmptySet DEF Y!Init, NumbersOK
    <3> QED
      BY <2>1, <3>2, <3>3, ServicesAssumption DEF Y!Init, Y!NoRow, StrategiesInv, Limited
  <2> QED
    BY <2>1 DEF Init
<1>2. Inv /\ [Next]_all => Inv'
  BY PartStep, StrategiesStepInv
<1>3. Inv => SavedKept
  <2> SUFFICES ASSUME StrategiesInv PROVE Y!TypeOK /\ Y!SavedKept
    BY DEF SavedKept
  <2>1. ASSUME NEW s \in Ids
        PROVE  saved[s] \subseteq [n : 1..MaxSaves, def : [Y!Fields -> Values]]
    <3> SUFFICES ASSUME NEW v \in saved[s] PROVE v \in [n : 1..MaxSaves, def : Definitions]
      BY DEF Definitions
    <3>1. v \in Numbered
      BY DEF StrategiesInv
    <3>2. v.n \in Nat \ {0}
      BY <3>1 DEF Numbered
    <3>3. Cardinality(Editing(call)) \in Nat /\ v.n + Cardinality(Editing(call)) <= saves
      BY FS_CardinalityType DEF StrategiesInv, Counting
    <3>4. saves \in 0..MaxSaves /\ MaxSaves \in Nat
      BY ServicesAssumption DEF StrategiesInv
    <3>5. v.n \in 1..MaxSaves
      BY <3>2, <3>3, <3>4
    <3> QED
      BY <3>1, <3>5 DEF Numbered
  <2>2. \A s \in Ids : rows[s] = Y!NoRow \/ rows[s] \in [exists : {TRUE}, def : [Y!Fields -> Values],
           on : BOOLEAN, badge : Y!Badges, column : BOOLEAN]
    BY DEF StrategiesInv, Documents, Definitions
  <2>3. Y!TypeOK
    BY <2>1, <2>2 DEF Y!TypeOK, StrategiesInv, NumbersOK
  <2>4. Y!SavedKept
    <3> SUFFICES ASSUME NEW s \in Ids, rows[s].exists
                 PROVE  /\ \A v, w \in saved[s] : v.n = w.n => v = w
                        /\ {v \in saved[s] : Cardinality({w \in saved[s] : v.n < w.n}) < Keep}
                             \subseteq versions[s]
      BY SameCardinality DEF Y!SavedKept
    <3> QED
      BY DEF StrategiesInv, NumbersOK, HistoryOK, LastOf
  <2> QED
    BY <2>3, <2>4
<1> QED
  BY <1>1, <1>2, <1>3, PTL DEF Spec

-----------------------------------------------------------------------------
(* Feedback                                                                *)

Suggestions == [path : Int, to : Int, priority : Int]

\* Applicable: valid, and each path once.
OfferOK(list) ==
  /\ \A i \in DOMAIN list : list[i].path \in Paths /\ list[i].to \in Low..High
  /\ \A i, j \in DOMAIN list : list[i].path = list[j].path => i = j

LEMMA SameCount == \A set : F!Cardinality(set) = Cardinality(set)
BY DEF F!Cardinality, Cardinality

\* The suggestions that come before one.
Earlier(best, x) == {y \in best : F!Before(y, x)}

\* Suggestions of different paths are ordered.
LEMMA BeforeOrders ==
  ASSUME NEW best \in SUBSET Suggestions, \A x, y \in best : x.path = y.path => x = y
  PROVE  /\ \A x \in best : ~F!Before(x, x)
         /\ \A x, y \in best : x # y => F!Before(x, y) \/ F!Before(y, x)
         /\ \A x, y, z \in best : F!Before(x, y) /\ F!Before(y, z) => F!Before(x, z)
<1>1. \A x \in best : F!Rank(x) \in Int /\ x.path \in Int
  BY DEF F!Rank, Suggestions
<1>2. \A x \in best : ~F!Before(x, x)
  BY <1>1 DEF F!Before
<1>3. \A x, y \in best : x # y => F!Before(x, y) \/ F!Before(y, x)
  BY <1>1 DEF F!Before
<1>4. \A x, y, z \in best : F!Before(x, y) /\ F!Before(y, z) => F!Before(x, z)
  BY <1>1 DEF F!Before
<1> QED
  BY <1>2, <1>3, <1>4

\* A finite set that is ordered can be listed in order.
LEMMA Listing ==
  ASSUME NEW best, IsFiniteSet(best),
         \A x \in best : ~F!Before(x, x),
         \A x, y \in best : x # y => F!Before(x, y) \/ F!Before(y, x),
         \A x, y, z \in best : F!Before(x, y) /\ F!Before(y, z) => F!Before(x, z)
  PROVE  \E list \in [1..Cardinality(best) -> best] :
            \A i, j \in DOMAIN list : i < j => F!Before(list[i], list[j])
<1> DEFINE n == Cardinality(best)
           place == [x \in best |-> Cardinality(Earlier(best, x)) + 1]
<1>1. n \in Nat /\ IsFiniteSet(1..n) /\ Cardinality(1..n) = n
  <2>1. n \in Nat
    BY FS_CardinalityType
  <2> QED
    BY <2>1, FS_Interval
<1>2. \A x \in best : IsFiniteSet(Earlier(best, x)) /\ Cardinality(Earlier(best, x)) \in Nat
  <2>1. \A x \in best : Earlier(best, x) \in SUBSET best
    BY DEF Earlier
  <2> QED
    BY <2>1, FS_Subset, FS_CardinalityType
<1>3. ASSUME NEW x \in best PROVE place[x] \in 1..n
  <2>1. IsFiniteSet(best \ {x}) /\ Cardinality(best \ {x}) = n - 1
    BY FS_RemoveElement
  <2>2. Earlier(best, x) \subseteq best \ {x}
    BY DEF Earlier
  <2>3. Cardinality(Earlier(best, x)) <= n - 1
    BY <2>1, <2>2, FS_Subset
  <2> QED
    BY <1>1, <1>2, <2>3
<1>4. ASSUME NEW x \in best, NEW y \in best, F!Before(x, y) PROVE place[x] < place[y]
  <2>1. x \notin Earlier(best, x) /\ Earlier(best, x) \cup {x} \subseteq Earlier(best, y)
    BY <1>4 DEF Earlier
  <2>2. Cardinality(Earlier(best, x) \cup {x}) = Cardinality(Earlier(best, x)) + 1
    BY <1>2, <2>1, FS_AddElement
  <2>3. Cardinality(Earlier(best, x) \cup {x}) <= Cardinality(Earlier(best, y))
    BY <1>2, <2>1, FS_Subset
  <2> QED
    BY <1>2, <2>2, <2>3
<1>5. place \in Injection(best, 1..n)
  <2>1. place \in [best -> 1..n]
    BY <1>3
  <2>2. \A x \in best : place[x] \in Nat
    BY <1>3
  <2> HIDE DEF place
  <2>3. ASSUME NEW x \in best, NEW y \in best, place[x] = place[y] PROVE x = y
    BY <1>4, <2>2, <2>3
  <2> QED
    BY <2>1, <2>3 DEF Injection, IsInjective
<1>6. place \in Surjection(best, 1..n)
  BY <1>1, <1>5, FS_Injection
<1> HIDE DEF place
<1>7. \A i \in 1..n : \E x \in best : place[x] = i
  BY <1>6 DEF Surjection
<1> DEFINE list == [i \in 1..n |-> CHOOSE x \in best : place[x] = i]
<1>8. \A i \in 1..n : list[i] \in best /\ place[list[i]] = i
  BY <1>7
<1>9. list \in [1..n -> best]
  BY <1>8
<1> HIDE DEF list
<1>10. ASSUME NEW i \in 1..n, NEW j \in 1..n, i < j PROVE F!Before(list[i], list[j])
  <2>1. list[i] # list[j]
    BY <1>8, <1>10
  <2>2. CASE F!Before(list[j], list[i])
    <3>1. j < i
      BY <1>4, <1>8, <2>2
    <3> QED
      BY <1>1, <1>10, <3>1
  <2> QED
    BY <1>8, <2>1, <2>2
<1> QED
  BY <1>9, <1>10

\* What is stored of an answer can be applied, whatever the model wrote.
LEMMA NormalizedIs ==
  ASSUME NEW raw \in Raw
  PROVE  OfferOK(F!Normalized(raw))
<1> DEFINE first == {i \in DOMAIN raw : /\ F!Valid(raw[i])
                                        /\ \A j \in 1..(i - 1) :
                                             F!Valid(raw[j]) => raw[j].path # raw[i].path}
           best == {raw[i] : i \in first}
           lists == [1..Cardinality(best) -> best]
           Sorted(list) == \A i, j \in DOMAIN list : i < j => F!Before(list[i], list[j])
<1>1. raw \in Seq(Suggestions) /\ first \subseteq 1..Len(raw) /\ Len(raw) \in Nat
  <2>1. Raw \subseteq Seq(Suggestions)
    BY ServicesAssumption, Zenon DEF Suggestions
  <2>2. raw \in Seq(Suggestions)
    BY <2>1
  <2>3. DOMAIN raw = 1..Len(raw) /\ Len(raw) \in Nat
    BY <2>2
  <2> QED
    BY <2>2, <2>3
<1>2. best \in SUBSET Suggestions /\ \A x \in best : F!Valid(x)
  BY <1>1
<1>3. IsFiniteSet(best)
  <2>1. IsFiniteSet(first)
    BY <1>1, FS_Interval, FS_Subset
  <2> DEFINE of == [i \in first |-> raw[i]]
  <2> HIDE DEF first
  <2>2. of \in Surjection(first, best)
    BY DEF Surjection
  <2> QED
    BY <2>1, <2>2, FS_Surjection
<1>4. \A x, y \in best : x.path = y.path => x = y
  <2> SUFFICES ASSUME NEW i \in first, NEW j \in first, raw[i].path = raw[j].path
               PROVE  i = j
    OBVIOUS
  <2>1. i \in Nat \ {0} /\ j \in Nat \ {0}
    BY <1>1
  <2> QED
    BY <2>1
<1>5. F!Normalized(raw) = CHOOSE list \in lists : Sorted(list)
  BY SameCount DEF F!Normalized
<1> HIDE DEF best, first
<1>6. \E list \in lists : Sorted(list)
  BY <1>2, <1>3, <1>4, BeforeOrders, Listing
<1> HIDE DEF Sorted
<1>7. F!Normalized(raw) \in lists /\ Sorted(F!Normalized(raw))
  BY <1>5, <1>6
<1> DEFINE list == F!Normalized(raw)
<1>8. list \in lists /\ Sorted(list)
  BY <1>7
<1> HIDE DEF list
<1>9. \A i \in DOMAIN list : list[i] \in best
  BY <1>8
<1>10. ASSUME NEW i \in DOMAIN list, NEW j \in DOMAIN list, list[i].path = list[j].path
       PROVE  i = j
  <2>1. i \in Int /\ j \in Int /\ list[i] = list[j] /\ list[i] \in best
    BY <1>4, <1>8, <1>9, <1>10
  <2>2. ~F!Before(list[i], list[j]) /\ ~F!Before(list[j], list[i])
    BY <1>2, <1>4, <2>1, BeforeOrders
  <2>3. ~(i < j) /\ ~(j < i)
    BY <1>8, <2>2 DEF Sorted
  <2> QED
    BY <2>1, <2>3
<1> QED
  BY <1>2, <1>9, <1>10 DEF OfferOK, F!Valid, list


Queried == [pc : {"auto", "begin"}, run : Runs]
Working == [pc : {"check", "mark", "settings", "running", "asking", "unsaved", "raised"},
            run : Runs, seen : F!Statuses \cup {"gone"}]
Answering == [pc : {"save", "unsaved", "raised"}, run : Runs, raw : Raw]
Feeding == Queried \cup Working \cup Answering \cup {F!Idle}

\* From the mark to the last write a job holds its run.
Holding(r) == r.pc \in {"mark", "settings", "running", "asking", "save", "unsaved"}

HoldersOK(w, held) ==
  /\ w \in [Callers -> Feeding] /\ held \subseteq Runs
  /\ \A c \in Callers : Holding(w[c]) => w[c].run \in held
  /\ \A c, d \in Callers : c # d /\ Holding(w[c]) /\ Holding(w[d]) => w[c].run # w[d].run

\* What a model is being asked about is not completed.
AskingOK(w, st) == \A c \in Callers : w[c].pc = "asking" => st[w[c].run] # "completed"

StoredOK(st, sg) ==
  /\ st \in [Runs -> F!Statuses \cup {"gone"}]
  /\ DOMAIN sg = Runs /\ \A r \in Runs : OfferOK(sg[r])

Limits ==
  /\ ready \in BOOLEAN /\ calls \in 0..MaxCalls["feedback"]
  /\ faults \in 0..MaxFaults["feedback"] /\ crashes \in 0..MaxCrashes

FeedbackInv ==
  /\ HoldersOK(call, inflight) /\ AskingOK(call, status) /\ StoredOK(status, suggestions)
  /\ Limits

LEMMA FeedingTurns ==
  ASSUME NEW r \in Feeding, r.pc # "idle", NEW to,
         \/ r.pc \in {"check", "mark", "settings", "running", "asking", "unsaved"} /\ to = "raised"
         \/ r.pc = "auto" /\ to = "begin"
         \/ r.pc = "check" /\ to = "mark"
         \/ r.pc = "mark" /\ to = "settings"
         \/ r.pc = "settings" /\ to = "running"
         \/ r.pc = "running" /\ to = "asking"
         \/ r.pc = "asking" /\ to = "unsaved"
         \/ r.pc = "save" /\ to = "unsaved"
  PROVE  /\ [r EXCEPT !.pc = to] \in Feeding \ {F!Idle}
         /\ [r EXCEPT !.pc = to].pc = to /\ [r EXCEPT !.pc = to].run = r.run
<1>1. CASE r \in Queried
  BY <1>1 DEF Feeding, Queried, F!Idle
<1>2. CASE r \in Working
  BY <1>2 DEF Feeding, Working, F!Idle
<1>3. CASE r \in Answering
  BY <1>3 DEF Feeding, Answering, F!Idle
<1> QED
  BY <1>1, <1>2, <1>3 DEF Feeding, F!Idle

LEMMA HoldersTurn ==
  ASSUME HoldersOK(call, inflight), NEW c \in Callers, NEW q \in Feeding,
         call' = [call EXCEPT ![c] = q],
         \/ /\ Holding(q) /\ Holding(call[c]) /\ q.run = call[c].run /\ inflight' = inflight
         \/ /\ Holding(q) /\ q.run \in Runs \ inflight /\ inflight' = inflight \cup {q.run}
         \/ ~Holding(q) /\ inflight' = inflight
         \/ ~Holding(q) /\ Holding(call[c]) /\ inflight' = inflight \ {call[c].run}
  PROVE  HoldersOK(call', inflight')
<1>1. call'[c] = q /\ \A d \in Callers \ {c} : call'[d] = call[d]
  BY DEF HoldersOK
<1>2. call' \in [Callers -> Feeding] /\ inflight' \subseteq Runs
  BY DEF HoldersOK
<1>3. \A d \in Callers : Holding(call'[d]) => call'[d].run \in inflight'
  BY <1>1 DEF HoldersOK
<1>4. \A d, e \in Callers : d # e /\ Holding(call'[d]) /\ Holding(call'[e]) => call'[d].run # call'[e].run
  BY <1>1 DEF HoldersOK
<1> QED
  BY <1>2, <1>3, <1>4 DEF HoldersOK

LEMMA PutIs ==
  ASSUME StoredOK(status, suggestions), NEW r \in Runs, NEW st \in F!Statuses, NEW list,
         OfferOK(list), F!Put(r, st, list)
  PROVE  /\ StoredOK(status', suggestions')
         /\ status'[r] \in {st, "gone"}
         /\ \A i \in Runs \ {r} : status'[i] = status[i]
BY DEF F!Put, StoredOK, F!Statuses

LEMMA NothingOffered == OfferOK(<<>>)
BY DEF OfferOK

\* How the step of a job may change what it holds.
Held(c, q) ==
  \/ /\ Holding(q) /\ Holding(call[c]) /\ q.run = call[c].run /\ inflight' = inflight
  \/ /\ Holding(q) /\ q.run \in Runs \ inflight /\ inflight' = inflight \cup {q.run}
  \/ ~Holding(q) /\ inflight' = inflight
  \/ ~Holding(q) /\ Holding(call[c]) /\ inflight' = inflight \ {call[c].run}

\* A step that leaves the documents alone.
LEMMA QuietStep ==
  ASSUME FeedbackInv, NEW c \in Callers, NEW q \in Feeding, call' = [call EXCEPT ![c] = q],
         Held(c, q), q.pc # "asking", UNCHANGED <<status, suggestions>>, Limits'
  PROVE  FeedbackInv'
<1>1. HoldersOK(call', inflight')
  BY HoldersTurn DEF FeedbackInv, Held
<1>2. call'[c] = q /\ \A d \in Callers \ {c} : call'[d] = call[d]
  BY DEF FeedbackInv, HoldersOK
<1>3. AskingOK(call', status')
  BY <1>2 DEF FeedbackInv, AskingOK
<1> QED
  BY <1>1, <1>3 DEF FeedbackInv

\* A step that writes the document of the job's run.
LEMMA WritingStep ==
  ASSUME FeedbackInv, NEW c \in Callers, NEW q \in Feeding, call' = [call EXCEPT ![c] = q],
         Held(c, q), call[c].run \in Runs, NEW st \in F!Statuses, NEW list, OfferOK(list),
         F!Put(call[c].run, st, list), Limits',
         q.pc = "asking" => st # "completed" /\ q.run = call[c].run,
         st = "completed" => Holding(call[c])
  PROVE  FeedbackInv'
<1> DEFINE run == call[c].run
<1>1. HoldersOK(call', inflight')
  BY HoldersTurn DEF FeedbackInv, Held
<1>2. call'[c] = q /\ \A d \in Callers \ {c} : call'[d] = call[d]
  BY DEF FeedbackInv, HoldersOK
<1>3. StoredOK(status', suggestions') /\ status'[run] \in {st, "gone"}
      /\ \A i \in Runs \ {run} : status'[i] = status[i]
  BY PutIs DEF FeedbackInv
<1>4. ASSUME NEW d \in Callers, call'[d].pc = "asking" PROVE status'[call'[d].run] # "completed"
  <2>1. CASE d = c
    BY <1>2, <1>3, <1>4, <2>1
  <2>2. CASE d # c
    <3>1. call[d].pc = "asking" /\ call'[d] = call[d] /\ Holding(call[d])
      BY <1>2, <1>4, <2>2 DEF Holding
    <3>2. call[d].run \in Runs
      BY <3>1 DEF FeedbackInv, HoldersOK
    <3>3. CASE call[d].run = run
      <4>1. st # "completed"
        BY <2>2, <3>1, <3>3 DEF FeedbackInv, HoldersOK
      <4> QED
        BY <1>3, <3>1, <3>3, <4>1
    <3>4. CASE call[d].run # run
      BY <1>3, <3>1, <3>2, <3>4 DEF FeedbackInv, AskingOK
    <3> QED
      BY <3>3, <3>4
  <2> QED
    BY <2>1, <2>2
<1> QED
  BY <1>1, <1>3, <1>4 DEF FeedbackInv, AskingOK

LEMMA AtJob ==
  ASSUME FeedbackInv, NEW c \in Callers, call[c].pc # "idle"
  PROVE  call[c] \in Feeding /\ call[c].run \in Runs
BY DEF FeedbackInv, HoldersOK, Feeding, Queried, Working, Answering, F!Idle

LEMMA IdleJob == F!Idle \in Feeding /\ ~Holding(F!Idle) /\ F!Idle.pc = "idle"
BY DEF Feeding, F!Idle, Holding

LEMMA BeginStep ==
  ASSUME FeedbackInv, NEW c \in Callers,
         \/ \E r \in Runs : F!Ask(c, r) \/ F!Hook(c, r)
         \/ F!HookReads(c) \/ F!Reads(c)
  PROVE  FeedbackInv'
<1>1. UNCHANGED <<status, suggestions, inflight>> /\ Limits'
  <2>1. MaxCalls["feedback"] \in Nat
    BY ServicesAssumption DEF Limited
  <2> QED
    BY <2>1 DEF F!Ask, F!Hook, F!HookReads, F!Reads, F!Same, FeedbackInv, Limits
<1>2. ASSUME NEW r \in Runs, F!Ask(c, r) \/ F!Hook(c, r) PROVE FeedbackInv'
  <2> DEFINE q(at) == [pc |-> at, run |-> r]
  <2>1. \A at \in {"auto", "begin"} : q(at) \in Feeding /\ ~Holding(q(at)) /\ q(at).pc # "asking"
    BY DEF Feeding, Queried, Holding
  <2>2. call' = [call EXCEPT ![c] = q("begin")] \/ call' = [call EXCEPT ![c] = q("auto")]
    BY <1>2 DEF F!Ask, F!Hook
  <2> HIDE DEF q
  <2> QED
    BY <1>1, <2>1, <2>2, QuietStep DEF Held
<1>3. CASE F!HookReads(c)
  <2> DEFINE q == [call[c] EXCEPT !.pc = "begin"]
  <2>1. call' = [call EXCEPT ![c] = q] \/ call' = [call EXCEPT ![c] = F!Idle]
    BY <1>3 DEF F!HookReads, F!Ends, F!Goes
  <2>2. q \in Feeding /\ q.pc = "begin"
    BY <1>3, AtJob, FeedingTurns DEF F!HookReads, F!At
  <2> HIDE DEF q
  <2>3. ~Holding(q)
    BY <2>2 DEF Holding
  <2> QED
    BY <1>1, <2>1, <2>2, <2>3, IdleJob, QuietStep DEF Held
<1>4. CASE F!Reads(c)
  <2> DEFINE q == [pc |-> "check", run |-> call[c].run, seen |-> status[call[c].run]]
  <2>1. call' = [call EXCEPT ![c] = q] \/ call' = [call EXCEPT ![c] = F!Idle]
    BY <1>4 DEF F!Reads, F!Ends
  <2>2. call[c].run \in Runs
    BY <1>4, AtJob DEF F!Reads, F!At
  <2>3. q \in Feeding /\ q.pc = "check"
    BY <2>2 DEF Feeding, Working, FeedbackInv, StoredOK
  <2> HIDE DEF q
  <2>4. ~Holding(q)
    BY <2>3 DEF Holding
  <2> QED
    BY <1>1, <2>1, <2>3, <2>4, IdleJob, QuietStep DEF Held
<1> QED
  BY <1>2, <1>3, <1>4

\* Taking the run, asking and leaving.
LEMMA TakeStep ==
  ASSUME FeedbackInv, NEW c \in Callers,
         F!Check(c) \/ F!Answered(c) \/ F!Unanswered(c) \/ \E ok \in BOOLEAN : F!Settles(c, ok)
  PROVE  FeedbackInv'
<1>1. UNCHANGED <<status, suggestions>> /\ Limits'
  <2>1. MaxFaults["feedback"] \in Nat
    BY ServicesAssumption DEF Failing
  <2>2. CASE F!Unanswered(c)
    BY <2>1, <2>2 DEF F!Unanswered, F!Same, F!Fault, F!Broken, FeedbackInv, Limits
  <2>3. CASE F!Check(c)
    BY <2>3 DEF F!Check, F!Same, FeedbackInv, Limits
  <2>4. CASE F!Answered(c)
    BY <2>4 DEF F!Answered, F!Same, FeedbackInv, Limits
  <2>5. CASE \E ok \in BOOLEAN : F!Settles(c, ok)
    BY <2>5 DEF F!Settles, F!Same, FeedbackInv, Limits
  <2> QED
    BY <2>2, <2>3, <2>4, <2>5
<1>2. call[c].pc # "idle" /\ call[c] \in Feeding /\ call[c].run \in Runs
  BY AtJob DEF F!Check, F!Answered, F!Unanswered, F!Settles, F!At
<1>3. CASE F!Check(c)
  <2> DEFINE q == [call[c] EXCEPT !.pc = "mark"]
  <2>1. \/ /\ call' = [call EXCEPT ![c] = q] /\ inflight' = inflight \cup {call[c].run}
           /\ call[c].run \notin inflight
        \/ call' = [call EXCEPT ![c] = F!Idle] /\ inflight' = inflight
    BY <1>3 DEF F!Check, F!Ends, F!Goes
  <2>2. q \in Feeding /\ q.pc = "mark" /\ q.run = call[c].run
    BY <1>2, <1>3, FeedingTurns DEF F!Check, F!At
  <2> HIDE DEF q
  <2>3. Holding(q)
    BY <2>2 DEF Holding
  <2> QED
    BY <1>1, <1>2, <2>1, <2>2, <2>3, IdleJob, QuietStep DEF Held
<1>4. CASE F!Answered(c)
  <2>1. PICK raw \in Raw :
           call' = [call EXCEPT ![c] = [pc |-> "save", run |-> call[c].run, raw |-> raw]]
    BY <1>4 DEF F!Answered
  <2> DEFINE q == [pc |-> "save", run |-> call[c].run, raw |-> raw]
  <2>2. q \in Feeding /\ q.pc = "save" /\ q.run = call[c].run
    BY <1>2 DEF Feeding, Answering
  <2>3. inflight' = inflight /\ call[c].pc = "asking"
    BY <1>4 DEF F!Answered, F!At
  <2>4. call' = [call EXCEPT ![c] = q]
    BY <2>1
  <2> HIDE DEF q
  <2>5. Held(c, q)
    BY <2>2, <2>3 DEF Held, Holding
  <2> QED
    BY <1>1, <2>2, <2>4, <2>5, QuietStep
<1>5. CASE F!Unanswered(c)
  <2> DEFINE q == [call[c] EXCEPT !.pc = "unsaved"]
  <2>1. call' = [call EXCEPT ![c] = q] /\ inflight' = inflight /\ call[c].pc = "asking"
    BY <1>5 DEF F!Unanswered, F!Goes, F!At
  <2>2. q \in Feeding /\ q.pc = "unsaved" /\ q.run = call[c].run
    BY <1>2, <2>1, FeedingTurns
  <2> HIDE DEF q
  <2>3. Held(c, q)
    BY <2>1, <2>2 DEF Held, Holding
  <2> QED
    BY <1>1, <2>1, <2>2, <2>3, QuietStep
<1>6. ASSUME NEW ok \in BOOLEAN, F!Settles(c, ok) PROVE FeedbackInv'
  <2> DEFINE q(at) == [call[c] EXCEPT !.pc = at]
  <2>1. /\ call[c].pc = "settings"
        /\ \/ call' = [call EXCEPT ![c] = q("running")] /\ inflight' = inflight
           \/ call' = [call EXCEPT ![c] = q("raised")] /\ inflight' = inflight \ {call[c].run}
    BY <1>6 DEF F!Settles, F!Goes, F!At
  <2>2. q("running") \in Feeding /\ q("running").pc = "running" /\ q("running").run = call[c].run
    BY <1>2, <2>1, FeedingTurns
  <2>3. q("raised") \in Feeding /\ q("raised").pc = "raised"
    BY <1>2, <2>1, FeedingTurns
  <2> HIDE DEF q
  <2>4. Holding(q("running")) /\ ~Holding(q("raised")) /\ Holding(call[c])
    BY <2>1, <2>2, <2>3 DEF Holding
  <2> QED
    BY <1>1, <2>1, <2>2, <2>3, <2>4, QuietStep DEF Held
<1> QED
  BY <1>3, <1>4, <1>5, <1>6

\* The first mark and the second, or the failure to write it.
LEMMA MarkStep ==
  ASSUME FeedbackInv, NEW c \in Callers, NEW bad \in BOOLEAN, F!Mark(c, bad) \/ F!Remark(c, bad)
  PROVE  FeedbackInv'
<1> DEFINE q(at) == [call[c] EXCEPT !.pc = at]
<1>1. Limits'
  BY ServicesAssumption DEF F!Mark, F!Remark, F!Same, F!Fault, F!Broken, FeedbackInv, Limits, Failing
<1>2. call[c] \in Feeding /\ call[c].run \in Runs
  BY AtJob DEF F!Mark, F!Remark, F!At
<1>3. CASE F!Mark(c, bad)
  <2>1. call[c].pc = "mark" /\ inflight' = inflight /\ Holding(call[c])
    BY <1>3 DEF F!Mark, F!At, Holding
  <2>2. \/ call' = [call EXCEPT ![c] = F!Idle] /\ UNCHANGED <<status, suggestions>>
        \/ call' = [call EXCEPT ![c] = q("settings")] /\ F!Put(call[c].run, "running", <<>>)
    BY <1>3 DEF F!Mark, F!Ends, F!Goes
  <2>3. /\ q("settings") \in Feeding /\ q("settings").pc = "settings"
        /\ q("settings").run = call[c].run
    BY <1>2, <2>1, FeedingTurns
  <2> HIDE DEF q
  <2>4. Held(c, q("settings")) /\ Held(c, F!Idle)
    BY <2>1, <2>3, IdleJob DEF Held, Holding
  <2>5. "running" \in F!Statuses
    BY DEF F!Statuses
  <2> QED
    BY <1>1, <1>2, <2>2, <2>3, <2>4, <2>5, IdleJob, NothingOffered, QuietStep, WritingStep
<1>4. CASE F!Remark(c, bad)
  <2>1. call[c].pc = "running" /\ Holding(call[c])
    BY <1>4 DEF F!Remark, F!At, Holding
  <2>2. \/ /\ call' = [call EXCEPT ![c] = q("raised")] /\ UNCHANGED <<status, suggestions>>
           /\ inflight' = inflight \ {call[c].run}
        \/ /\ call' = [call EXCEPT ![c] = q("asking")] /\ F!Put(call[c].run, "running", <<>>)
           /\ inflight' = inflight
    BY <1>4 DEF F!Remark, F!Goes
  <2>3. q("asking") \in Feeding /\ q("asking").pc = "asking" /\ q("asking").run = call[c].run
    BY <1>2, <2>1, FeedingTurns
  <2>4. q("raised") \in Feeding /\ q("raised").pc = "raised"
    BY <1>2, <2>1, FeedingTurns
  <2> HIDE DEF q
  <2>5. ~Holding(q("raised")) /\ Holding(q("asking"))
    BY <2>3, <2>4 DEF Holding
  <2>6. "running" \in F!Statuses
    BY DEF F!Statuses
  <2>7. CASE call' = [call EXCEPT ![c] = q("raised")] /\ UNCHANGED <<status, suggestions>>
             /\ inflight' = inflight \ {call[c].run}
    BY <1>1, <2>1, <2>4, <2>5, <2>7, QuietStep DEF Held
  <2>8. CASE call' = [call EXCEPT ![c] = q("asking")] /\ F!Put(call[c].run, "running", <<>>)
             /\ inflight' = inflight
    <3>1. Held(c, q("asking"))
      BY <2>1, <2>3, <2>5, <2>8 DEF Held
    <3> QED
      BY <1>1, <1>2, <2>3, <2>6, <2>8, <3>1, NothingOffered, WritingStep
  <2> QED
    BY <2>2, <2>7, <2>8
<1> QED
  BY <1>3, <1>4

\* The answer, or the failure, is written, or that fails too.
LEMMA SaveStep ==
  ASSUME FeedbackInv, NEW c \in Callers, NEW bad \in BOOLEAN,
         F!Save(c, bad) \/ F!SaveFailure(c, bad) \/ F!Raised(c, bad)
  PROVE  FeedbackInv'
<1> DEFINE q(at) == [call[c] EXCEPT !.pc = at]
<1>1. Limits'
  BY ServicesAssumption DEF F!Save, F!SaveFailure, F!Raised, F!Same, F!Fault, F!Broken, FeedbackInv,
       Limits, Failing
<1>2. call[c] \in Feeding /\ call[c].run \in Runs
  BY AtJob DEF F!Save, F!SaveFailure, F!Raised, F!At
<1>3. {"completed", "failed"} \subseteq F!Statuses
  BY DEF F!Statuses
<1>4. CASE F!Save(c, bad)
  <2>1. call[c].pc = "save" /\ Holding(call[c])
    BY <1>4 DEF F!Save, F!At, Holding
  <2>2. \/ /\ call' = [call EXCEPT ![c] = q("unsaved")] /\ UNCHANGED <<status, suggestions, inflight>>
        \/ /\ call' = [call EXCEPT ![c] = F!Idle] /\ inflight' = inflight \ {call[c].run}
           /\ F!Put(call[c].run, "completed", F!Normalized(call[c].raw))
    BY <1>4 DEF F!Save, F!Ends, F!Goes
  <2>3. q("unsaved") \in Feeding /\ q("unsaved").pc = "unsaved" /\ q("unsaved").run = call[c].run
    BY <1>2, <2>1, FeedingTurns
  <2>4. OfferOK(F!Normalized(call[c].raw))
    <3>1. call[c].raw \in Raw
      BY <1>2, <2>1 DEF Feeding, Queried, Working, Answering, F!Idle
    <3> QED
      BY <3>1, NormalizedIs
  <2> HIDE DEF q
  <2>5. CASE call' = [call EXCEPT ![c] = q("unsaved")] /\ UNCHANGED <<status, suggestions, inflight>>
    <3>1. Held(c, q("unsaved"))
      BY <2>1, <2>3, <2>5 DEF Held, Holding
    <3> QED
      BY <1>1, <2>3, <2>5, <3>1, QuietStep
  <2>6. CASE /\ call' = [call EXCEPT ![c] = F!Idle] /\ inflight' = inflight \ {call[c].run}
             /\ F!Put(call[c].run, "completed", F!Normalized(call[c].raw))
    <3>1. Held(c, F!Idle)
      BY <2>1, <2>6, IdleJob DEF Held
    <3> QED
      BY <1>1, <1>2, <1>3, <2>1, <2>4, <2>6, <3>1, IdleJob, WritingStep
  <2> QED
    BY <2>2, <2>5, <2>6
<1>5. CASE F!SaveFailure(c, bad)
  <2>1. call[c].pc = "unsaved" /\ Holding(call[c]) /\ inflight' = inflight \ {call[c].run}
    BY <1>5 DEF F!SaveFailure, F!At, Holding
  <2>2. \/ call' = [call EXCEPT ![c] = q("raised")] /\ UNCHANGED <<status, suggestions>>
        \/ call' = [call EXCEPT ![c] = F!Idle] /\ F!Put(call[c].run, "failed", <<>>)
    BY <1>5 DEF F!SaveFailure, F!Ends, F!Goes
  <2>3. q("raised") \in Feeding /\ q("raised").pc = "raised"
    BY <1>2, <2>1, FeedingTurns
  <2> HIDE DEF q
  <2>4. Held(c, q("raised")) /\ Held(c, F!Idle)
    BY <2>1, <2>3, IdleJob DEF Held, Holding
  <2> QED
    BY <1>1, <1>2, <1>3, <2>2, <2>3, <2>4, IdleJob, NothingOffered, QuietStep, WritingStep
<1>6. CASE F!Raised(c, bad)
  <2>1. call' = [call EXCEPT ![c] = F!Idle] /\ inflight' = inflight
    BY <1>6 DEF F!Raised, F!Ends
  <2>2. UNCHANGED <<status, suggestions>> \/ F!Put(call[c].run, "failed", <<>>)
    BY <1>6 DEF F!Raised
  <2>3. Held(c, F!Idle)
    BY <2>1, IdleJob DEF Held
  <2> QED
    BY <1>1, <1>2, <1>3, <2>1, <2>2, <2>3, IdleJob, NothingOffered, QuietStep, WritingStep
<1> QED
  BY <1>4, <1>5, <1>6

\* Settings, deletions and restarts.
LEMMA AroundStep ==
  ASSUME FeedbackInv, F!Configure \/ F!Crash \/ \E r \in Runs : F!Delete(r)
  PROVE  FeedbackInv'
<1>0. MaxCalls["feedback"] \in Nat /\ MaxCrashes \in Nat
  BY ServicesAssumption DEF Limited
<1>1. CASE F!Configure
  <2>1. Limits'
    BY <1>0, <1>1 DEF F!Configure, FeedbackInv, Limits
  <2> QED
    BY <1>1, <2>1 DEF F!Configure, FeedbackInv, HoldersOK, AskingOK, StoredOK
<1>2. CASE F!Crash
  <2>1. Limits'
    BY <1>0, <1>2 DEF F!Crash, FeedbackInv, Limits
  <2>2. HoldersOK(call', inflight') /\ AskingOK(call', status')
    BY <1>2, IdleJob DEF F!Crash, HoldersOK, AskingOK
  <2> QED
    BY <1>2, <2>1, <2>2 DEF F!Crash, FeedbackInv, StoredOK
<1>3. ASSUME NEW r \in Runs, F!Delete(r) PROVE FeedbackInv'
  <2>1. Limits'
    BY <1>0, <1>3 DEF F!Delete, FeedbackInv, Limits
  <2>2. status' = [status EXCEPT ![r] = "gone"] /\ UNCHANGED <<call, inflight, suggestions>>
    BY <1>3 DEF F!Delete
  <2>3. StoredOK(status', suggestions')
    BY <2>2 DEF FeedbackInv, StoredOK
  <2>4. AskingOK(call', status')
    BY <2>2 DEF FeedbackInv, StoredOK, AskingOK
  <2> QED
    BY <2>1, <2>2, <2>3, <2>4 DEF FeedbackInv
<1> QED
  BY <1>1, <1>2, <1>3

\* However requests, hooks, failures, deletions and restarts overlap, a model is
\* asked about a run by one job at a time, and what is offered can be applied.
THEOREM OneJobAtATime == Spec => []OneJob
<1> DEFINE Inv == part = "feedback" => FeedbackInv
<1>1. Init => Inv
  <2>1. ASSUME F!Init PROVE FeedbackInv
    <3>1. Limits
      BY <2>1, ServicesAssumption DEF F!Init, Limits, Limited, Failing
    <3>2. HoldersOK(call, inflight) /\ AskingOK(call, status)
      BY <2>1, IdleJob DEF F!Init, HoldersOK, AskingOK
    <3>3. StoredOK(status, suggestions)
      BY <2>1, NothingOffered DEF F!Init, StoredOK, F!Statuses, F!None
    <3> QED
      BY <3>1, <3>2, <3>3 DEF FeedbackInv
  <2> QED
    BY <2>1 DEF Init
<1>2. Inv /\ [Next]_all => Inv'
  <2> SUFFICES ASSUME Inv, [Next]_all, part' = "feedback" PROVE FeedbackInv'
    OBVIOUS
  <2>1. FeedbackInv /\ [F!Next]_F!vars
    BY PartStep
  <2>2. CASE UNCHANGED F!vars
    BY <2>1, <2>2 DEF F!vars, FeedbackInv, HoldersOK, AskingOK, StoredOK, Limits
  <2> QED
    BY <2>1, <2>2, BeginStep, TakeStep, MarkStep, SaveStep, AroundStep DEF F!Next
<1>3. Inv => OneJob
  <2> SUFFICES ASSUME FeedbackInv PROVE F!TypeOK /\ F!OneJob /\ F!Offered
    BY DEF OneJob
  <2>1. \A c \in Callers : call[c] \in Feeding
    BY DEF FeedbackInv, HoldersOK
  <2>2. \A r \in Feeding : r.pc \in F!Jobs \cup {"idle", "auto", "begin", "check", "mark"}
    BY DEF Feeding, Queried, Working, Answering, F!Idle, F!Jobs
  <2>3. F!TypeOK
    BY <2>1, <2>2 DEF F!TypeOK, FeedbackInv, HoldersOK, StoredOK, Limits
  <2>4. F!OneJob
    BY DEF F!OneJob, F!At, FeedbackInv, HoldersOK, AskingOK, Holding
  <2>5. F!Offered
    BY DEF F!Offered, FeedbackInv, StoredOK, OfferOK
  <2> QED
    BY <2>3, <2>4, <2>5
<1> QED
  BY <1>1, <1>2, <1>3, PTL DEF Spec

-----------------------------------------------------------------------------
(* Account                                                                 *)

Owning == [pw : A!Numbers, name : A!Numbers]

\* What a browser may be waiting for.
Calling ==
  {A!Idle}
    \cup [do : {"setup", "avatar", "record"}, user : Emails, n : A!Numbers, photo : BOOLEAN]
    \cup [do : {"login"}, profile : A!Profiles, pw : A!Numbers]
    \cup [do : {"password"}, user : Emails, n : A!Numbers, alone : BOOLEAN]
    \cup [do : {"name"}, user : Emails, n : A!Numbers]
    \cup [do : {"upload", "replace", "point"}, n : A!Numbers, previous : A!Numbers]
    \cup [do : {"enroll", "confirm"}, n : A!Numbers]

InFlight(r) == r.do \in {"upload", "replace", "point"}

\* A number in use is that of a request that was made.
NumbersUsed ==
  /\ \A b \in Browsers : call[b].do \notin {"idle", "login"} => call[b].n <= calls
  /\ \A b \in Browsers : InFlight(call[b]) => call[b].previous <= calls
  /\ file # Nobody => file.photo <= calls
  /\ pg # Nobody => pg.photo <= calls

\* The database has no profile but the file's, of the same user, whom the
\* provider has; both are the same until the database misses a write.
StoresOK ==
  /\ pg # Nobody => file # Nobody /\ pg.user = file.user
  /\ missed = 0 => pg = file
  /\ file # Nobody => users[file.user] # Nobody

\* The provider has the password that was set last when no other request
\* interfered; what is to be set there is for the profile's user.
ProviderOK ==
  /\ last.ok => file # Nobody /\ users[file.user].pw = last.pw
  /\ \A b \in Browsers : call[b].do \in {"password", "name"} =>
       file # Nobody /\ call[b].user = file.user
  /\ \A b \in Browsers : call[b].do \in {"avatar", "record"} /\ file = Nobody =>
       users[call[b].user] = [pw |-> call[b].n, name |-> call[b].n]

\* A photo on its way is in the store once uploaded, and nobody is about to
\* remove it before it is named.
UploadsOK ==
  /\ \A b \in Browsers : InFlight(call[b]) => file # Nobody
  /\ \A b \in Browsers : InFlight(call[b]) /\ call[b].n # 0 =>
       /\ call[b].n # file.photo /\ (pg # Nobody => call[b].n # pg.photo)
       /\ call[b].do # "upload" => call[b].n \in objects
  /\ \A b, c \in Browsers : InFlight(call[b]) /\ InFlight(call[c]) /\ call[b].n # 0 =>
       call[b].n # call[c].previous /\ (b # c => call[b].n # call[c].n)
  /\ \A b \in Browsers : call[b].do = "record" /\ call[b].photo /\ file = Nobody =>
       call[b].n \in objects

\* The photo the profile names is in the store, or was removed by the request
\* that is to name another.
NamedOK ==
  missed = 0 /\ file # Nobody =>
    \/ file.photo = 0 \/ file.photo \in objects
    \/ \E b \in Browsers : call[b].do = "point" /\ call[b].previous = file.photo

AccountInv ==
  /\ A!TypeOK /\ call \in [Browsers -> Calling]
  /\ NumbersUsed /\ StoresOK /\ ProviderOK /\ UploadsOK /\ NamedOK

LEMMA AccountFacts ==
  ASSUME AccountInv
  PROVE  /\ Nobody \notin A!Profiles /\ Nobody \notin Owning
         /\ MaxCalls["account"] \in Nat /\ MaxFaults["account"] \in Nat /\ MaxMissed \in Nat
         /\ A!SetUp <=> file # Nobody
         /\ A!SetUp => A!User \in A!Profiles /\ A!User.user = file.user
         /\ A!SetUp /\ missed = 0 => A!User = file
         /\ A!SetUp => A!User = pg \/ A!User = file
<1>1. MaxCalls["account"] \in Nat /\ MaxFaults["account"] \in Nat /\ MaxMissed \in Nat
  BY ServicesAssumption DEF Limited, Failing
<1>2. A!Numbers \subseteq Nat
  BY <1>1 DEF A!Numbers
<1>3. A!Profiles \subseteq [name : Nat, pw : Nat, photo : Nat, user : Emails]
  BY <1>2 DEF A!Profiles
<1>4. Owning \subseteq [pw : Nat, name : Nat]
  BY <1>2 DEF Owning
<1>5. Nobody \notin A!Profiles /\ Nobody \notin Owning
  BY <1>3, <1>4, ServicesAssumption
<1>6. A!SetUp <=> file # Nobody
  BY DEF A!SetUp, AccountInv, StoresOK
<1>7. A!SetUp => A!User \in A!Profiles /\ A!User.user = file.user /\ (A!User = pg \/ A!User = file)
  BY <1>6 DEF A!User, AccountInv, StoresOK, A!TypeOK
<1>8. A!SetUp /\ missed = 0 => A!User = file
  BY DEF A!User, AccountInv, StoresOK
<1> QED
  BY <1>1, <1>5, <1>6, <1>7, <1>8

\* _save_user with a profile of the same user, or the first.
LEMMA SaveIs ==
  ASSUME AccountInv, NEW p \in A!Profiles, A!Save(p),
         file # Nobody => p.user = file.user,
         users'[p.user] # Nobody
  PROVE  /\ file' = p /\ file' # Nobody /\ pg' \in A!Profiles \cup {Nobody}
         /\ pg' = p \/ pg' = pg
         /\ missed' \in 0..MaxMissed /\ (missed' = 0 => missed = 0 /\ pg' = p)
         /\ StoresOK'
<1>1. Nobody \notin A!Profiles /\ MaxMissed \in Nat
  BY AccountFacts
<1>2. /\ file' = p /\ p # Nobody
      /\ \/ pg' = p /\ missed' = missed
         \/ pg' = pg /\ missed < MaxMissed /\ missed' = missed + 1
  BY <1>1 DEF A!Save
<1>3. /\ missed \in 0..MaxMissed /\ pg \in A!Profiles \cup {Nobody}
      /\ pg # Nobody => file # Nobody /\ pg.user = file.user
  BY DEF AccountInv, A!TypeOK, StoresOK
<1>4. missed' \in 0..MaxMissed /\ (missed' = 0 => missed = 0 /\ pg' = p)
  BY <1>1, <1>2, <1>3
<1>5. pg' \in A!Profiles \cup {Nobody} /\ (pg' = p \/ pg' = pg)
  BY <1>2, <1>3
<1>6. StoresOK'
  BY <1>2, <1>3, <1>4 DEF StoresOK
<1> QED
  BY <1>2, <1>4, <1>5, <1>6

LEMMA CallingIs ==
  ASSUME NEW r \in Calling
  PROVE  /\ r.do \in {"setup", "avatar", "record"} =>
              r.user \in Emails /\ r.n \in A!Numbers /\ r.photo \in BOOLEAN
         /\ r.do = "login" => r.profile \in A!Profiles /\ r.pw \in A!Numbers
         /\ r.do \in {"password", "name"} => r.user \in Emails /\ r.n \in A!Numbers
         /\ r.do = "password" => r.alone \in BOOLEAN
         /\ InFlight(r) => r.n \in A!Numbers /\ r.previous \in A!Numbers
         /\ r.do \in {"enroll", "confirm"} => r.n \in A!Numbers
<1>1. CASE r.do \in {"setup", "avatar", "record"}
  BY <1>1 DEF Calling, A!Idle, InFlight
<1>2. CASE r.do \in {"login", "password", "name"}
  BY <1>2 DEF Calling, A!Idle, InFlight
<1>3. CASE r.do \notin {"setup", "avatar", "record", "login", "password", "name"}
  BY <1>3 DEF Calling, A!Idle, InFlight
<1> QED
  BY <1>1, <1>2, <1>3

LEMMA CallingTurns ==
  ASSUME NEW r \in Calling, NEW to,
         \/ r.do \in {"setup", "avatar"} /\ to \in {"avatar", "record"}
         \/ r.do = "upload" /\ to = "replace"
         \/ r.do = "replace" /\ to = "point"
         \/ r.do = "enroll" /\ to = "confirm"
  PROVE  /\ [r EXCEPT !.do = to] \in Calling /\ [r EXCEPT !.do = to].do = to
         /\ [r EXCEPT !.do = to].n = r.n
         /\ r.do \in {"setup", "avatar"} => /\ [r EXCEPT !.do = to].user = r.user
                                            /\ [r EXCEPT !.do = to].photo = r.photo
         /\ InFlight(r) => [r EXCEPT !.do = to].previous = r.previous
<1>1. CASE r.do \in {"setup", "avatar"}
  <2>1. r \in [do : {"setup", "avatar", "record"}, user : Emails, n : A!Numbers, photo : BOOLEAN]
    BY <1>1 DEF Calling, A!Idle
  <2> QED
    BY <1>1, <2>1 DEF Calling, InFlight
<1>2. CASE r.do \in {"upload", "replace"}
  <2>1. r \in [do : {"upload", "replace", "point"}, n : A!Numbers, previous : A!Numbers]
    BY <1>2 DEF Calling, A!Idle
  <2> QED
    BY <1>2, <2>1 DEF Calling, InFlight
<1>3. CASE r.do = "enroll"
  <2>1. r \in [do : {"enroll", "confirm"}, n : A!Numbers]
    BY <1>3 DEF Calling, A!Idle
  <2> QED
    BY <1>3, <2>1 DEF Calling, InFlight
<1> QED
  BY <1>1, <1>2, <1>3

LEMMA IdleCall == A!Idle \in Calling /\ A!Idle.do = "idle" /\ ~InFlight(A!Idle)
BY DEF Calling, A!Idle, InFlight

LEMMA AccountTurn ==
  ASSUME AccountInv, NEW b \in Browsers, NEW q \in Calling, call' = [call EXCEPT ![b] = q]
  PROVE  /\ call' \in [Browsers -> Calling] /\ DOMAIN call' = Browsers
         /\ call'[b] = q /\ \A c \in Browsers \ {b} : call'[c] = call[c]
BY DEF AccountInv

\* A request that is made has a number of its own.
LEMMA NewNumber ==
  ASSUME AccountInv, calls < MaxCalls["account"], calls' = calls + 1
  PROVE  /\ calls' \in A!Numbers /\ calls + 1 \in A!Numbers /\ calls + 1 # 0
         /\ calls \in Nat /\ calls < calls + 1
BY AccountFacts DEF AccountInv, A!TypeOK, A!Numbers

\* A step that changes neither the profile nor the photos.
LEMMA PlainPhotos ==
  ASSUME AccountInv, NEW b \in Browsers, NEW q \in Calling,
         call' = [call EXCEPT ![b] = q] \/ call' = call,
         call' # call => ~InFlight(call[b]) /\ ~InFlight(q),
         q.do = "record" /\ q.photo => q.n \in objects,
         calls' = calls \/ calls' = calls + 1,
         call' # call /\ q.do \notin {"idle", "login"} => q.n <= calls',
         UNCHANGED <<file, pg, missed, objects>>
  PROVE  NumbersUsed' /\ UploadsOK' /\ NamedOK'
<1>0. calls \in Nat /\ calls' \in Nat
  BY AccountFacts DEF AccountInv, A!TypeOK, A!Numbers
<1>1. CASE call' = call
  <2>1. UploadsOK' /\ NamedOK'
    BY <1>1 DEF AccountInv, UploadsOK, NamedOK
  <2>2. NumbersUsed'
    <3>1. \A c \in Browsers : call[c].do \notin {"idle", "login"} => call[c].n \in Nat
      BY CallingIs, AccountFacts DEF AccountInv, Calling, InFlight, A!Numbers, A!Idle
    <3>2. \A c \in Browsers : InFlight(call[c]) => call[c].previous \in Nat
      BY CallingIs, AccountFacts DEF AccountInv, A!Numbers
    <3>3. /\ file # Nobody => file.photo \in Nat
          /\ pg # Nobody => pg.photo \in Nat
      BY AccountFacts DEF AccountInv, A!TypeOK, A!Profiles, A!Numbers
    <3> QED
      BY <1>0, <1>1, <3>1, <3>2, <3>3 DEF AccountInv, NumbersUsed
  <2> QED
    BY <2>1, <2>2
<1>2. CASE call' # call
  <2>1. call'[b] = q /\ \A c \in Browsers \ {b} : call'[c] = call[c]
    BY <1>2, AccountTurn
  <2>2. UploadsOK'
    BY <1>2, <2>1 DEF AccountInv, UploadsOK, InFlight
  <2>3. NamedOK'
    BY <1>2, <2>1 DEF AccountInv, NamedOK, InFlight
  <2>4. NumbersUsed'
    <3>1. \A c \in Browsers : call[c].do \notin {"idle", "login"} => call[c].n \in Nat
      BY CallingIs, AccountFacts DEF AccountInv, Calling, InFlight, A!Numbers, A!Idle
    <3>2. \A c \in Browsers : InFlight(call[c]) => call[c].previous \in Nat
      BY CallingIs, AccountFacts DEF AccountInv, A!Numbers
    <3>3. /\ file # Nobody => file.photo \in Nat
          /\ pg # Nobody => pg.photo \in Nat
      BY AccountFacts DEF AccountInv, A!TypeOK, A!Profiles, A!Numbers
    <3> QED
      BY <1>0, <1>2, <2>1, <3>1, <3>2, <3>3 DEF AccountInv, NumbersUsed
  <2> QED
    BY <2>2, <2>3, <2>4
<1> QED
  BY <1>1, <1>2

\* A step of one browser after which the profile, the photos, the provider's
\* users and the last password are as before.
LEMMA QuietCall ==
  ASSUME AccountInv, NEW b \in Browsers, NEW q \in Calling,
         call' = [call EXCEPT ![b] = q] \/ call' = call,
         call' # call => ~InFlight(call[b]) /\ ~InFlight(q),
         q.do \notin {"password", "name", "avatar"},
         q.do = "record" => /\ q.photo => q.n \in objects
                            /\ file = Nobody => users[q.user] = [pw |-> q.n, name |-> q.n],
         calls' = calls \/ (calls < MaxCalls["account"] /\ calls' = calls + 1),
         call' # call /\ q.do \notin {"idle", "login"} => q.n <= calls',
         session' \in [Browsers -> A!Numbers \cup {Nobody}],
         DOMAIN factors' \subseteq A!Numbers, \A f \in DOMAIN factors' : factors'[f] \in BOOLEAN,
         faults' = faults \/ A!Fails,
         UNCHANGED <<file, pg, missed, objects, users, last>>
  PROVE  AccountInv'
<1>1. calls' \in A!Numbers
  BY NewNumber DEF AccountInv, A!TypeOK
<1>2. faults' \in 0..MaxFaults["account"]
  BY AccountFacts DEF AccountInv, A!TypeOK, A!Fails
<1>3. call' \in [Browsers -> Calling] /\ DOMAIN call' = Browsers
  BY AccountTurn DEF AccountInv
<1>4. A!TypeOK'
  BY <1>1, <1>2, <1>3 DEF AccountInv, A!TypeOK, A!Numbers, A!Profiles
<1>5. NumbersUsed' /\ UploadsOK' /\ NamedOK'
  BY PlainPhotos
<1>6. StoresOK'
  BY DEF AccountInv, StoresOK
<1>7. ProviderOK'
  <2>1. \A c \in Browsers : call'[c] = call[c] \/ (c = b /\ call'[c] = q)
    BY AccountTurn DEF AccountInv
  <2> QED
    BY <2>1 DEF AccountInv, ProviderOK
<1> QED
  BY <1>3, <1>4, <1>5, <1>6, <1>7 DEF AccountInv


\* Signing in and out, and a set-up that comes too late.
LEMMA SigningStep ==
  ASSUME AccountInv, NEW b \in Browsers,
         \/ \E pw \in 1..calls : A!Login(b, pw)
         \/ A!Logout(b) \/ A!LoggedIn(b) \/ A!TooLate(b)
  PROVE  AccountInv'
<1>0. /\ session \in [Browsers -> A!Numbers \cup {Nobody}]
      /\ DOMAIN factors \subseteq A!Numbers /\ \A f \in DOMAIN factors : factors[f] \in BOOLEAN
      /\ calls \in A!Numbers /\ call[b] \in Calling
  BY DEF AccountInv, A!TypeOK
<1>1. ASSUME NEW pw \in 1..calls, A!Login(b, pw) PROVE AccountInv'
  <2> DEFINE q == [do |-> "login", profile |-> A!User, pw |-> pw]
  <2>1. A!User \in A!Profiles /\ pw \in A!Numbers
    BY <1>0, <1>1, AccountFacts DEF A!Login, A!Numbers
  <2>2. q \in Calling /\ q.do = "login"
    BY <2>1 DEF Calling
  <2>3. call' = [call EXCEPT ![b] = q] /\ call[b].do = "idle"
    BY <1>1 DEF A!Login, A!Becomes, A!Does
  <2>4. ~InFlight(call[b]) /\ ~InFlight(q)
    BY <2>2, <2>3 DEF InFlight
  <2>5. UNCHANGED <<file, pg, missed, users, factors, objects, session, calls, faults, last>>
    BY <1>1 DEF A!Login, A!stores
  <2> HIDE DEF q
  <2> QED
    BY <1>0, <2>2, <2>3, <2>4, <2>5, QuietCall
<1>2. CASE A!Logout(b)
  <2>1. UNCHANGED <<file, pg, missed, users, factors, objects, call, calls, faults, last>>
    BY <1>2 DEF A!Logout, A!stores
  <2>2. session' \in [Browsers -> A!Numbers \cup {Nobody}]
    BY <1>0, <1>2 DEF A!Logout
  <2> QED
    BY <1>0, <2>1, <2>2, QuietCall, IdleCall
<1>3. CASE A!LoggedIn(b)
  <2>1. /\ UNCHANGED <<file, pg, missed, users, factors, objects, calls, faults, last>>
        /\ call' = [call EXCEPT ![b] = A!Idle] /\ call[b].do = "login"
    BY <1>3 DEF A!LoggedIn, A!stores, A!Does, A!End, A!Becomes
  <2>2. call[b].profile.name \in A!Numbers
    BY <1>0, <2>1, CallingIs DEF A!Profiles
  <2>3. session' \in [Browsers -> A!Numbers \cup {Nobody}]
    BY <1>0, <1>3, <2>2 DEF A!LoggedIn
  <2>4. ~InFlight(call[b])
    BY <2>1 DEF InFlight
  <2> QED
    BY <1>0, <2>1, <2>3, <2>4, QuietCall, IdleCall
<1>4. CASE A!TooLate(b)
  <2>1. /\ UNCHANGED <<file, pg, missed, users, factors, objects, session, calls, faults, last>>
        /\ call' = [call EXCEPT ![b] = A!Idle] /\ call[b].do = "record"
    BY <1>4 DEF A!TooLate, A!stores, A!Does, A!End, A!Becomes
  <2>2. ~InFlight(call[b])
    BY <2>1 DEF InFlight
  <2> QED
    BY <1>0, <2>1, <2>2, QuietCall, IdleCall
<1> QED
  BY <1>1, <1>2, <1>3, <1>4

\* The authenticator.
LEMMA FactorStep ==
  ASSUME AccountInv, NEW b \in Browsers,
         \/ A!Enroll(b) \/ A!Enrolled(b) \/ A!Confirm(b)
         \/ \E f \in A!Numbers : A!Disable(b, f)
  PROVE  AccountInv'
<1>0. /\ session \in [Browsers -> A!Numbers \cup {Nobody}]
      /\ DOMAIN factors \subseteq A!Numbers /\ \A f \in DOMAIN factors : factors[f] \in BOOLEAN
      /\ calls \in A!Numbers /\ call[b] \in Calling /\ NumbersUsed
  BY DEF AccountInv, A!TypeOK
<1>1. CASE A!Enroll(b)
  <2> DEFINE q == [do |-> "enroll", n |-> calls + 1]
  <2>1. /\ call' = [call EXCEPT ![b] = q] /\ call[b].do = "idle"
        /\ calls < MaxCalls["account"] /\ calls' = calls + 1
        /\ UNCHANGED <<file, pg, missed, users, objects, session, faults, last>>
        /\ factors' = [f \in {} |-> TRUE]
    BY <1>1 DEF A!Enroll, A!Begin, A!Becomes, A!Does, A!stores
  <2>2. calls' \in A!Numbers /\ calls' \in Nat
    BY <2>1, NewNumber
  <2>3. q \in Calling /\ q.do = "enroll" /\ q.n = calls'
    BY <2>1, <2>2 DEF Calling
  <2>4. ~InFlight(call[b]) /\ ~InFlight(q)
    BY <2>1, <2>3 DEF InFlight
  <2>5. q.n <= calls'
    BY <2>2, <2>3
  <2>6. DOMAIN factors' \subseteq A!Numbers /\ \A f \in DOMAIN factors' : factors'[f] \in BOOLEAN
    BY <2>1
  <2> HIDE DEF q
  <2> QED
    BY <1>0, <2>1, <2>3, <2>4, <2>5, <2>6, QuietCall
<1>2. CASE A!Enrolled(b)
  <2>1. /\ UNCHANGED <<file, pg, missed, users, objects, session, calls, faults, last>>
        /\ call[b].do = "enroll"
        /\ \/ /\ factors' = [f \in DOMAIN factors \cup {call[b].n} |->
                                f \in DOMAIN factors /\ factors[f]]
              /\ call' = [call EXCEPT ![b] = [call[b] EXCEPT !.do = "confirm"]]
           \/ factors' = factors /\ call' = [call EXCEPT ![b] = A!Idle]
    BY <1>2 DEF A!Enrolled, A!stores, A!Does, A!End, A!Becomes
  <2>2. call[b].n \in A!Numbers /\ call[b].n <= calls /\ ~InFlight(call[b])
    BY <1>0, <2>1, CallingIs DEF NumbersUsed, InFlight
  <2>3. CASE call' = [call EXCEPT ![b] = A!Idle] /\ factors' = factors
    <3>1. DOMAIN factors' \subseteq A!Numbers /\ \A f \in DOMAIN factors' : factors'[f] \in BOOLEAN
      BY <1>0, <2>3
    <3>2. UNCHANGED <<file, pg, missed, users, objects, session, calls, faults, last>>
      BY <2>1
    <3> QED
      BY <1>0, <2>2, <2>3, <3>1, <3>2, QuietCall, IdleCall
  <2>4. CASE /\ factors' = [f \in DOMAIN factors \cup {call[b].n} |->
                                f \in DOMAIN factors /\ factors[f]]
             /\ call' = [call EXCEPT ![b] = [call[b] EXCEPT !.do = "confirm"]]
    <3> DEFINE q == [call[b] EXCEPT !.do = "confirm"]
    <3>1. q \in Calling /\ q.do = "confirm" /\ q.n = call[b].n
      BY <1>0, <2>1, CallingTurns
    <3>2. ~InFlight(q)
      BY <3>1 DEF InFlight
    <3>3. DOMAIN factors' \subseteq A!Numbers /\ \A f \in DOMAIN factors' : factors'[f] \in BOOLEAN
      BY <1>0, <2>2, <2>4
    <3>4. call' = [call EXCEPT ![b] = q]
      BY <2>4
    <3> HIDE DEF q
    <3> QED
      BY <1>0, <2>1, <2>2, <3>1, <3>2, <3>3, <3>4, QuietCall
  <2> QED
    BY <2>1, <2>3, <2>4
<1>3. CASE A!Confirm(b)
  <2>1. /\ UNCHANGED <<file, pg, missed, users, objects, session, calls, faults, last>>
        /\ call' = [call EXCEPT ![b] = A!Idle] /\ call[b].do = "confirm"
        /\ \/ factors' = [factors EXCEPT ![call[b].n] = TRUE]
           \/ factors' = factors
    BY <1>3 DEF A!Confirm, A!stores, A!Does, A!End, A!Becomes
  <2>2. DOMAIN factors' \subseteq A!Numbers /\ \A f \in DOMAIN factors' : factors'[f] \in BOOLEAN
    BY <1>0, <2>1
  <2>3. ~InFlight(call[b])
    BY <2>1 DEF InFlight
  <2> QED
    BY <1>0, <2>1, <2>2, <2>3, QuietCall, IdleCall
<1>4. ASSUME NEW f \in A!Numbers, A!Disable(b, f) PROVE AccountInv'
  <2>1. /\ UNCHANGED <<file, pg, missed, users, objects, session, call, calls, faults, last>>
        /\ factors' = [g \in DOMAIN factors \ {f} |-> factors[g]]
    BY <1>4 DEF A!Disable, A!stores
  <2>2. DOMAIN factors' \subseteq A!Numbers /\ \A g \in DOMAIN factors' : factors'[g] \in BOOLEAN
    BY <1>0, <2>1
  <2> QED
    BY <1>0, <2>1, <2>2, QuietCall, IdleCall
<1> QED
  BY <1>1, <1>2, <1>3, <1>4

\* The first set-up, up to the profile.
LEMMA SetupStep ==
  ASSUME AccountInv, NEW b \in Browsers,
         \/ \E e \in Emails, photo \in BOOLEAN : A!Setup(b, e, photo)
         \/ A!CreateUser(b)
  PROVE  AccountInv'
<1>0. /\ session \in [Browsers -> A!Numbers \cup {Nobody}]
      /\ DOMAIN factors \subseteq A!Numbers /\ \A f \in DOMAIN factors : factors[f] \in BOOLEAN
      /\ calls \in A!Numbers /\ call[b] \in Calling /\ NumbersUsed
  BY DEF AccountInv, A!TypeOK
<1>1. ASSUME NEW e \in Emails, NEW photo \in BOOLEAN, A!Setup(b, e, photo) PROVE AccountInv'
  <2> DEFINE q == [do |-> "setup", user |-> e, n |-> calls + 1, photo |-> photo]
  <2>1. /\ call' = [call EXCEPT ![b] = q] /\ call[b].do = "idle"
        /\ calls < MaxCalls["account"] /\ calls' = calls + 1
        /\ UNCHANGED <<file, pg, missed, users, factors, objects, session, faults, last>>
    BY <1>1 DEF A!Setup, A!Begin, A!Becomes, A!Does, A!stores
  <2>2. calls' \in A!Numbers /\ calls' \in Nat
    BY <2>1, NewNumber
  <2>3. q \in Calling /\ q.do = "setup" /\ q.n = calls'
    BY <2>1, <2>2 DEF Calling
  <2>4. ~InFlight(call[b]) /\ ~InFlight(q)
    BY <2>1, <2>3 DEF InFlight
  <2>5. q.n <= calls'
    BY <2>2, <2>3
  <2> HIDE DEF q
  <2> QED
    BY <1>0, <2>1, <2>3, <2>4, <2>5, QuietCall
<1>2. CASE A!CreateUser(b)
  <2> DEFINE c == call[b]
             to == IF c.photo THEN "avatar" ELSE "record"
             q == [c EXCEPT !.do = to]
             had == [pw |-> c.n, name |-> c.n]
  <2>1. /\ UNCHANGED <<file, pg, missed, factors, objects, session, calls, last>>
        /\ c.do = "setup"
        /\ \/ /\ users[c.user] = Nobody
              /\ users' = [users EXCEPT ![c.user] = had]
              /\ call' = [call EXCEPT ![b] = q]
              /\ UNCHANGED faults
           \/ /\ users[c.user] # Nobody \/ faults < MaxFaults["account"]
              /\ faults' = IF users[c.user] # Nobody THEN faults ELSE faults + 1
              /\ call' = [call EXCEPT ![b] = A!Idle] /\ UNCHANGED users
    BY <1>2 DEF A!CreateUser, A!stores, A!Does, A!End, A!Becomes
  <2>2. c.user \in Emails /\ c.n \in A!Numbers /\ c.photo \in BOOLEAN /\ c.n <= calls
    BY <1>0, <2>1, CallingIs DEF NumbersUsed
  <2>3. ~InFlight(c)
    BY <2>1 DEF InFlight
  <2>4. CASE users' = users /\ call' = [call EXCEPT ![b] = A!Idle]
    <3>1. CASE faults' = faults
      BY <1>0, <2>1, <2>3, <2>4, <3>1, QuietCall, IdleCall
    <3>2. CASE faults < MaxFaults["account"] /\ faults' = faults + 1
      <4>1. A!Fails
        BY <3>2 DEF A!Fails
      <4> QED
        BY <1>0, <2>1, <2>3, <2>4, <4>1, QuietCall, IdleCall
    <3>3. faults' = faults \/ (faults < MaxFaults["account"] /\ faults' = faults + 1)
      BY <2>1
    <3> QED
      BY <3>1, <3>2, <3>3
  <2>5. CASE /\ users[c.user] = Nobody
             /\ users' = [users EXCEPT ![c.user] = had]
             /\ call' = [call EXCEPT ![b] = q]
             /\ UNCHANGED faults
    <3>1. /\ q \in Calling /\ q.do = to /\ q.n = c.n /\ q.user = c.user /\ q.photo = c.photo
          /\ to \in {"avatar", "record"} /\ (to = "record" => ~q.photo)
      BY <1>0, <2>1, <2>2, CallingTurns
    <3>2. had \in Owning /\ had # Nobody
      BY <2>2, AccountFacts DEF Owning
    <3> HIDE DEF had, q, to
    <3>3. call' \in [Browsers -> Calling] /\ DOMAIN call' = Browsers
          /\ call'[b] = q /\ \A d \in Browsers \ {b} : call'[d] = call[d]
      BY <2>5, <3>1, AccountTurn
    <3>4. \A e \in Emails : users'[e] \in Owning \cup {Nobody}
      BY <2>5, <3>2 DEF AccountInv, A!TypeOK, Owning
    <3>5. \A e \in Emails : users[e] # Nobody => e # c.user
      BY <2>5
    <3>6. ~InFlight(q)
      BY <3>1 DEF InFlight
    <3>7. NumbersUsed' /\ UploadsOK' /\ NamedOK'
      BY <2>1, <2>2, <2>3, <2>5, <3>1, <3>6, PlainPhotos
    <3>8. A!TypeOK'
      BY <2>1, <2>5, <3>3, <3>4 DEF AccountInv, A!TypeOK, A!Numbers, A!Profiles, Owning
    <3>9. file # Nobody => file.user \in Emails /\ users'[file.user] = users[file.user]
      <4>1. file # Nobody => file.user \in Emails /\ users[file.user] # Nobody
        BY DEF AccountInv, A!TypeOK, A!Profiles, StoresOK
      <4> QED
        BY <4>1, <3>5, <2>5, <2>2 DEF AccountInv, A!TypeOK
    <3>10. StoresOK'
      BY <2>1, <3>9 DEF AccountInv, StoresOK
    <3>11. ASSUME NEW d \in Browsers, call'[d].do \in {"avatar", "record"}, file' = Nobody
           PROVE  users'[call'[d].user] = [pw |-> call'[d].n, name |-> call'[d].n]
      <4>1. CASE d = b
        BY <4>1, <2>5, <2>2, <3>1, <3>3 DEF AccountInv, had, A!TypeOK
      <4>2. CASE d # b
        <5>1. call'[d] = call[d] /\ call[d] \in Calling
          BY <4>2, <3>3 DEF AccountInv
        <5>2. call[d].n \in A!Numbers /\ call[d].user \in Emails
              /\ users[call[d].user] = [pw |-> call[d].n, name |-> call[d].n]
          BY <3>11, <5>1, <2>1, CallingIs DEF AccountInv, ProviderOK
        <5>3. users[call[d].user] # Nobody
          BY <5>2, AccountFacts DEF Owning
        <5> QED
          BY <5>1, <5>2, <5>3, <3>5, <2>5
      <4> QED
        BY <4>1, <4>2
    <3>12. ProviderOK'
      <4>1. last'.ok => file' # Nobody /\ users'[file'.user].pw = last'.pw
        BY <2>1, <3>9 DEF AccountInv, ProviderOK
      <4>2. \A d \in Browsers : call'[d].do \in {"password", "name"} =>
               file' # Nobody /\ call'[d].user = file'.user
        BY <2>1, <3>1, <3>3 DEF AccountInv, ProviderOK
      <4> QED
        BY <4>1, <4>2, <3>11 DEF ProviderOK
    <3> QED
      BY <3>3, <3>7, <3>8, <3>10, <3>12 DEF AccountInv
  <2> QED
    BY <2>1, <2>4, <2>5
<1> QED
  BY <1>1, <1>2

\* The provider is given a password or a name: of the profile's user.
LEMMA SyncStep ==
  ASSUME AccountInv, NEW b \in Browsers, A!SyncPassword(b) \/ A!SyncName(b)
  PROVE  AccountInv'
<1> DEFINE c == call[b]
<1>0. /\ session \in [Browsers -> A!Numbers \cup {Nobody}]
      /\ DOMAIN factors \subseteq A!Numbers /\ \A f \in DOMAIN factors : factors[f] \in BOOLEAN
      /\ calls \in A!Numbers /\ c \in Calling
      /\ users \in [Emails -> Owning \cup {Nobody}]
  BY DEF AccountInv, A!TypeOK, Owning
<1>1. /\ c.do \in {"password", "name"}
      /\ call' = [call EXCEPT ![b] = A!Idle]
      /\ UNCHANGED <<file, pg, missed, factors, objects, calls>>
      /\ \/ UNCHANGED <<users, last, session>> /\ A!Fails
         \/ /\ users' = [users EXCEPT ![c.user].pw = c.n]
            /\ last' = [last EXCEPT !.ok = c.alone /\ last.pw = c.n]
            /\ c.do = "password"
            /\ UNCHANGED <<faults, session>>
         \/ /\ users' = [users EXCEPT ![c.user].name = c.n]
            /\ session' = [session EXCEPT ![b] = c.n]
            /\ UNCHANGED <<faults, last>>
  BY DEF A!SyncPassword, A!SyncName, A!Does, A!End, A!Becomes, A!stores
<1>2. /\ c.n \in A!Numbers /\ file # Nobody /\ c.user = file.user /\ c.user \in Emails
      /\ (c.do = "password" => c.alone \in BOOLEAN)
  BY <1>0, <1>1, CallingIs DEF AccountInv, ProviderOK
<1>3. users[c.user] \in Owning
  BY <1>0, <1>2 DEF AccountInv, StoresOK
<1>4. ~InFlight(c)
  BY <1>1 DEF InFlight
<1>5. CASE UNCHANGED <<users, last, session>> /\ A!Fails
  BY <1>0, <1>1, <1>4, <1>5, QuietCall, IdleCall
<1>6. CASE \/ /\ users' = [users EXCEPT ![c.user].pw = c.n]
               /\ last' = [last EXCEPT !.ok = c.alone /\ last.pw = c.n]
               /\ c.do = "password"
               /\ UNCHANGED <<faults, session>>
            \/ /\ users' = [users EXCEPT ![c.user].name = c.n]
               /\ session' = [session EXCEPT ![b] = c.n]
               /\ UNCHANGED <<faults, last>>
  <2>1. PICK u : /\ users' = [users EXCEPT ![c.user] = u] /\ u \in Owning
                 /\ session' \in [Browsers -> A!Numbers \cup {Nobody}]
                 /\ last' \in [pw : A!Numbers, ok : BOOLEAN]
                 /\ last'.ok => u.pw = last'.pw
    <3>1. last \in [pw : A!Numbers, ok : BOOLEAN] /\ (last.ok => users[c.user].pw = last.pw)
      BY <1>2 DEF AccountInv, A!TypeOK, ProviderOK
    <3>2. CASE /\ users' = [users EXCEPT ![c.user].pw = c.n]
               /\ last' = [last EXCEPT !.ok = c.alone /\ last.pw = c.n]
               /\ c.do = "password" /\ UNCHANGED session
      <4>1. [users[c.user] EXCEPT !.pw = c.n] \in Owning /\ [users[c.user] EXCEPT !.pw = c.n].pw = c.n
        BY <1>2, <1>3 DEF Owning
      <4>2. users' = [users EXCEPT ![c.user] = [users[c.user] EXCEPT !.pw = c.n]]
        BY <3>2
      <4>3. /\ last' \in [pw : A!Numbers, ok : BOOLEAN]
            /\ last'.ok => c.n = last'.pw
        BY <1>2, <3>1, <3>2
      <4> QED
        BY <1>0, <3>2, <4>1, <4>2, <4>3
    <3>3. CASE /\ users' = [users EXCEPT ![c.user].name = c.n]
               /\ session' = [session EXCEPT ![b] = c.n] /\ last' = last
      <4>1. /\ [users[c.user] EXCEPT !.name = c.n] \in Owning
            /\ [users[c.user] EXCEPT !.name = c.n].pw = users[c.user].pw
        BY <1>2, <1>3 DEF Owning
      <4>2. users' = [users EXCEPT ![c.user] = [users[c.user] EXCEPT !.name = c.n]]
        BY <3>3
      <4>3. session' \in [Browsers -> A!Numbers \cup {Nobody}]
        BY <1>0, <1>2, <3>3
      <4> QED
        BY <3>1, <3>3, <4>1, <4>2, <4>3
    <3> QED
      BY <1>1, <1>6, <3>2, <3>3
  <2>2. users' \in [Emails -> Owning \cup {Nobody}] /\ users'[file.user] = u /\ u # Nobody
    BY <1>0, <1>2, <2>1, AccountFacts
  <2>3. call' \in [Browsers -> Calling] /\ DOMAIN call' = Browsers
        /\ call'[b] = A!Idle /\ \A d \in Browsers \ {b} : call'[d] = call[d]
    BY <1>1, AccountTurn, IdleCall
  <2>4. A!TypeOK'
    BY <1>1, <1>6, <2>1, <2>2, <2>3 DEF AccountInv, A!TypeOK, A!Numbers, A!Profiles, Owning
  <2>5. NumbersUsed' /\ UploadsOK' /\ NamedOK'
    BY <1>1, <1>4, PlainPhotos, IdleCall
  <2>6. StoresOK'
    BY <1>1, <2>2 DEF AccountInv, StoresOK
  <2>7. ProviderOK'
    <3>1. \A d \in Browsers : call'[d].do \in {"password", "name"} =>
               file' # Nobody /\ call'[d].user = file'.user
      BY <1>1, <2>3, IdleCall DEF AccountInv, ProviderOK
    <3> QED
      BY <1>1, <1>2, <2>1, <2>2, <3>1 DEF ProviderOK
  <2> QED
    BY <2>3, <2>4, <2>5, <2>6, <2>7 DEF AccountInv
<1> QED
  BY <1>1, <1>5, <1>6

\* A change of the profile by a signed-in browser that is not about the photo.
LEMMA ChangeStep ==
  ASSUME AccountInv, NEW b \in Browsers, A!ChangePassword(b) \/ A!ChangeName(b)
  PROVE  AccountInv'
<1>0. /\ file \in A!Profiles \cup {Nobody} /\ pg \in A!Profiles \cup {Nobody}
      /\ call[b] \in Calling
      /\ A!SetUp
  BY DEF AccountInv, A!TypeOK, A!ChangePassword, A!ChangeName, A!SignedIn
<1>1. /\ file # Nobody /\ A!User \in A!Profiles /\ A!User.user = file.user
      /\ A!User = pg \/ A!User = file
      /\ missed = 0 => A!User = file
  BY <1>0, AccountFacts
<1>2. PICK p, q :
        /\ p \in A!Profiles /\ p.user = file.user /\ p.photo = A!User.photo /\ A!Save(p)
        /\ q \in Calling /\ q.do \in {"password", "name"} /\ q.user = file.user
        /\ q.n = calls + 1
        /\ call' = [call EXCEPT ![b] = q] /\ call[b].do = "idle"
        /\ calls < MaxCalls["account"] /\ calls' = calls + 1
        /\ last' = last \/ last' = [pw |-> calls + 1, ok |-> FALSE]
        /\ UNCHANGED <<users, factors, objects, session, faults>>
  <2>1. A!User.user \in Emails
    BY <1>1 DEF A!Profiles
  <2>2. CASE A!ChangePassword(b)
    <3> DEFINE p == [A!User EXCEPT !.pw = calls + 1]
               alone == ~\E c \in Browsers : A!Does(c, "password")
               q == [do |-> "password", user |-> A!User.user, n |-> calls + 1, alone |-> alone]
    <3>1. /\ A!Save(p) /\ call' = [call EXCEPT ![b] = q] /\ call[b].do = "idle"
          /\ calls < MaxCalls["account"] /\ calls' = calls + 1
          /\ last' = [pw |-> calls + 1, ok |-> FALSE]
          /\ UNCHANGED <<users, factors, objects, session, faults>>
      BY <2>2 DEF A!ChangePassword, A!Begin, A!Becomes, A!Does
    <3>2. calls + 1 \in A!Numbers
      BY <3>1, NewNumber
    <3>3. p \in A!Profiles /\ p.user = A!User.user /\ p.photo = A!User.photo
      BY <1>1, <3>2 DEF A!Profiles
    <3>4. q \in Calling /\ q.do = "password" /\ q.user = A!User.user /\ q.n = calls + 1
      BY <2>1, <3>2 DEF Calling
    <3> HIDE DEF p, q
    <3> QED
      BY <1>1, <3>1, <3>3, <3>4
  <2>3. CASE A!ChangeName(b)
    <3> DEFINE p == [A!User EXCEPT !.name = calls + 1]
               q == [do |-> "name", user |-> A!User.user, n |-> calls + 1]
    <3>1. /\ A!Save(p) /\ call' = [call EXCEPT ![b] = q] /\ call[b].do = "idle"
          /\ calls < MaxCalls["account"] /\ calls' = calls + 1
          /\ UNCHANGED <<users, factors, objects, session, faults, last>>
      BY <2>3 DEF A!ChangeName, A!Begin, A!Becomes, A!Does
    <3>2. calls + 1 \in A!Numbers
      BY <3>1, NewNumber
    <3>3. p \in A!Profiles /\ p.user = A!User.user /\ p.photo = A!User.photo
      BY <1>1, <3>2 DEF A!Profiles
    <3>4. q \in Calling /\ q.do = "name" /\ q.user = A!User.user /\ q.n = calls + 1
      BY <2>1, <3>2 DEF Calling
    <3> HIDE DEF p, q
    <3> QED
      BY <1>1, <3>1, <3>3, <3>4
  <2> QED
    BY <2>2, <2>3
<1>3. /\ calls' \in A!Numbers /\ calls \in Nat /\ calls < calls + 1 /\ calls' = calls + 1
  BY <1>2, NewNumber
<1>4. users'[p.user] # Nobody
  BY <1>1, <1>2 DEF AccountInv, StoresOK
<1>5. /\ file' = p /\ file' # Nobody /\ pg' \in A!Profiles \cup {Nobody}
      /\ pg' = p \/ pg' = pg
      /\ missed' \in 0..MaxMissed /\ (missed' = 0 => missed = 0 /\ pg' = p)
      /\ StoresOK'
  BY <1>1, <1>2, <1>4, SaveIs
<1>6. call' \in [Browsers -> Calling] /\ DOMAIN call' = Browsers
      /\ call'[b] = q /\ \A d \in Browsers \ {b} : call'[d] = call[d]
  BY <1>2, AccountTurn
<1>7. ~InFlight(q) /\ ~InFlight(call[b])
  BY <1>2 DEF InFlight
<1>8. /\ p.photo = file.photo \/ (pg # Nobody /\ p.photo = pg.photo)
      /\ missed = 0 => p.photo = file.photo
  BY <1>0, <1>1, <1>2, AccountFacts
<1>9. A!TypeOK'
  <2>1. last' \in [pw : A!Numbers, ok : BOOLEAN]
    <3>1. calls + 1 \in A!Numbers /\ last \in [pw : A!Numbers, ok : BOOLEAN]
      BY <1>3 DEF AccountInv, A!TypeOK
    <3>2. [pw |-> calls + 1, ok |-> FALSE] \in [pw : A!Numbers, ok : BOOLEAN]
      BY <3>1
    <3> QED
      BY <1>2, <3>1, <3>2
  <2> QED
    BY <1>2, <1>3, <1>5, <1>6, <2>1 DEF AccountInv, A!TypeOK, A!Numbers, A!Profiles
<1>10. NumbersUsed'
  <2>1. \A d \in Browsers : call[d].do \notin {"idle", "login"} => call[d].n \in Nat
    BY CallingIs, AccountFacts DEF AccountInv, Calling, InFlight, A!Numbers, A!Idle
  <2>2. \A d \in Browsers : InFlight(call[d]) => call[d].previous \in Nat
    BY CallingIs, AccountFacts DEF AccountInv, A!Numbers
  <2>3. p.photo \in Nat /\ p.photo <= calls /\ (pg # Nobody => pg.photo \in Nat)
    BY <1>0, <1>1, <1>2, <1>8, AccountFacts DEF AccountInv, NumbersUsed, A!Profiles, A!Numbers
  <2> QED
    BY <1>1, <1>2, <1>3, <1>5, <1>6, <1>7, <2>1, <2>2, <2>3 DEF AccountInv, NumbersUsed
<1>11. UploadsOK'
  BY <1>1, <1>2, <1>5, <1>6, <1>7, <1>8 DEF AccountInv, UploadsOK, InFlight
<1>12. NamedOK'
  BY <1>1, <1>2, <1>5, <1>6, <1>7, <1>8 DEF AccountInv, NamedOK, InFlight
<1>13. ProviderOK'
  <2>1. last'.ok => last' = last
    BY <1>2
  <2>2. \A d \in Browsers : call'[d].do \in {"password", "name"} =>
             file' # Nobody /\ call'[d].user = file'.user
    BY <1>1, <1>2, <1>5, <1>6 DEF AccountInv, ProviderOK
  <2> QED
    BY <1>1, <1>2, <1>5, <2>1, <2>2 DEF AccountInv, ProviderOK
<1> QED
  BY <1>5, <1>6, <1>9, <1>10, <1>11, <1>12, <1>13 DEF AccountInv

\* The first profile: no browser changes one yet.
LEMMA FirstProfile == ASSUME AccountInv, NEW b \in Browsers, A!CreateProfile(b) PROVE AccountInv'
<1> DEFINE c == call[b]
           p == [name |-> c.n, pw |-> c.n, photo |-> IF c.photo THEN c.n ELSE 0, user |-> c.user]
<1>1. /\ c.do = "record" /\ file = Nobody
      /\ A!Save(p)
      /\ session' = [session EXCEPT ![b] = c.n]
      /\ last' = [pw |-> c.n, ok |-> TRUE]
      /\ call' = [call EXCEPT ![b] = A!Idle]
      /\ UNCHANGED <<users, factors, objects, calls, faults>>
  BY AccountFacts DEF A!CreateProfile, A!Does, A!End, A!Becomes
<1>2. /\ c \in Calling
      /\ c.user \in Emails /\ c.n \in A!Numbers /\ c.photo \in BOOLEAN /\ c.n <= calls
      /\ users[c.user] = [pw |-> c.n, name |-> c.n] /\ (c.photo => c.n \in objects)
  BY <1>1, CallingIs DEF AccountInv, NumbersUsed, ProviderOK, UploadsOK
<1>3. 0 \in A!Numbers /\ A!Numbers \subseteq Nat
  BY AccountFacts DEF A!Numbers
<1>4. p \in A!Profiles /\ p.user = c.user /\ p.photo \in {0, c.n} /\ (p.photo # 0 => c.photo)
  BY <1>2, <1>3 DEF A!Profiles
<1> HIDE DEF p
<1>5. users'[p.user] # Nobody /\ users'[p.user].pw = c.n
  <2>1. [pw |-> c.n, name |-> c.n] \in Owning
    BY <1>2 DEF Owning
  <2> QED
    BY <1>1, <1>2, <1>4, <2>1, AccountFacts
<1>6. /\ file' = p /\ file' # Nobody /\ pg' \in A!Profiles \cup {Nobody}
      /\ pg' = p \/ pg' = pg
      /\ missed' \in 0..MaxMissed /\ (missed' = 0 => missed = 0 /\ pg' = p)
      /\ StoresOK'
  BY <1>1, <1>4, <1>5, SaveIs
<1>7. pg = Nobody
  BY <1>1 DEF AccountInv, StoresOK
<1>8. call' \in [Browsers -> Calling] /\ DOMAIN call' = Browsers
      /\ call'[b] = A!Idle /\ \A d \in Browsers \ {b} : call'[d] = call[d]
  BY <1>1, AccountTurn, IdleCall
<1>9. \A d \in Browsers : ~InFlight(call'[d]) /\ call'[d].do \notin {"password", "name"}
  BY <1>1, <1>8, IdleCall DEF AccountInv, UploadsOK, ProviderOK
<1>10. A!TypeOK'
  <2>1. last' \in [pw : A!Numbers, ok : BOOLEAN]
    BY <1>1, <1>2
  <2>2. session' \in [Browsers -> A!Numbers \cup {Nobody}]
    BY <1>1, <1>2 DEF AccountInv, A!TypeOK
  <2> QED
    BY <1>1, <1>4, <1>6, <1>8, <2>1, <2>2 DEF AccountInv, A!TypeOK, A!Numbers, A!Profiles
<1>11. NumbersUsed'
  BY <1>1, <1>2, <1>3, <1>4, <1>6, <1>7, <1>8, <1>9, IdleCall DEF AccountInv, NumbersUsed, A!TypeOK, A!Numbers
<1>12. UploadsOK' /\ NamedOK'
  <2>1. UploadsOK'
    BY <1>6, <1>9 DEF UploadsOK
  <2>2. NamedOK'
    BY <1>1, <1>2, <1>4, <1>6 DEF NamedOK
  <2> QED
    BY <2>1, <2>2
<1>13. ProviderOK'
  <2>1. last'.pw = c.n
    BY <1>1
  <2> QED
    BY <1>5, <1>6, <1>9, <2>1 DEF ProviderOK
<1> QED
  BY <1>6, <1>8, <1>10, <1>11, <1>12, <1>13 DEF AccountInv

\* The photo of a set-up.
LEMMA AvatarStep == ASSUME AccountInv, NEW b \in Browsers, A!Avatar(b) PROVE AccountInv'
<1> DEFINE c == call[b]
           q == [c EXCEPT !.do = "record"]
<1>1. /\ c.do = "avatar"
      /\ \/ objects' = objects \cup {c.n} /\ call' = [call EXCEPT ![b] = q]
         \/ UNCHANGED objects /\ call' = [call EXCEPT ![b] = A!Idle]
      /\ UNCHANGED <<file, pg, missed, users, factors, session, calls, faults, last>>
  BY DEF A!Avatar, A!Does, A!End, A!Becomes, A!stores
<1>2. /\ c \in Calling
      /\ c.user \in Emails /\ c.n \in A!Numbers /\ c.n <= calls /\ ~InFlight(c)
  BY <1>1, CallingIs DEF AccountInv, NumbersUsed, InFlight
<1>3. q \in Calling /\ q.do = "record" /\ q.n = c.n /\ q.user = c.user
  BY <1>1, <1>2, CallingTurns
<1>4. ~InFlight(q)
  BY <1>3 DEF InFlight
<1> HIDE DEF q
<1>5. CASE UNCHANGED objects /\ call' = [call EXCEPT ![b] = A!Idle]
  BY <1>1, <1>2, <1>5, QuietCall, IdleCall DEF AccountInv, A!TypeOK
<1>6. CASE objects' = objects \cup {c.n} /\ call' = [call EXCEPT ![b] = q]
  <2>1. call' \in [Browsers -> Calling] /\ DOMAIN call' = Browsers
        /\ call'[b] = q /\ \A d \in Browsers \ {b} : call'[d] = call[d]
    BY <1>3, <1>6, AccountTurn
  <2>2. A!TypeOK'
    BY <1>1, <1>2, <1>6, <2>1 DEF AccountInv, A!TypeOK, A!Numbers, A!Profiles
  <2>3. NumbersUsed'
    BY <1>1, <1>2, <1>3, <1>4, <2>1 DEF AccountInv, NumbersUsed
  <2>4. UploadsOK'
    BY <1>1, <1>2, <1>3, <1>4, <1>6, <2>1 DEF AccountInv, UploadsOK
  <2>5. NamedOK'
    BY <1>1, <1>2, <1>6, <2>1 DEF AccountInv, NamedOK, InFlight
  <2>6. StoresOK'
    BY <1>1 DEF AccountInv, StoresOK
  <2>7. ProviderOK'
    BY <1>1, <1>3, <2>1 DEF AccountInv, ProviderOK
  <2> QED
    BY <2>1, <2>2, <2>3, <2>4, <2>5, <2>6, <2>7 DEF AccountInv
<1> QED
  BY <1>1, <1>5, <1>6

\* What a step of a photo's request leaves as it was.
LEMMA PhotoFrame ==
  ASSUME AccountInv, NEW b \in Browsers, NEW q \in Calling, InFlight(q) \/ q = A!Idle,
         call' = [call EXCEPT ![b] = q],
         objects' \subseteq A!Numbers, calls' \in A!Numbers,
         faults' = faults \/ A!Fails,
         UNCHANGED <<file, pg, missed, users, factors, session, last>>
  PROVE  A!TypeOK' /\ StoresOK' /\ ProviderOK'
<1>1. faults' \in 0..MaxFaults["account"]
  BY AccountFacts DEF AccountInv, A!TypeOK, A!Fails
<1>2. DOMAIN call' = Browsers /\ call'[b] = q /\ \A d \in Browsers \ {b} : call'[d] = call[d]
  BY AccountTurn
<1>3. q.do \notin {"password", "name", "avatar", "record"}
  BY IdleCall DEF InFlight
<1>4. A!TypeOK'
  BY <1>1, <1>2 DEF AccountInv, A!TypeOK, A!Numbers, A!Profiles
<1>5. StoresOK'
  BY DEF AccountInv, StoresOK
<1>6. ProviderOK'
  BY <1>2, <1>3 DEF AccountInv, ProviderOK
<1> QED
  BY <1>4, <1>5, <1>6

\* A photo is to be changed: its number is new, and the one to be removed is
\* the photo the profile names.
LEMMA PhotoBegins ==
  ASSUME AccountInv, NEW b \in Browsers, A!Upload(b) \/ A!DeletePhoto(b)
  PROVE  AccountInv'
<1>0. /\ file \in A!Profiles \cup {Nobody} /\ pg \in A!Profiles \cup {Nobody}
      /\ objects \subseteq A!Numbers /\ A!SetUp
  BY DEF AccountInv, A!TypeOK, A!Upload, A!DeletePhoto, A!SignedIn
<1>1. /\ file # Nobody /\ A!User \in A!Profiles
      /\ A!User = pg \/ A!User = file
      /\ A!Numbers \subseteq Nat
  BY <1>0, AccountFacts DEF A!Numbers
<1>2. PICK q : /\ q \in [do : {"upload", "replace", "point"}, n : {0, calls + 1}, previous : {A!User.photo}]
               /\ q.do = "replace" => q.n = 0
               /\ q.do # "point"
               /\ call' = [call EXCEPT ![b] = q] /\ call[b].do = "idle"
               /\ calls < MaxCalls["account"] /\ calls' = calls + 1
               /\ UNCHANGED <<file, pg, missed, users, factors, objects, session, faults, last>>
  <2>1. CASE A!Upload(b)
    <3>1. /\ call' = [call EXCEPT ![b] = [do |-> "upload", n |-> calls + 1, previous |-> A!User.photo]]
          /\ call[b].do = "idle"
          /\ calls < MaxCalls["account"] /\ calls' = calls + 1
          /\ UNCHANGED <<file, pg, missed, users, factors, objects, session, faults, last>>
      BY <2>1 DEF A!Upload, A!Begin, A!Becomes, A!Does, A!stores
    <3> QED
      BY <3>1
  <2>2. CASE A!DeletePhoto(b)
    <3>1. /\ call' = [call EXCEPT ![b] = [do |-> "replace", n |-> 0, previous |-> A!User.photo]]
          /\ call[b].do = "idle"
          /\ calls < MaxCalls["account"] /\ calls' = calls + 1
          /\ UNCHANGED <<file, pg, missed, users, factors, objects, session, faults, last>>
      BY <2>2 DEF A!DeletePhoto, A!Begin, A!Becomes, A!Does, A!stores
    <3> QED
      BY <3>1
  <2> QED
    BY <2>1, <2>2
<1>3. /\ calls' \in A!Numbers /\ calls \in Nat /\ calls < calls + 1 /\ calls' = calls + 1
      /\ calls + 1 # 0
  BY <1>2, NewNumber
<1>4. A!User.photo \in A!Numbers /\ A!User.photo \in Nat /\ A!User.photo <= calls
  BY <1>0, <1>1, AccountFacts DEF AccountInv, NumbersUsed, A!Profiles
<1>5. 0 \in A!Numbers
  BY AccountFacts DEF A!Numbers
<1>6. q \in Calling /\ InFlight(q) /\ q.n \in {0, calls + 1} /\ q.previous = A!User.photo
      /\ (q.do # "upload" => q.n = 0)
  BY <1>2, <1>3, <1>4, <1>5 DEF Calling, InFlight
<1>7. call' \in [Browsers -> Calling] /\ DOMAIN call' = Browsers
      /\ call'[b] = q /\ \A d \in Browsers \ {b} : call'[d] = call[d]
  BY <1>2, <1>6, AccountTurn
<1>8. A!TypeOK' /\ StoresOK' /\ ProviderOK'
  <2>1. /\ objects' \subseteq A!Numbers /\ calls' \in A!Numbers
        /\ faults' = faults \/ A!Fails
        /\ UNCHANGED <<file, pg, missed, users, factors, session, last>>
    BY <1>0, <1>2, <1>3
  <2> QED
    BY <1>2, <1>6, <2>1, PhotoFrame
<1>9. \A d \in Browsers : call[d].do \notin {"idle", "login"} => call[d].n \in Nat
  BY CallingIs, AccountFacts DEF AccountInv, Calling, InFlight, A!Numbers, A!Idle
<1>10. \A d \in Browsers : InFlight(call[d]) => call[d].previous \in Nat
  BY <1>1, CallingIs DEF AccountInv
<1>11. /\ file.photo \in Nat /\ file.photo <= calls
       /\ pg # Nobody => pg.photo \in Nat /\ pg.photo <= calls
  BY <1>0, <1>1 DEF AccountInv, A!Profiles, NumbersUsed
<1>12. NumbersUsed'
  BY <1>2, <1>3, <1>4, <1>6, <1>7, <1>9, <1>10, <1>11 DEF AccountInv, NumbersUsed
<1>13. ~InFlight(call[b]) /\ call[b].do # "record" /\ q.do # "record"
  BY <1>2, <1>6 DEF InFlight
<1>14. UploadsOK'
  <2>1. \A d \in Browsers : InFlight(call'[d]) => file' # Nobody
    BY <1>1, <1>2
  <2>2. ASSUME NEW d \in Browsers, InFlight(call'[d]), call'[d].n # 0
        PROVE  /\ call'[d].n # file'.photo /\ (pg' # Nobody => call'[d].n # pg'.photo)
               /\ call'[d].do # "upload" => call'[d].n \in objects'
    <3>1. CASE d = b
      BY <1>2, <1>3, <1>6, <1>7, <1>11, <2>2, <3>1
    <3>2. CASE d # b
      BY <1>2, <1>7, <2>2, <3>2 DEF AccountInv, UploadsOK
    <3> QED
      BY <3>1, <3>2
  <2>3. ASSUME NEW d \in Browsers, NEW e \in Browsers, InFlight(call'[d]), InFlight(call'[e]),
               call'[d].n # 0
        PROVE  call'[d].n # call'[e].previous /\ (d # e => call'[d].n # call'[e].n)
    <3>1. CASE d = b
      <4>1. q.n = calls + 1
        BY <1>6, <1>7, <2>3, <3>1
      <4>2. CASE e = b
        BY <1>3, <1>4, <1>6, <1>7, <3>1, <4>1, <4>2
      <4>3. CASE e # b
        <5>1. /\ call'[e] = call[e] /\ call[e].n \in Nat /\ call[e].n <= calls
              /\ call[e].previous \in Nat /\ call[e].previous <= calls
          BY <1>7, <1>9, <1>10, <2>3, <4>3 DEF AccountInv, NumbersUsed, InFlight
        <5> QED
          BY <1>3, <1>7, <3>1, <4>1, <5>1
      <4> QED
        BY <4>2, <4>3
    <3>2. CASE d # b /\ e = b
      <4>1. call'[d] = call[d] /\ call[d].n \in Nat /\ call[d].n <= calls /\ call[d].n # 0
            /\ call[d].n # file.photo /\ (pg # Nobody => call[d].n # pg.photo)
        BY <1>7, <1>9, <2>3, <3>2 DEF AccountInv, NumbersUsed, InFlight, UploadsOK
      <4>2. A!User = file \/ (pg # Nobody /\ A!User = pg)
        BY <1>1, AccountFacts
      <4> QED
        BY <1>3, <1>6, <1>7, <3>2, <4>1, <4>2
    <3>3. CASE d # b /\ e # b
      BY <1>7, <2>3, <3>3 DEF AccountInv, UploadsOK
    <3> QED
      BY <3>1, <3>2, <3>3
  <2> QED
    BY <1>1, <1>2, <2>1, <2>2, <2>3 DEF UploadsOK
<1>15. NamedOK'
  BY <1>2, <1>7 DEF AccountInv, NamedOK
<1> QED
  BY <1>7, <1>8, <1>12, <1>14, <1>15 DEF AccountInv

\* The photo is uploaded, or the request fails.
LEMMA UploadedStep == ASSUME AccountInv, NEW b \in Browsers, A!Uploaded(b) PROVE AccountInv'
<1> DEFINE c == call[b]
           r == [c EXCEPT !.do = "replace"]
<1>1. /\ c.do = "upload"
      /\ \/ objects' = objects \cup {c.n} /\ UNCHANGED faults /\ call' = [call EXCEPT ![b] = r]
         \/ UNCHANGED objects /\ A!Fails /\ call' = [call EXCEPT ![b] = A!Idle]
      /\ UNCHANGED <<file, pg, missed, users, factors, session, calls, last>>
  BY DEF A!Uploaded, A!Does, A!End, A!Becomes, A!stores
<1>2. c \in Calling /\ InFlight(c) /\ c.n \in A!Numbers /\ c.n <= calls /\ c.previous <= calls
  BY <1>1, CallingIs DEF AccountInv, NumbersUsed, InFlight
<1>3. r \in Calling /\ r.do = "replace" /\ r.n = c.n /\ r.previous = c.previous /\ InFlight(r)
  <2>1. r \in Calling /\ r.do = "replace" /\ r.n = c.n /\ r.previous = c.previous
    BY <1>1, <1>2, CallingTurns
  <2> QED
    BY <2>1 DEF InFlight
<1> HIDE DEF r
<1>4. PICK q : /\ q \in Calling /\ call' = [call EXCEPT ![b] = q]
               /\ q = A!Idle \/ (q = r /\ c.n \in objects')
  BY <1>1, <1>3, IdleCall
<1>5. call' \in [Browsers -> Calling] /\ DOMAIN call' = Browsers
      /\ call'[b] = q /\ \A d \in Browsers \ {b} : call'[d] = call[d]
  BY <1>4, AccountTurn
<1>6. objects \subseteq objects' /\ objects' \subseteq A!Numbers
  BY <1>1, <1>2 DEF AccountInv, A!TypeOK
<1>7. A!TypeOK' /\ StoresOK' /\ ProviderOK'
  BY <1>1, <1>3, <1>4, <1>6, PhotoFrame DEF AccountInv, A!TypeOK
<1>8. NumbersUsed'
  BY <1>1, <1>2, <1>3, <1>4, <1>5, IdleCall DEF AccountInv, NumbersUsed
<1>9. UploadsOK'
  <2>1. \A d \in Browsers : InFlight(call'[d]) =>
           /\ InFlight(call[d]) /\ call'[d].n = call[d].n /\ call'[d].previous = call[d].previous
           /\ call'[d].do # "upload" => call[d].do # "upload" \/ call[d].n \in objects'
    BY <1>2, <1>3, <1>4, <1>5, IdleCall
  <2>2. \A d \in Browsers : call'[d].do = "record" => call[d] = call'[d]
    BY <1>3, <1>4, <1>5, IdleCall
  <2>3. \A d \in Browsers : InFlight(call'[d]) => file' # Nobody
    BY <1>1, <2>1 DEF AccountInv, UploadsOK
  <2>4. \A d \in Browsers : InFlight(call'[d]) /\ call'[d].n # 0 =>
           /\ call'[d].n # file'.photo /\ (pg' # Nobody => call'[d].n # pg'.photo)
           /\ call'[d].do # "upload" => call'[d].n \in objects'
    BY <1>1, <1>6, <2>1 DEF AccountInv, UploadsOK
  <2>5. \A d, e \in Browsers : InFlight(call'[d]) /\ InFlight(call'[e]) /\ call'[d].n # 0 =>
           call'[d].n # call'[e].previous /\ (d # e => call'[d].n # call'[e].n)
    BY <2>1 DEF AccountInv, UploadsOK
  <2>6. \A d \in Browsers : call'[d].do = "record" /\ call'[d].photo /\ file' = Nobody =>
           call'[d].n \in objects'
    BY <1>1, <1>6, <2>2 DEF AccountInv, UploadsOK
  <2> QED
    BY <2>3, <2>4, <2>5, <2>6 DEF UploadsOK
<1>10. NamedOK'
  BY <1>1, <1>5, <1>6 DEF AccountInv, NamedOK
<1> QED
  BY <1>5, <1>7, <1>8, <1>9, <1>10 DEF AccountInv

\* The photo that was named is removed from the store, or stays there.
LEMMA RemoveStep == ASSUME AccountInv, NEW b \in Browsers, A!RemoveOld(b) PROVE AccountInv'
<1> DEFINE c == call[b]
           q == [c EXCEPT !.do = "point"]
<1>1. /\ c.do = "replace"
      /\ \/ objects' = objects \ {c.previous} /\ UNCHANGED faults
         \/ UNCHANGED objects /\ A!Fails
      /\ call' = [call EXCEPT ![b] = q]
      /\ UNCHANGED <<file, pg, missed, users, factors, session, calls, last>>
  BY DEF A!RemoveOld, A!Does, A!Becomes, A!stores
<1>2. c \in Calling /\ InFlight(c) /\ c.n <= calls /\ c.previous <= calls
  BY <1>1 DEF AccountInv, NumbersUsed, InFlight
<1>3. q \in Calling /\ q.do = "point" /\ q.n = c.n /\ q.previous = c.previous /\ InFlight(q)
  <2>1. q \in Calling /\ q.do = "point" /\ q.n = c.n /\ q.previous = c.previous
    BY <1>1, <1>2, CallingTurns
  <2> QED
    BY <2>1 DEF InFlight
<1> HIDE DEF q
<1>4. call' \in [Browsers -> Calling] /\ DOMAIN call' = Browsers
      /\ call'[b] = q /\ \A d \in Browsers \ {b} : call'[d] = call[d]
  BY <1>1, <1>3, AccountTurn
<1>5. objects' \subseteq A!Numbers /\ objects \subseteq objects' \cup {c.previous} /\ file # Nobody
  BY <1>1, <1>2 DEF AccountInv, A!TypeOK, UploadsOK
<1>6. A!TypeOK' /\ StoresOK' /\ ProviderOK'
  <2>1. /\ objects' \subseteq A!Numbers /\ calls' \in A!Numbers
        /\ faults' = faults \/ A!Fails
        /\ UNCHANGED <<file, pg, missed, users, factors, session, last>>
    BY <1>1, <1>5 DEF AccountInv, A!TypeOK
  <2> QED
    BY <1>1, <1>3, <2>1, PhotoFrame
<1>7. NumbersUsed'
  BY <1>1, <1>2, <1>3, <1>4 DEF AccountInv, NumbersUsed
<1>8. UploadsOK'
  <2>1. \A d \in Browsers : InFlight(call'[d]) =>
           /\ InFlight(call[d]) /\ call'[d].n = call[d].n /\ call'[d].previous = call[d].previous
           /\ call'[d].do # "upload" => call[d].do # "upload"
    BY <1>1, <1>2, <1>3, <1>4
  <2>2. \A d \in Browsers : InFlight(call'[d]) /\ call'[d].n # 0 =>
           /\ call'[d].n # file'.photo /\ (pg' # Nobody => call'[d].n # pg'.photo)
           /\ call'[d].n # c.previous
           /\ call'[d].do # "upload" => call'[d].n \in objects
    BY <1>1, <1>2, <2>1 DEF AccountInv, UploadsOK
  <2>3. \A d, e \in Browsers : InFlight(call'[d]) /\ InFlight(call'[e]) /\ call'[d].n # 0 =>
           call'[d].n # call'[e].previous /\ (d # e => call'[d].n # call'[e].n)
    BY <2>1 DEF AccountInv, UploadsOK
  <2> QED
    BY <1>1, <1>5, <2>2, <2>3 DEF UploadsOK
<1>9. NamedOK'
  BY <1>1, <1>3, <1>4, <1>5 DEF AccountInv, NamedOK
<1> QED
  BY <1>4, <1>6, <1>7, <1>8, <1>9 DEF AccountInv

\* The profile names the new photo, or none.
LEMMA PointStep == ASSUME AccountInv, NEW b \in Browsers, A!Point(b) PROVE AccountInv'
<1> DEFINE c == call[b]
           p == [A!User EXCEPT !.photo = c.n]
<1>1. /\ c.do = "point" /\ A!Save(p) /\ call' = [call EXCEPT ![b] = A!Idle]
      /\ UNCHANGED <<users, factors, objects, session, calls, faults, last>>
  BY DEF A!Point, A!Does, A!End, A!Becomes
<1>2. /\ c \in Calling /\ InFlight(c) /\ c.n \in A!Numbers /\ c.n <= calls /\ file # Nobody
      /\ c.n # 0 => c.n \in objects
  BY <1>1, CallingIs DEF AccountInv, NumbersUsed, InFlight, UploadsOK
<1>3. A!User \in A!Profiles /\ A!User.user = file.user
  BY <1>2, AccountFacts
<1>4. p \in A!Profiles /\ p.user = file.user /\ p.photo = c.n
  BY <1>2, <1>3 DEF A!Profiles
<1> HIDE DEF p
<1>5. users'[p.user] # Nobody
  BY <1>1, <1>2, <1>4 DEF AccountInv, StoresOK
<1>6. /\ file' = p /\ file' # Nobody /\ pg' \in A!Profiles \cup {Nobody}
      /\ pg' = p \/ pg' = pg
      /\ missed' \in 0..MaxMissed /\ (missed' = 0 => missed = 0 /\ pg' = p)
      /\ StoresOK'
  BY <1>1, <1>4, <1>5, SaveIs
<1>7. call' \in [Browsers -> Calling] /\ DOMAIN call' = Browsers
      /\ call'[b] = A!Idle /\ \A d \in Browsers \ {b} : call'[d] = call[d]
  BY <1>1, AccountTurn, IdleCall
<1>8. A!TypeOK'
  BY <1>1, <1>4, <1>6, <1>7 DEF AccountInv, A!TypeOK, A!Numbers, A!Profiles
<1>9. NumbersUsed'
  BY <1>1, <1>2, <1>4, <1>6, <1>7, IdleCall DEF AccountInv, NumbersUsed
<1>10. UploadsOK'
  <2>1. \A d \in Browsers : InFlight(call'[d]) => d # b /\ call'[d] = call[d]
    BY <1>7, IdleCall
  <2>2. \A d \in Browsers : InFlight(call'[d]) /\ call'[d].n # 0 => call'[d].n # c.n
    BY <1>2, <2>1 DEF AccountInv, UploadsOK
  <2>3. \A d \in Browsers : InFlight(call'[d]) /\ call'[d].n # 0 =>
           /\ call'[d].n # file'.photo /\ (pg' # Nobody => call'[d].n # pg'.photo)
           /\ call'[d].do # "upload" => call'[d].n \in objects'
    BY <1>1, <1>4, <1>6, <2>1, <2>2 DEF AccountInv, UploadsOK
  <2>4. \A d, e \in Browsers : InFlight(call'[d]) /\ InFlight(call'[e]) /\ call'[d].n # 0 =>
           call'[d].n # call'[e].previous /\ (d # e => call'[d].n # call'[e].n)
    BY <2>1 DEF AccountInv, UploadsOK
  <2> QED
    BY <1>6, <2>3, <2>4 DEF UploadsOK
<1>11. NamedOK'
  BY <1>1, <1>2, <1>4, <1>6 DEF NamedOK
<1>12. ProviderOK'
  <2>1. \A d \in Browsers : call'[d].do \in {"password", "name"} => call[d] = call'[d]
    BY <1>7, IdleCall
  <2> QED
    BY <1>1, <1>2, <1>4, <1>6, <2>1 DEF AccountInv, ProviderOK
<1> QED
  BY <1>6, <1>7, <1>8, <1>9, <1>10, <1>11, <1>12 DEF AccountInv

\* A change of a browser's request.
LEMMA AccountMoves == AccountInv /\ A!Next => AccountInv'
<1> SUFFICES ASSUME AccountInv, NEW b \in Browsers, A!Request(b) \/ A!Continue(b)
             PROVE  AccountInv'
  BY DEF A!Next
<1>1. CASE A!Request(b)
  BY <1>1, SetupStep, SigningStep, ChangeStep, PhotoBegins, FactorStep DEF A!Request
<1>2. CASE A!Continue(b)
  BY <1>2, SetupStep, SigningStep, SyncStep, FirstProfile, AvatarStep, UploadedStep, RemoveStep,
     PointStep, FactorStep DEF A!Continue
<1> QED
  BY <1>1, <1>2

\* The password last set is the one that signs in, and the photo the profile
\* names is in the store, whatever requests of other browsers overlapped
\* (Account; src/src/brokerai/web/routes/auth.py).
THEOREM AccountKeeps == Spec => []AccountKept
<1> DEFINE Inv == part = "account" => AccountInv
<1>1. Init => Inv
  <2>1. ASSUME A!Init PROVE AccountInv
    <3>1. call \in [Browsers -> Calling] /\ \A b \in Browsers : call[b].do = "idle" /\ ~InFlight(call[b])
      BY <2>1, IdleCall DEF A!Init
    <3>2. /\ MaxCalls["account"] \in Nat /\ MaxFaults["account"] \in Nat /\ MaxMissed \in Nat
      BY ServicesAssumption DEF Limited, Failing
    <3>3. A!TypeOK
      BY <2>1, <3>2 DEF A!Init, A!TypeOK, A!Numbers
    <3>4. NumbersUsed /\ StoresOK /\ ProviderOK /\ UploadsOK /\ NamedOK
      BY <2>1, <3>1 DEF A!Init, NumbersUsed, StoresOK, ProviderOK, UploadsOK, NamedOK
    <3> QED
      BY <3>1, <3>3, <3>4 DEF AccountInv
  <2> QED
    BY <2>1 DEF Init
<1>2. Inv /\ [Next]_all => Inv'
  <2> SUFFICES ASSUME Inv, [Next]_all, part' = "account" PROVE AccountInv'
    OBVIOUS
  <2>1. AccountInv /\ [A!Next]_A!vars
    BY PartStep
  <2>2. CASE UNCHANGED A!vars
    BY <2>1, <2>2 DEF A!vars, AccountInv, A!TypeOK, A!Numbers, A!Profiles, NumbersUsed, StoresOK,
       ProviderOK, UploadsOK, NamedOK
  <2> QED
    BY <2>1, <2>2, AccountMoves
<1>3. Inv => AccountKept
  <2> SUFFICES ASSUME AccountInv PROVE A!TypeOK /\ A!LastPasswordWorks /\ A!PhotoThere
    BY DEF AccountKept
  <2>1. A!LastPasswordWorks
    <3> SUFFICES ASSUME A!SetUp, last.ok PROVE A!Accepts(A!User, last.pw)
      BY DEF A!LastPasswordWorks
    <3>1. A!User.user = file.user /\ file # Nobody
      BY AccountFacts
    <3>2. users[file.user] # Nobody /\ users[file.user].pw = last.pw
      BY <3>1 DEF AccountInv, StoresOK, ProviderOK
    <3> QED
      BY <3>1, <3>2 DEF A!Accepts
  <2>2. A!PhotoThere
    <3> SUFFICES ASSUME A!SetUp, missed = 0, \A b \in Browsers : call[b].do \notin {"replace", "point"}
                 PROVE  A!User.photo = 0 \/ A!User.photo \in objects
      BY DEF A!PhotoThere
    <3>1. A!User = file /\ file # Nobody
      BY AccountFacts
    <3> QED
      BY <3>1 DEF AccountInv, NamedOK
  <2> QED
    BY <2>1, <2>2 DEF AccountInv
<1> QED
  BY <1>1, <1>2, <1>3, PTL DEF Spec

-----------------------------------------------------------------------------
(* Sources                                                                 *)

Naming == C!AllRoles \X C!Models

\* What the caller may be doing.
Managing ==
  {C!Idle}
    \cup [pc : {"insert"}, type : Types]
    \cup [pc : {"tick"}, model : C!Models, value : {"on", "off"}]
    \cup [pc : {"load", "prune"}, op : {"read"}, doc : SUBSET Naming]
    \cup [pc : {"load", "prune", "store"}, op : {"assign"}, role : C!AllRoles,
          models : SUBSET C!Models, doc : SUBSET Naming]
    \cup [pc : {"load", "prune", "store", "ticks"}, op : {"delete"}, model : C!Models,
          doc : SUBSET Naming]
    \cup [pc : {"load", "prune", "store", "ticks", "row"}, op : {"merge"}, extra : C!Models,
          keep : C!Models, plan : Seq(C!Models \X C!Models), doc : SUBSET Naming]

\* A role that was given is that of a model that is there.
Followed ==
  \A x \in expected : \E m \in C!Models :
    type[m] # "none" /\ type[m] = x[2] /\ <<x[1], m>> \in settings

\* The models that are to go are of the provider of the one that stays for
\* them, or gone already, and none of them stays for another.
Mergeable(types, extra, keep, todo) ==
  /\ extra # keep /\ types[extra] \in {"none", types[keep]}
  /\ \A i \in DOMAIN todo :
       /\ todo[i][1] # keep /\ todo[i][2] # extra
       /\ types[todo[i][1]] \in {"none", types[todo[i][2]]}
  /\ \A i, j \in DOMAIN todo : todo[i][1] # todo[j][2]

\* What the caller has read and decided is still so.
Timely(k) ==
  /\ k.pc \in {"prune", "store"} => k.doc = settings
  /\ k.pc = "store" => \A x \in settings : type[x[2]] # "none"
  /\ k.pc \in {"load", "prune", "store"} =>
       /\ k.op = "assign" => \A m \in k.models : type[m] # "none"
       /\ k.op = "delete" => type[k.model] = "none"
  /\ k.pc \in {"load", "prune", "store", "ticks", "row"} /\ k.op = "merge" =>
       Mergeable(type, k.extra, k.keep, k.plan)
  /\ k.pc \in {"ticks", "row"} /\ k.op = "merge" => \A x \in settings : x[2] # k.extra

SourcesInv ==
  /\ C!TypeOK /\ call \in [{Owner} -> Managing]
  /\ Followed /\ Timely(call[Owner])

\* Of finitely many numbers one is the greatest.
LEMMA Greatest ==
  ASSUME NEW set, set \subseteq Nat, IsFiniteSet(set), set # {}
  PROVE  \E m \in set : \A x \in set : x <= m
<1> DEFINE above(x) == {y \in set : y > x}
           sets == {above(x) : x \in set}
<1>1. sets \subseteq FiniteSubsetsOf(set) /\ sets # {}
  <2>1. \A x : above(x) \subseteq set /\ IsFiniteSet(above(x))
    BY FS_Subset
  <2> QED
    BY <2>1 DEF FiniteSubsetsOf
<1>2. PICK u \in sets : \A v \in sets : <<v, u>> \notin StrictSubsetOrdering(set)
  <2> HIDE DEF sets
  <2> QED
    BY <1>1, FS_StrictSubsetOrderingWellFounded, WFMin
<1>3. PICK x \in set : u = above(x)
  BY <1>2
<1>4. ASSUME NEW y \in set, y > x PROVE FALSE
  <2>1. <<above(y), above(x)>> \notin StrictSubsetOrdering(set)
    BY <1>2, <1>3
  <2>2. ~ (above(y) \subseteq above(x) /\ above(y) # above(x))
    BY <2>1 DEF StrictSubsetOrdering
  <2>3. y \in above(x) /\ y \notin above(y)
    BY <1>4
  <2>4. ASSUME NEW z \in above(y) PROVE z \in above(x)
    <3>1. z \in set /\ z > y /\ z \in Nat /\ y \in Nat /\ x \in Nat
      BY <2>4
    <3> QED
      BY <1>4, <3>1
  <2> HIDE DEF above
  <2> QED
    BY <2>2, <2>3, <2>4
<1> QED
  BY <1>4

LEMMA ModelsAre ==
  /\ Count \in Nat /\ C!Models \subseteq Nat /\ C!Models = 1..Count
  /\ \A set : set \subseteq C!Models => IsFiniteSet(set) /\ C!Cardinality(set) \in Nat
<1>1. Count \in Nat /\ C!Models = 1..Count
  BY ServicesAssumption DEF C!Models
<1>2. IsFiniteSet(C!Models)
  BY <1>1, FS_Interval
<1>3. \A set : C!Cardinality(set) = Cardinality(set)
  BY DEF C!Cardinality, Cardinality
<1>4. \A set : set \subseteq C!Models => IsFiniteSet(set) /\ Cardinality(set) \in Nat
  BY <1>2, FS_Subset, FS_CardinalityType
<1> QED
  BY <1>1, <1>3, <1>4

\* The number of the next model is that of none.
LEMMA NextModel ==
  ASSUME SourcesInv
  PROVE  1 + C!Max({0} \cup {m \in C!Models : C!Known(m)}) \notin {m \in C!Models : C!Known(m)}
<1> DEFINE had == {m \in C!Models : C!Known(m)}
<1>1. had \subseteq Nat /\ IsFiniteSet(had)
  BY ModelsAre
<1> HIDE DEF had
<1>2. {0} \cup had \subseteq Nat /\ IsFiniteSet({0} \cup had) /\ {0} \cup had # {}
  BY <1>1, FS_AddElement
<1>3. \E m \in {0} \cup had : \A x \in {0} \cup had : x <= m
  BY <1>2, Greatest
<1>4. \A x \in {0} \cup had : x <= C!Max({0} \cup had) /\ C!Max({0} \cup had) \in {0} \cup had
  BY <1>2, <1>3 DEF C!Max
<1> QED
  BY <1>2, <1>4 DEF had

\* Of the models of a provider there is a best one, which is of the provider.
LEMMA BestIs ==
  ASSUME NEW p, \E m \in C!Models : type[m] = p
  PROVE  C!Best(p) \in C!Models /\ type[C!Best(p)] = p
<1> DEFINE same == {m \in C!Models : type[m] = p}
           on == {m \in same : m \in enabled}
<1>1. \E m \in same : \A k \in same \ {m} : C!Better(m, k)
  <2>1. same \subseteq Nat /\ IsFiniteSet(same) /\ same # {} /\ on \subseteq Nat /\ IsFiniteSet(on)
    BY ModelsAre
  <2>2. CASE on = {}
    <3>1. PICK m \in same : \A x \in same : x <= m
      BY <2>1, Greatest
    <3>2. \A k \in same \ {m} : m > k /\ k \notin enabled
      BY <2>1, <2>2, <3>1
    <3> QED
      BY <2>2, <3>1, <3>2 DEF C!Better
  <2>3. CASE on # {}
    <3>1. PICK m \in on : \A x \in on : x <= m
      BY <2>1, <2>3, Greatest
    <3>2. \A k \in on \ {m} : m > k
      BY <2>1, <3>1
    <3> QED
      BY <3>1, <3>2 DEF C!Better
  <2> QED
    BY <2>2, <2>3
<1>2. \E m \in C!Models : type[m] = p /\ \A k \in C!Models \ {m} : type[k] = p => C!Better(m, k)
  BY <1>1
<1> QED
  BY <1>2 DEF C!Best

LEMMA ManagingTurn ==
  ASSUME SourcesInv, NEW q \in Managing, call' = [call EXCEPT ![Owner] = q]
  PROVE  call' \in [{Owner} -> Managing] /\ call'[Owner] = q
BY DEF SourcesInv

LEMMA ManagingIs ==
  ASSUME NEW r \in Managing
  PROVE  /\ r.pc = "insert" => r.type \in Types
         /\ r.pc = "tick" => r.model \in C!Models /\ r.value \in {"on", "off"}
         /\ r.pc \in {"load", "prune", "store"} =>
              r.op \in {"read", "assign", "delete", "merge"} /\ r.doc \subseteq Naming
         /\ r.pc \in {"load", "prune", "store"} /\ r.op = "assign" =>
              r.role \in C!AllRoles /\ r.models \subseteq C!Models
         /\ r.pc \in {"load", "prune", "store", "ticks"} /\ r.op = "delete" => r.model \in C!Models
         /\ r.pc \in {"load", "prune", "store", "ticks", "row"} /\ r.op = "merge" =>
              /\ r.extra \in C!Models /\ r.keep \in C!Models
              /\ r.plan \in Seq(C!Models \X C!Models)
         /\ r.pc \in {"ticks", "row"} => r.op \in {"delete", "merge"}
         /\ r.pc = "row" => r.op = "merge"
         /\ r.pc = "store" => r.op # "read"
         /\ r.pc \in {"idle", "insert", "tick", "load", "prune", "store", "ticks", "row"}
<1>1. CASE r.pc \in {"idle", "insert", "tick"}
  BY <1>1 DEF Managing, C!Idle
<1>2. CASE r.pc \in {"load", "prune"}
  BY <1>2 DEF Managing, C!Idle
<1>3. CASE r.pc \in {"store", "ticks", "row"}
  BY <1>3 DEF Managing, C!Idle
<1>4. r.pc \in {"idle", "insert", "tick", "load", "prune", "store", "ticks", "row"}
  BY DEF Managing, C!Idle
<1> QED
  BY <1>1, <1>2, <1>3, <1>4

\* A request at its next place, with what it has read.
Turned(r, to, d) == [r EXCEPT !.pc = to, !.doc = d]

LEMMA ManagingGoes ==
  ASSUME NEW r \in Managing, NEW to, NEW d \in SUBSET Naming,
         \/ r.pc = "load" /\ to = "prune"
         \/ r.pc = "prune" /\ to = "store" /\ r.op # "read"
         \/ r.pc = "store" /\ to = "ticks" /\ r.op # "assign"
  PROVE  /\ Turned(r, to, d) \in Managing
         /\ Turned(r, to, d).pc = to /\ Turned(r, to, d).doc = d /\ Turned(r, to, d).op = r.op
         /\ r.op = "assign" => Turned(r, to, d).role = r.role /\ Turned(r, to, d).models = r.models
         /\ r.op = "delete" => Turned(r, to, d).model = r.model
         /\ r.op = "merge" => /\ Turned(r, to, d).extra = r.extra /\ Turned(r, to, d).keep = r.keep
                              /\ Turned(r, to, d).plan = r.plan
<1>0. r.pc \in {"load", "prune", "store"} /\ r.op \in {"read", "assign", "delete", "merge"}
  BY ManagingIs
<1>1. CASE r.op = "read"
  <2>1. r \in [pc : {"load", "prune"}, op : {"read"}, doc : SUBSET Naming]
    BY <1>0, <1>1 DEF Managing, C!Idle
  <2> QED
    BY <1>1, <2>1, ManagingIs DEF Managing, Turned
<1>2. CASE r.op = "assign"
  <2>1. r \in [pc : {"load", "prune", "store"}, op : {"assign"}, role : C!AllRoles,
               models : SUBSET C!Models, doc : SUBSET Naming]
    BY <1>0, <1>2 DEF Managing, C!Idle
  <2> QED
    BY <1>2, <2>1 DEF Managing, Turned
<1>3. CASE r.op = "delete"
  <2>1. r \in [pc : {"load", "prune", "store", "ticks"}, op : {"delete"}, model : C!Models,
               doc : SUBSET Naming]
    BY <1>0, <1>3 DEF Managing, C!Idle
  <2> QED
    BY <1>3, <2>1 DEF Managing, Turned
<1>4. CASE r.op = "merge"
  <2>1. r \in [pc : {"load", "prune", "store", "ticks", "row"}, op : {"merge"}, extra : C!Models,
               keep : C!Models, plan : Seq(C!Models \X C!Models), doc : SUBSET Naming]
    BY <1>0, <1>4 DEF Managing, C!Idle
  <2> QED
    BY <1>4, <2>1 DEF Managing, Turned
<1> QED
  BY <1>0, <1>1, <1>2, <1>3, <1>4

\* A step that leaves the models there, the settings and what is expected.
LEMMA SourcesFrame ==
  ASSUME SourcesInv, NEW q \in Managing, call' = [call EXCEPT ![Owner] = q], Timely(q),
         calls' = calls \/ (calls < MaxCalls["sources"] /\ calls' = calls + 1),
         crashes' \in 0..MaxCrashes,
         enabled' \subseteq C!Models, ticked' \in [C!Models -> {"none", "on", "off"}],
         UNCHANGED <<type, settings, expected>>
  PROVE  SourcesInv'
<1>1. MaxCalls["sources"] \in Nat
  BY ServicesAssumption DEF Limited
<1>2. calls' \in 0..MaxCalls["sources"]
  BY <1>1 DEF SourcesInv, C!TypeOK
<1>3. call' \in [{Owner} -> Managing] /\ call'[Owner] = q
  BY ManagingTurn
<1>4. C!TypeOK'
  BY <1>2 DEF SourcesInv, C!TypeOK, C!Models, C!AllRoles, C!None
<1>5. Followed'
  BY DEF SourcesInv, Followed, C!Models
<1>6. Timely(call[Owner])'
  BY <1>3 DEF Timely, Mergeable
<1> QED
  BY <1>3, <1>4, <1>5, <1>6 DEF SourcesInv

\* What is made of the request, for the steps that start one or take a turn.
LEMMA SourcesIdle == C!Idle \in Managing /\ Timely(C!Idle)
BY DEF Managing, C!Idle, Timely

\* The requests that begin with a check.
LEMMA SourcesBegin ==
  ASSUME SourcesInv,
         \/ C!Create(Owner) \/ C!Read(Owner) \/ C!Assign(Owner)
         \/ \E m \in C!Models : C!Toggle(Owner, m) \/ C!Tick(Owner, m)
  PROVE  SourcesInv'
<1>0. /\ crashes \in 0..MaxCrashes /\ enabled \subseteq C!Models
      /\ ticked \in [C!Models -> {"none", "on", "off"}]
  BY DEF SourcesInv, C!TypeOK, C!None
<1>1. CASE C!Create(Owner)
  <2>1. PICK p \in Types :
          /\ call' = [call EXCEPT ![Owner] = [pc |-> "insert", type |-> p]]
          /\ calls < MaxCalls["sources"] /\ calls' = calls + 1
          /\ UNCHANGED <<crashes, type, enabled, settings, ticked, expected>>
    BY <1>1 DEF C!Create, C!Starts
  <2> DEFINE q == [pc |-> "insert", type |-> p]
  <2>2. q \in Managing /\ q.pc = "insert"
    BY DEF Managing
  <2>3. Timely(q)
    BY <2>2 DEF Timely
  <2> HIDE DEF q
  <2>4. call' = [call EXCEPT ![Owner] = q]
    BY <2>1 DEF q
  <2> QED
    BY <1>0, <2>1, <2>2, <2>3, <2>4, SourcesFrame
<1>2. CASE C!Read(Owner)
  <2> DEFINE q == [pc |-> "load", op |-> "read", doc |-> {}]
  <2>1. /\ call' = [call EXCEPT ![Owner] = q]
        /\ calls < MaxCalls["sources"] /\ calls' = calls + 1
        /\ UNCHANGED <<crashes, type, enabled, settings, ticked, expected>>
    BY <1>2 DEF C!Read, C!Starts
  <2>2. q \in Managing /\ q.pc = "load" /\ q.op = "read"
    BY DEF Managing
  <2>3. Timely(q)
    BY <2>2 DEF Timely
  <2> HIDE DEF q
  <2> QED
    BY <1>0, <2>1, <2>2, <2>3, SourcesFrame
<1>3. CASE C!Assign(Owner)
  <2>1. PICK role \in C!AllRoles, ms \in SUBSET C!Models :
          /\ \A m \in ms : C!Allowed(role, m)
          /\ C!Starts(Owner, [pc |-> "load", op |-> "assign", role |-> role, models |-> ms,
                              doc |-> {}])
    BY <1>3 DEF C!Assign
  <2> DEFINE q == [pc |-> "load", op |-> "assign", role |-> role, models |-> ms, doc |-> {}]
  <2>2. /\ call' = [call EXCEPT ![Owner] = q]
        /\ calls < MaxCalls["sources"] /\ calls' = calls + 1
        /\ UNCHANGED <<crashes, type, enabled, settings, ticked, expected>>
    BY <1>3, <2>1 DEF C!Assign, C!Starts
  <2>3. q \in Managing /\ q.pc = "load" /\ q.op = "assign" /\ q.models = ms
    BY DEF Managing
  <2>4. \A m \in ms : type[m] # "none"
    BY <2>1 DEF C!Allowed, C!Known, C!None
  <2> HIDE DEF q
  <2>5. Timely(q)
    BY <2>3, <2>4 DEF Timely
  <2> QED
    BY <1>0, <2>2, <2>3, <2>5, SourcesFrame
<1>4. ASSUME NEW m \in C!Models, C!Toggle(Owner, m) PROVE SourcesInv'
  <2>1. /\ call' = [call EXCEPT ![Owner] = C!Idle]
        /\ calls < MaxCalls["sources"] /\ calls' = calls + 1
        /\ UNCHANGED <<crashes, type, settings, ticked, expected>>
        /\ enabled' \subseteq C!Models
    BY <1>0, <1>4 DEF C!Toggle, C!Starts
  <2> QED
    BY <1>0, <2>1, SourcesIdle, SourcesFrame
<1>5. ASSUME NEW m \in C!Models, C!Tick(Owner, m) PROVE SourcesInv'
  <2>1. PICK v \in {"on", "off"} :
          /\ call' = [call EXCEPT ![Owner] = [pc |-> "tick", model |-> m, value |-> v]]
          /\ calls < MaxCalls["sources"] /\ calls' = calls + 1
          /\ UNCHANGED <<crashes, type, enabled, settings, ticked, expected>>
    BY <1>5 DEF C!Tick, C!Starts
  <2> DEFINE q == [pc |-> "tick", model |-> m, value |-> v]
  <2>2. q \in Managing /\ q.pc = "tick"
    BY DEF Managing
  <2>3. Timely(q)
    BY <2>2 DEF Timely
  <2> HIDE DEF q
  <2>4. call' = [call EXCEPT ![Owner] = q]
    BY <2>1 DEF q
  <2> QED
    BY <1>0, <2>1, <2>2, <2>3, <2>4, SourcesFrame
<1> QED
  BY <1>1, <1>2, <1>3, <1>4, <1>5

\* The first of the merges that are left can be begun.
LEMMA MergingIs ==
  ASSUME NEW types, NEW todo \in Seq(C!Models \X C!Models), todo # <<>>,
         \A i \in DOMAIN todo : types[todo[i][1]] \in {"none", types[todo[i][2]]},
         \A i, j \in DOMAIN todo : todo[i][1] # todo[j][2]
  PROVE  LET q == C!Merging(todo, "load") IN
         /\ q \in Managing /\ q.pc = "load" /\ q.op = "merge"
         /\ Mergeable(types, q.extra, q.keep, q.plan)
<1>1. /\ Len(todo) \in Nat /\ Len(todo) >= 1 /\ DOMAIN todo = 1..Len(todo) /\ 1 \in DOMAIN todo
      /\ todo[1] \in C!Models \X C!Models
  OBVIOUS
<1>2. /\ Tail(todo) \in Seq(C!Models \X C!Models)
      /\ \A i \in DOMAIN Tail(todo) : i + 1 \in DOMAIN todo /\ Tail(todo)[i] = todo[i + 1]
  BY <1>1
<1> DEFINE rest == Tail(todo)
<1> HIDE DEF rest
<1>3. /\ rest \in Seq(C!Models \X C!Models)
      /\ \A i \in DOMAIN rest : i + 1 \in DOMAIN todo /\ rest[i] = todo[i + 1]
  BY <1>2 DEF rest
<1>4. Mergeable(types, todo[1][1], todo[1][2], rest)
  BY <1>1, <1>3 DEF Mergeable
<1> DEFINE q == [pc |-> "load", op |-> "merge", extra |-> todo[1][1], keep |-> todo[1][2],
                 plan |-> rest, doc |-> {}]
<1>5. C!Merging(todo, "load") = q
  BY DEF C!Merging, rest
<1>6. q \in Managing
  BY <1>1, <1>3 DEF Managing
<1>7. /\ q.pc = "load" /\ q.op = "merge"
      /\ q.extra = todo[1][1] /\ q.keep = todo[1][2] /\ q.plan = rest
  OBVIOUS
<1> HIDE DEF q
<1> QED
  BY <1>4, <1>5, <1>6, <1>7

\* Listing the models plans what is to be merged.
LEMMA ListStep == ASSUME SourcesInv, C!List(Owner) PROVE SourcesInv'
<1> DEFINE c == C!Cardinality(C!Extras)
<1>1. PICK order \in [1..c -> C!Extras] :
        /\ C!Starts(Owner, IF [n \in DOMAIN order |-> <<order[n], C!Best(type[order[n]])>>] = <<>>
                           THEN C!Idle
                           ELSE C!Merging([n \in DOMAIN order |->
                                             <<order[n], C!Best(type[order[n]])>>], "load"))
        /\ UNCHANGED <<type, enabled, settings, ticked, expected>>
  BY DEF C!List
<1> DEFINE todo == [n \in DOMAIN order |-> <<order[n], C!Best(type[order[n]])>>]
           q == IF todo = <<>> THEN C!Idle ELSE C!Merging(todo, "load")
<1>2. /\ call' = [call EXCEPT ![Owner] = q]
      /\ calls < MaxCalls["sources"] /\ calls' = calls + 1 /\ UNCHANGED crashes
  BY <1>1 DEF C!Starts
<1>3. C!Extras \subseteq C!Models /\ c \in Nat /\ DOMAIN order = 1..c
  <2>1. C!Extras \subseteq C!Models
    BY DEF C!Extras
  <2> QED
    BY <2>1, <1>1, ModelsAre
<1>4. \A n \in 1..c : /\ order[n] \in C!Extras
                      /\ C!Best(type[order[n]]) \in C!Models \ C!Extras
                      /\ type[C!Best(type[order[n]])] = type[order[n]]
  <2> SUFFICES ASSUME NEW n \in 1..c
               PROVE  /\ order[n] \in C!Extras
                      /\ C!Best(type[order[n]]) \in C!Models \ C!Extras
                      /\ type[C!Best(type[order[n]])] = type[order[n]]
    OBVIOUS
  <2>1. order[n] \in C!Extras /\ order[n] \in C!Models
    BY <1>3
  <2>2. C!Best(type[order[n]]) \in C!Models /\ type[C!Best(type[order[n]])] = type[order[n]]
    BY <2>1, BestIs
  <2>3. C!Best(type[order[n]]) \notin C!Extras
    BY <2>2 DEF C!Extras
  <2> QED
    BY <2>1, <2>2, <2>3
<1>5. todo \in Seq(C!Models \X C!Models)
  <2>1. todo \in [1..c -> C!Models \X C!Models]
    BY <1>3, <1>4
  <2> QED
    BY <1>3, <2>1
<1>6. DOMAIN todo = 1..c /\ \A n \in 1..c : todo[n][1] = order[n] /\ todo[n][2] = C!Best(type[order[n]])
  BY <1>3
<1> HIDE DEF todo
<1>7. /\ \A i \in DOMAIN todo : type[todo[i][1]] \in {"none", type[todo[i][2]]}
      /\ \A i, j \in DOMAIN todo : todo[i][1] # todo[j][2]
  BY <1>4, <1>6
<1>8. q \in Managing /\ Timely(q)
  <2>1. CASE todo = <<>>
    BY <2>1, SourcesIdle
  <2>2. CASE todo # <<>>
    <3> DEFINE m == C!Merging(todo, "load")
    <3>1. m \in Managing /\ m.pc = "load" /\ m.op = "merge"
          /\ Mergeable(type, m.extra, m.keep, m.plan)
      BY <1>5, <1>7, <2>2, MergingIs
    <3>2. q = m
      BY <2>2
    <3> HIDE DEF m, q
    <3>3. Timely(m)
      BY <3>1 DEF Timely
    <3> QED
      BY <3>1, <3>2, <3>3
  <2> QED
    BY <2>1, <2>2
<1> HIDE DEF q
<1>9. /\ crashes' \in 0..MaxCrashes /\ enabled' \subseteq C!Models
      /\ ticked' \in [C!Models -> {"none", "on", "off"}]
  BY <1>1, <1>2 DEF SourcesInv, C!TypeOK, C!None
<1> QED
  BY <1>1, <1>2, <1>8, <1>9, SourcesFrame

\* What the capabilities' rows, a read of the settings and an end leave.
LEMMA SourcesTurns ==
  ASSUME SourcesInv, C!SaveTick(Owner) \/ C!Load(Owner) \/ C!Ticks(Owner) \/ C!Crash(Owner)
  PROVE  SourcesInv'
<1> DEFINE k == call[Owner]
<1>0. /\ crashes \in 0..MaxCrashes /\ enabled \subseteq C!Models
      /\ ticked \in [C!Models -> {"none", "on", "off"}] /\ MaxCrashes \in Nat
      /\ k \in Managing /\ Timely(k) /\ settings \subseteq Naming
  BY ServicesAssumption DEF SourcesInv, C!TypeOK, C!None, Naming
<1>1. CASE C!SaveTick(Owner)
  <2>1. /\ k.pc = "tick" /\ ticked' = [ticked EXCEPT ![k.model] = k.value]
        /\ call' = [call EXCEPT ![Owner] = C!Idle]
        /\ UNCHANGED <<calls, crashes, type, enabled, settings, expected>>
    BY <1>1 DEF C!SaveTick, C!Goes
  <2>2. ticked' \in [C!Models -> {"none", "on", "off"}]
    BY <1>0, <2>1, ManagingIs
  <2> QED
    BY <1>0, <2>1, <2>2, SourcesIdle, SourcesFrame
<1>2. CASE C!Load(Owner)
  <2> DEFINE q == Turned(k, "prune", settings)
  <2>1. /\ k.pc = "load" /\ call' = [call EXCEPT ![Owner] = q]
        /\ UNCHANGED <<calls, crashes, type, enabled, settings, ticked, expected>>
    BY <1>2 DEF C!Load, C!Goes, Turned
  <2>2. /\ q \in Managing /\ q.pc = "prune" /\ q.doc = settings /\ q.op = k.op
        /\ k.op = "assign" => q.models = k.models
        /\ k.op = "delete" => q.model = k.model
        /\ k.op = "merge" => q.extra = k.extra /\ q.keep = k.keep /\ q.plan = k.plan
    BY <1>0, <2>1, ManagingGoes
  <2> HIDE DEF q
  <2>3. Timely(q)
    BY <1>0, <2>1, <2>2 DEF Timely
  <2> QED
    BY <1>0, <2>1, <2>2, <2>3, SourcesFrame
<1>3. CASE C!Ticks(Owner)
  <2>1. /\ k.pc = "ticks"
        /\ IF k.op = "delete" THEN ticked' = [ticked EXCEPT ![k.model] = "none"]
           ELSE ticked' = [ticked EXCEPT ![k.extra] = "none",
                             ![k.keep] = IF @ = "none" THEN ticked[k.extra] ELSE @]
        /\ call' = [call EXCEPT ![Owner] = IF k.op = "delete" THEN C!Idle
                                           ELSE [k EXCEPT !.pc = "row"]]
        /\ UNCHANGED <<calls, crashes, type, enabled, settings, expected>>
    BY <1>3 DEF C!Ticks, C!Goes, C!None
  <2>2. k.op \in {"delete", "merge"}
    BY <1>0, <2>1, ManagingIs
  <2>3. CASE k.op = "delete"
    <3>1. ticked' \in [C!Models -> {"none", "on", "off"}]
      BY <1>0, <2>1, <2>3
    <3> QED
      BY <1>0, <2>1, <2>3, <3>1, SourcesIdle, SourcesFrame
  <2>4. CASE k.op = "merge"
    <3> DEFINE q == [k EXCEPT !.pc = "row"]
    <3>1. k \in [pc : {"load", "prune", "store", "ticks", "row"}, op : {"merge"}, extra : C!Models,
                 keep : C!Models, plan : Seq(C!Models \X C!Models), doc : SUBSET Naming]
      BY <1>0, <2>1, <2>4 DEF Managing, C!Idle
    <3>2. /\ q \in Managing /\ q.pc = "row" /\ q.op = "merge"
          /\ q.extra = k.extra /\ q.keep = k.keep /\ q.plan = k.plan
      BY <3>1 DEF Managing
    <3>3. ticked' \in [C!Models -> {"none", "on", "off"}]
      BY <1>0, <2>1, <2>4, <3>1
    <3>4. call' = [call EXCEPT ![Owner] = q]
      BY <2>1, <2>4
    <3> HIDE DEF q
    <3>5. Timely(q)
      BY <1>0, <2>1, <2>4, <3>2 DEF Timely
    <3> QED
      BY <1>0, <2>1, <3>2, <3>3, <3>4, <3>5, SourcesFrame
  <2> QED
    BY <2>2, <2>3, <2>4
<1>4. CASE C!Crash(Owner)
  <2>1. /\ call' = [call EXCEPT ![Owner] = C!Idle]
        /\ crashes < MaxCrashes /\ crashes' = crashes + 1
        /\ UNCHANGED <<calls, type, enabled, settings, ticked, expected>>
    BY <1>4 DEF C!Crash
  <2>2. crashes' \in 0..MaxCrashes
    BY <1>0, <2>1
  <2> QED
    BY <1>0, <2>1, <2>2, SourcesIdle, SourcesFrame
<1> QED
  BY <1>1, <1>2, <1>3, <1>4

\* What the steps leave that change the models there or the settings.
LEMMA SourcesKeep ==
  ASSUME SourcesInv, NEW q \in Managing, call' = [call EXCEPT ![Owner] = q], Timely(q)',
         type' \in [C!Models -> Types \cup {"none"}], enabled' \subseteq C!Models,
         settings' \subseteq Naming, expected' \subseteq C!AllRoles \X Types,
         calls' = calls \/ (calls < MaxCalls["sources"] /\ calls' = calls + 1),
         UNCHANGED <<ticked, crashes>>,
         Followed'
  PROVE  SourcesInv'
<1>1. MaxCalls["sources"] \in Nat
  BY ServicesAssumption DEF Limited
<1>2. calls' \in 0..MaxCalls["sources"]
  BY <1>1 DEF SourcesInv, C!TypeOK
<1>3. call' \in [{Owner} -> Managing] /\ call'[Owner] = q
  BY ManagingTurn
<1>4. C!TypeOK'
  BY <1>2 DEF SourcesInv, C!TypeOK, C!Models, C!AllRoles, C!None, Naming
<1>5. Timely(call[Owner])'
  BY <1>3 DEF Timely, Mergeable
<1> QED
  BY <1>3, <1>4, <1>5 DEF SourcesInv

\* A new model has no role yet.
LEMMA InsertStep == ASSUME SourcesInv, C!Insert(Owner) PROVE SourcesInv'
<1> DEFINE k == call[Owner]
<1>0. /\ type \in [C!Models -> Types \cup {"none"}] /\ enabled \subseteq C!Models
      /\ k \in Managing /\ Followed /\ settings \subseteq Naming /\ expected \subseteq C!AllRoles \X Types
  BY DEF SourcesInv, C!TypeOK, C!None, Naming
<1>1. PICK m \in C!Models, on \in BOOLEAN :
        /\ m = 1 + C!Max({0} \cup {h \in C!Models : C!Known(h)})
        /\ type' = [type EXCEPT ![m] = k.type]
        /\ enabled' = IF on THEN enabled \cup {m} ELSE enabled
        /\ k.pc = "insert" /\ call' = [call EXCEPT ![Owner] = C!Idle]
        /\ UNCHANGED <<calls, crashes, settings, ticked, expected>>
  BY DEF C!Insert, C!Goes
<1>2. type[m] = "none"
  BY <1>1, NextModel DEF C!Known, C!None
<1>3. k.type \in Types
  BY <1>0, <1>1, ManagingIs
<1>4. type' \in [C!Models -> Types \cup {"none"}] /\ enabled' \subseteq C!Models
  BY <1>0, <1>1, <1>3
<1>5. \A h \in C!Models : type[h] # "none" => type'[h] = type[h]
  BY <1>0, <1>1, <1>2
<1>6. Followed'
  BY <1>0, <1>1, <1>5 DEF Followed, C!Models
<1>7. Timely(C!Idle)'
  BY DEF Timely, C!Idle
<1> QED
  BY <1>0, <1>1, <1>4, <1>6, <1>7, SourcesIdle, SourcesKeep

\* Nothing is expected of a model that a user has deleted.
LEMMA DeleteStep ==
  ASSUME SourcesInv, NEW m \in C!Models, C!Delete(Owner, m) PROVE SourcesInv'
<1> DEFINE q == [pc |-> "load", op |-> "delete", model |-> m, doc |-> {}]
<1>0. /\ type \in [C!Models -> Types \cup {"none"}] /\ enabled \subseteq C!Models
      /\ Followed /\ settings \subseteq Naming /\ expected \subseteq C!AllRoles \X Types
  BY DEF SourcesInv, C!TypeOK, C!None, Naming
<1>1. /\ type' = [type EXCEPT ![m] = "none"] /\ enabled' = enabled \ {m}
      /\ expected' = expected \cap C!Given(C!Without(settings, m))
      /\ call' = [call EXCEPT ![Owner] = q]
      /\ calls < MaxCalls["sources"] /\ calls' = calls + 1
      /\ UNCHANGED <<crashes, settings, ticked>>
  BY DEF C!Delete, C!Starts, C!None
<1>2. q \in Managing /\ q.pc = "load" /\ q.op = "delete" /\ q.model = m
  BY DEF Managing
<1> HIDE DEF q
<1>3. type' \in [C!Models -> Types \cup {"none"}] /\ enabled' \subseteq C!Models
  BY <1>0, <1>1
<1>4. Followed'
  <2> SUFFICES ASSUME NEW x \in expected'
               PROVE  \E h \in C!Models : type'[h] # "none" /\ type'[h] = x[2] /\ <<x[1], h>> \in settings'
    BY DEF Followed, C!Models
  <2>1. x \in expected /\ \E y \in settings : y[2] # m /\ x = <<y[1], type[y[2]]>>
    BY <1>1 DEF C!Given, C!Without
  <2>2. PICK y \in settings : y[2] # m /\ x = <<y[1], type[y[2]]>>
    BY <2>1
  <2>3. y[2] \in C!Models /\ y = <<y[1], y[2]>>
    BY <1>0 DEF Naming
  <2>4. x[2] # "none" /\ x[1] = y[1] /\ x[2] = type[y[2]]
    BY <1>0, <2>1, <2>2 DEF Followed
  <2>5. type'[y[2]] = type[y[2]]
    BY <1>0, <1>1, <2>2, <2>3
  <2> QED
    BY <1>1, <2>3, <2>4, <2>5
<1>5. Timely(q)'
  <2>1. type'[m] = "none"
    BY <1>0, <1>1
  <2> QED
    BY <1>2, <2>1 DEF Timely
<1>6. expected' \subseteq C!AllRoles \X Types
  BY <1>0, <1>1
<1> QED
  BY <1>0, <1>1, <1>2, <1>3, <1>4, <1>5, <1>6, SourcesKeep

\* Whoever reads the settings takes out the models that are gone.
LEMMA PruneStep == ASSUME SourcesInv, C!Prune(Owner) PROVE SourcesInv'
<1>k. PICK k : k = call[Owner]
  OBVIOUS
<1>d. PICK kept : kept = {x \in settings : type[x[2]] # "none"}
  OBVIOUS
<1>q. PICK q : q = IF k.op = "read" THEN C!Idle ELSE Turned(k, "store", kept)
  OBVIOUS
<1>0. /\ type \in [C!Models -> Types \cup {"none"}] /\ enabled \subseteq C!Models
      /\ k \in Managing /\ Timely(k) /\ Followed
      /\ settings \subseteq Naming /\ expected \subseteq C!AllRoles \X Types
  BY <1>k DEF SourcesInv, C!TypeOK, C!None, Naming
<1>1. k.pc = "prune" /\ k.doc = settings
  BY <1>0, <1>k DEF C!Prune, Timely
<1>2. /\ settings' = kept /\ call' = [call EXCEPT ![Owner] = q]
      /\ UNCHANGED <<calls, crashes, type, enabled, ticked, expected>>
  BY <1>1, <1>k, <1>d, <1>q DEF C!Prune, C!Goes, C!Known, C!None, Turned
<1>3. k.op # "read" => /\ q \in Managing /\ q.pc = "store" /\ q.doc = kept /\ q.op = k.op
                       /\ k.op = "assign" => q.models = k.models
                       /\ k.op = "delete" => q.model = k.model
                       /\ k.op = "merge" => q.extra = k.extra /\ q.keep = k.keep /\ q.plan = k.plan
  <2>1. kept \in SUBSET Naming
    BY <1>0, <1>d
  <2> QED
    BY <1>0, <1>1, <1>q, <2>1, ManagingGoes
<1>4. k.op = "read" => q = C!Idle
  BY <1>q
<1>5. Timely(q)'
  <2>1. CASE k.op = "read"
    BY <1>4, <2>1 DEF Timely, C!Idle
  <2>2. CASE k.op # "read"
    BY <1>0, <1>1, <1>2, <1>3, <1>d, <2>2 DEF Timely, Mergeable
  <2> QED
    BY <2>1, <2>2
<1>6. Followed'
  BY <1>0, <1>2, <1>d DEF Followed, C!Models
<1>7. q \in Managing /\ settings' \subseteq Naming
  BY <1>0, <1>2, <1>3, <1>4, <1>d, SourcesIdle
<1> QED
  BY <1>0, <1>2, <1>5, <1>6, <1>7, SourcesKeep

\* The settings with the change of the request.
LEMMA StoreStep == ASSUME SourcesInv, C!Store(Owner) PROVE SourcesInv'
<1>k. PICK k : k = call[Owner]
  OBVIOUS
<1>0. /\ type \in [C!Models -> Types \cup {"none"}] /\ enabled \subseteq C!Models
      /\ k \in Managing /\ Timely(k) /\ Followed
      /\ settings \subseteq Naming /\ expected \subseteq C!AllRoles \X Types
  BY <1>k DEF SourcesInv, C!TypeOK, C!None, Naming
<1>1. k.pc = "store" /\ k.doc = settings /\ \A x \in settings : type[x[2]] # "none"
  BY <1>0, <1>k DEF C!Store, Timely
<1>2. /\ settings' = C!Changed(k)
      /\ expected' = IF k.op = "assign" THEN C!Given(C!Changed(k)) ELSE expected
      /\ call' = [call EXCEPT ![Owner] = C!Rest(k)]
      /\ UNCHANGED <<calls, crashes, type, enabled, ticked>>
  BY <1>1, <1>k DEF C!Store, C!Goes
<1>3. k.op \in {"assign", "delete", "merge"}
  BY <1>0, <1>1, ManagingIs
<1>4. CASE k.op = "assign"
  <2>1. /\ k.role \in C!AllRoles /\ k.models \subseteq C!Models
        /\ \A m \in k.models : type[m] # "none"
    BY <1>0, <1>1, <1>4, ManagingIs DEF Timely
  <2>2. settings' = {x \in settings : x[1] # k.role} \cup ({k.role} \X k.models)
    BY <1>1, <1>2, <1>4 DEF C!Changed, C!Assigned
  <2>3. settings' \subseteq Naming /\ \A x \in settings' : type[x[2]] # "none"
    BY <1>0, <1>1, <2>1, <2>2 DEF Naming
  <2>4. expected' = {<<x[1], type[x[2]]>> : x \in settings'}
    BY <1>2, <1>4 DEF C!Given
  <2>5. \A x \in settings' : x[1] \in C!AllRoles /\ x[2] \in C!Models /\ x = <<x[1], x[2]>>
    BY <2>3 DEF Naming
  <2>6. expected' \subseteq C!AllRoles \X Types
    BY <1>0, <2>3, <2>4, <2>5
  <2>7. Followed'
    BY <1>2, <2>3, <2>4, <2>5 DEF Followed, C!Models
  <2>8. C!Rest(k) = C!Idle /\ Timely(C!Idle)'
    BY <1>4 DEF C!Rest, Timely, C!Idle
  <2> QED
    BY <1>0, <1>2, <2>3, <2>6, <2>7, <2>8, SourcesIdle, SourcesKeep
<1>5. CASE k.op \in {"delete", "merge"}
  <2>q. PICK q : q = Turned(k, "ticks", {})
    OBVIOUS
  <2>1. /\ q \in Managing /\ q.pc = "ticks" /\ q.op = k.op
        /\ k.op = "merge" => q.extra = k.extra /\ q.keep = k.keep /\ q.plan = k.plan
    BY <1>0, <1>1, <1>5, <2>q, ManagingGoes
  <2>2. C!Rest(k) = q /\ expected' = expected
    BY <1>2, <1>5, <2>q DEF C!Rest, Turned
  <2>3. CASE k.op = "delete"
    <3>1. k.model \in C!Models /\ type[k.model] = "none"
      BY <1>0, <1>1, <2>3, ManagingIs DEF Timely
    <3>2. settings' = {x \in settings : x[2] # k.model}
      BY <1>1, <1>2, <2>3 DEF C!Changed, C!Without
    <3>3. Followed'
      BY <1>0, <1>2, <2>2, <3>1, <3>2 DEF Followed, C!Models
    <3>4. Timely(q)'
      BY <2>1, <2>3 DEF Timely
    <3>5. settings' \subseteq Naming
      BY <1>0, <3>2
    <3> QED
      BY <1>0, <1>2, <2>1, <2>2, <3>3, <3>4, <3>5, SourcesKeep
  <2>4. CASE k.op = "merge"
    <3>1. k.extra \in C!Models /\ k.keep \in C!Models /\ Mergeable(type, k.extra, k.keep, k.plan)
      BY <1>0, <1>1, <2>4, ManagingIs DEF Timely
    <3>2. settings' = {IF x[2] = k.extra THEN <<x[1], k.keep>> ELSE x : x \in settings}
      BY <1>1, <1>2, <2>4 DEF C!Changed, C!Remapped
    <3>3. \A x \in settings : x[1] \in C!AllRoles /\ x[2] \in C!Models /\ x = <<x[1], x[2]>>
      BY <1>0 DEF Naming
    <3>4. settings' \subseteq Naming
      BY <3>1, <3>2, <3>3 DEF Naming
    <3>5. \A x \in settings' : x[2] # k.extra
      BY <3>1, <3>2 DEF Mergeable
    <3>6. Followed'
      <4> SUFFICES ASSUME NEW x \in expected
                   PROVE  \E m \in C!Models : type[m] # "none" /\ type[m] = x[2] /\ <<x[1], m>> \in settings'
        BY <1>2, <2>2 DEF Followed, C!Models
      <4>1. PICK m \in C!Models : type[m] # "none" /\ type[m] = x[2] /\ <<x[1], m>> \in settings
        BY <1>0 DEF Followed
      <4>2. CASE m = k.extra
        <5>1. type[k.keep] = type[m]
          BY <3>1, <4>1, <4>2 DEF Mergeable
        <5>2. <<x[1], k.keep>> \in settings'
          <6> DEFINE y == <<x[1], m>>
          <6>1. y \in settings /\ y[1] = x[1] /\ y[2] = k.extra
            BY <4>1, <4>2
          <6> HIDE DEF y
          <6> QED
            BY <3>2, <6>1
        <5> QED
          BY <3>1, <4>1, <5>1, <5>2
      <4>3. CASE m # k.extra
        BY <3>2, <4>1, <4>3
      <4> QED
        BY <4>2, <4>3
    <3>7. Timely(q)'
      BY <1>2, <2>1, <2>4, <3>1, <3>5 DEF Timely, Mergeable
    <3> QED
      BY <1>0, <1>2, <2>1, <2>2, <3>4, <3>6, <3>7, SourcesKeep
  <2> QED
    BY <1>5, <2>3, <2>4
<1> QED
  BY <1>3, <1>4, <1>5

\* The model that goes is of no role any more, and the next one's turn comes.
LEMMA DropStep == ASSUME SourcesInv, C!DropExtra(Owner) PROVE SourcesInv'
<1>k. PICK k : k = call[Owner]
  OBVIOUS
<1>q. PICK q : q = IF k.plan = <<>> THEN C!Idle ELSE C!Merging(k.plan, "load")
  OBVIOUS
<1>0. /\ type \in [C!Models -> Types \cup {"none"}] /\ enabled \subseteq C!Models
      /\ k \in Managing /\ Timely(k) /\ Followed
      /\ settings \subseteq Naming /\ expected \subseteq C!AllRoles \X Types
  BY <1>k DEF SourcesInv, C!TypeOK, C!None, Naming
<1>1. /\ k.pc = "row" /\ type' = [type EXCEPT ![k.extra] = "none"]
      /\ enabled' = enabled \ {k.extra} /\ call' = [call EXCEPT ![Owner] = q]
      /\ UNCHANGED <<calls, crashes, settings, ticked, expected>>
  BY <1>k, <1>q DEF C!DropExtra, C!Goes, C!None
<1>2. /\ k.op = "merge" /\ k.extra \in C!Models /\ k.keep \in C!Models
      /\ k.plan \in Seq(C!Models \X C!Models)
  BY <1>0, <1>1, ManagingIs
<1>3. Mergeable(type, k.extra, k.keep, k.plan) /\ \A x \in settings : x[2] # k.extra
  BY <1>0, <1>1, <1>2 DEF Timely
<1>4. /\ type' \in [C!Models -> Types \cup {"none"}] /\ enabled' \subseteq C!Models
      /\ type'[k.extra] = "none" /\ \A m \in C!Models : m # k.extra => type'[m] = type[m]
  BY <1>0, <1>1, <1>2
<1>5. Followed'
  <2> SUFFICES ASSUME NEW x \in expected
               PROVE  \E m \in C!Models : type'[m] # "none" /\ type'[m] = x[2] /\ <<x[1], m>> \in settings
    BY <1>1 DEF Followed, C!Models
  <2>1. PICK m \in C!Models : type[m] # "none" /\ type[m] = x[2] /\ <<x[1], m>> \in settings
    BY <1>0 DEF Followed
  <2>2. m # k.extra
    <3> DEFINE y == <<x[1], m>>
    <3>1. y \in settings /\ y[2] = m
      BY <2>1
    <3> HIDE DEF y
    <3> QED
      BY <1>3, <3>1
  <2> QED
    BY <1>4, <2>1, <2>2
<1>6. q \in Managing /\ Timely(q)'
  <2>1. CASE k.plan = <<>>
    BY <1>q, <2>1, SourcesIdle DEF Timely, C!Idle
  <2>2. CASE k.plan # <<>>
    <3>1. \A i \in DOMAIN k.plan : /\ k.plan[i][1] \in C!Models /\ k.plan[i][2] \in C!Models
                                   /\ k.plan[i][2] # k.extra
                                   /\ type[k.plan[i][1]] \in {"none", type[k.plan[i][2]]}
      BY <1>2, <1>3 DEF Mergeable
    <3>2. \A i \in DOMAIN k.plan : type'[k.plan[i][1]] \in {"none", type'[k.plan[i][2]]}
      BY <1>4, <3>1
    <3>3. \A i, j \in DOMAIN k.plan : k.plan[i][1] # k.plan[j][2]
      BY <1>3 DEF Mergeable
    <3>t. PICK types : types = type'
      OBVIOUS
    <3>m. PICK m : m = C!Merging(k.plan, "load")
      OBVIOUS
    <3>4. /\ m \in Managing /\ m.pc = "load" /\ m.op = "merge"
          /\ Mergeable(types, m.extra, m.keep, m.plan)
      BY <1>2, <2>2, <3>2, <3>3, <3>t, <3>m, MergingIs
    <3>5. Mergeable(type, m.extra, m.keep, m.plan)'
      BY <3>4, <3>t DEF Mergeable
    <3>6. q = m
      BY <1>q, <2>2, <3>m
    <3> QED
      BY <3>4, <3>5, <3>6 DEF Timely
  <2> QED
    BY <2>1, <2>2
<1> QED
  BY <1>0, <1>1, <1>4, <1>5, <1>6, SourcesKeep

LEMMA SourcesStart == C!Init => SourcesInv
<1> SUFFICES ASSUME C!Init PROVE SourcesInv
  OBVIOUS
<1>0. MaxCalls["sources"] \in Nat /\ MaxCrashes \in Nat
  BY ServicesAssumption DEF Limited
<1>1. /\ type \in [C!Models -> Types \cup {"none"}] /\ enabled \subseteq C!Models
      /\ ticked \in [C!Models -> {"none", "on", "off"}]
      /\ settings \subseteq Naming /\ \A x \in settings : type[x[2]] # "none"
      /\ expected = {<<x[1], type[x[2]]>> : x \in settings}
      /\ call = [c \in {Owner} |-> C!Idle] /\ calls = 0 /\ crashes = 0
  BY DEF C!Init, C!None, C!Known, C!Given, Naming
<1>2. \A x \in settings : x[1] \in C!AllRoles /\ x[2] \in C!Models /\ x = <<x[1], x[2]>>
  BY <1>1 DEF Naming
<1>3. expected \subseteq C!AllRoles \X Types
  BY <1>1, <1>2
<1>4. C!TypeOK
  BY <1>0, <1>1, <1>3 DEF C!TypeOK, C!None, Naming
<1>5. Followed
  <2> SUFFICES ASSUME NEW x \in expected
               PROVE  \E m \in C!Models : type[m] # "none" /\ type[m] = x[2] /\ <<x[1], m>> \in settings
    BY DEF Followed
  <2>1. PICK y \in settings : x = <<y[1], type[y[2]]>>
    BY <1>1
  <2>2. x[1] = y[1] /\ x[2] = type[y[2]]
    BY <2>1
  <2> QED
    BY <1>1, <1>2, <2>2
<1>6. call \in [{Owner} -> Managing] /\ call[Owner] = C!Idle
  BY <1>1, SourcesIdle
<1> QED
  BY <1>4, <1>5, <1>6, SourcesIdle DEF SourcesInv

LEMMA SourcesSteps == SourcesInv /\ [C!Next]_C!vars => SourcesInv'
<1> SUFFICES ASSUME SourcesInv, [C!Next]_C!vars PROVE SourcesInv'
  OBVIOUS
<1>1. CASE UNCHANGED C!vars
  <2>1. UNCHANGED <<type, enabled, settings, ticked, call, expected, calls, crashes>>
    BY <1>1 DEF C!vars
  <2> QED
    BY <2>1 DEF SourcesInv, Followed, Timely, Mergeable, C!TypeOK, C!Models, C!AllRoles, C!None
<1>2. CASE C!Next
  <2>1. \/ C!Create(Owner) \/ C!Insert(Owner) \/ C!Read(Owner) \/ C!Assign(Owner) \/ C!List(Owner)
        \/ \E m \in C!Models : C!Toggle(Owner, m) \/ C!Tick(Owner, m) \/ C!Delete(Owner, m)
        \/ C!SaveTick(Owner) \/ C!Load(Owner) \/ C!Prune(Owner) \/ C!Store(Owner)
        \/ C!Ticks(Owner) \/ C!DropExtra(Owner) \/ C!Crash(Owner)
    BY <1>2 DEF C!Next
  <2> QED
    BY <2>1, SourcesBegin, ListStep, SourcesTurns, InsertStep, DeleteStep, PruneStep, StoreStep,
       DropStep
<1> QED
  BY <1>1, <1>2

\* While one request works on them, however the models of a provider are merged
\* and wherever a request ends, a role that a user has given to a provider stays
\* with a model of it that is there: the settings name the model that is kept
\* before the row of the other one is deleted (ai_models.py,
\* dedupe_ai_models_by_provider).
THEOREM RolesAreFollowed == Spec => []RolesFollow
<1>1. Init => (part = "sources" => SourcesInv)
  BY SourcesStart DEF Init
<1>2. (part = "sources" => SourcesInv) /\ [Next]_all => (part = "sources" => SourcesInv)'
  <2> SUFFICES ASSUME part = "sources" => SourcesInv, [Next]_all, part' = "sources"
               PROVE  SourcesInv'
    OBVIOUS
  <2>1. SourcesInv /\ [C!Next]_C!vars
    BY PartStep
  <2> QED
    BY <2>1, SourcesSteps
<1>3. (part = "sources" => SourcesInv) => RolesFollow
  BY DEF RolesFollow, SourcesInv, Followed, C!RolesFollow
<1> QED
  BY <1>1, <1>2, <1>3, PTL DEF Spec

-----------------------------------------------------------------------------
(* Research                                                                *)

\* The schedule at the time u.
DayAt(u) == u \div PerDay
LocalAt(u) == (u + Zone) \div PerDay
OpenAt(u) == R!OpenDate(LocalAt(u))
WeeksAt(u) ==
  {w \in {R!Monday(DayAt(u)) - 3 * n : n \in 0..4} : w > 0 /\ u >= R!Run("debrief", w + 1)}
WeekAt(u) ==
  IF WeeksAt(u) = {} THEN 0 ELSE CHOOSE w \in WeeksAt(u) : \A v \in WeeksAt(u) : v <= w

PastAt(k, u) ==
  CASE k = "daily" -> u >= R!Run(k, LocalAt(u))
    [] k = "brief" -> u >= R!Run(k, OpenAt(u))
    [] k = "debrief" -> WeekAt(u) # 0
SlotAt(k, u) ==
  CASE k = "daily" -> DayAt(u)
    [] k = "brief" -> OpenAt(u)
    [] k = "debrief" -> WeekAt(u)

\* The next run of k at the time u.
NextAt(k, u) ==
  CASE k = "daily" -> R!Run(k, IF PastAt(k, u) THEN DayAt(u) + 1 ELSE LocalAt(u))
    [] k = "brief" -> R!Run(k, IF PastAt(k, u) THEN OpenAt(u) + 3 ELSE OpenAt(u))
    [] k = "debrief" -> LET d == OpenAt(u) + 1
                        IN R!Run(k, IF u >= R!Run(k, d) THEN d + 3 ELSE d)

LEMMA NowIs ==
  ASSUME NEW k \in R!Kinds
  PROVE  R!Past(k) = PastAt(k, now) /\ R!Slot(k) = SlotAt(k, now) /\ R!NextSlot(k) = NextAt(k, now)
<1>1. CASE k = "daily"
  BY <1>1 DEF R!Past, PastAt, R!PastDaily, R!LocalDay, LocalAt, R!Slot, SlotAt, R!Today, DayAt,
              R!NextSlot, NextAt, R!NextDaily
<1>2. CASE k = "brief"
  BY <1>2 DEF R!Past, PastAt, R!PastBrief, R!LocalDay, LocalAt, R!Slot, SlotAt, OpenAt,
              R!NextSlot, NextAt, R!NextBrief
<1>3. CASE k = "debrief"
  <2>1. R!DebriefWeek = WeekAt(now)
    BY DEF R!DebriefWeek, WeekAt, WeeksAt, R!Today, DayAt
  <2>2. R!NextDebrief = NextAt(k, now)
    BY <1>3, CalendarAssumption DEF R!NextDebrief, NextAt, OpenAt, R!LocalDay, LocalAt
  <2> QED
    BY <1>3, <2>1, <2>2 DEF R!Past, PastAt, R!Slot, SlotAt, R!NextSlot
<1> QED
  BY <1>1, <1>2, <1>3 DEF R!Kinds

LEMMA Divided ==
  ASSUME NEW a \in Nat, NEW p \in Nat \ {0}
  PROVE  /\ a \div p \in Nat
         /\ (a \div p) * p <= a /\ a < (a \div p) * p + p
OBVIOUS

LEMMA Multiplied ==
  ASSUME NEW d \in Int, NEW e \in Int, d < e, NEW p \in Nat \ {0}
  PROVE  d * p \in Int /\ e * p \in Int /\ d * p + p <= e * p
OBVIOUS

LEMMA Today == ASSUME NEW u \in Nat PROVE DayAt(u) \in Nat
BY Divided, CalendarAssumption DEF DayAt

LEMMA Days ==
  ASSUME NEW u \in Nat, u + Zone \in Nat
  PROVE  /\ LocalAt(u) \in Nat /\ LocalAt(u) \in {DayAt(u) - 1, DayAt(u), DayAt(u) + 1}
         /\ Zone >= 0 => LocalAt(u) >= DayAt(u)
<1>1. PerDay \in Nat \ {0} /\ Zone \in Int /\ Zone < PerDay /\ -Zone < PerDay
  BY CalendarAssumption
<1>2. PICK d \in Nat : d = u \div PerDay /\ d * PerDay <= u /\ u < d * PerDay + PerDay
  BY <1>1, Divided
<1>3. PICK e \in Nat : /\ e = (u + Zone) \div PerDay
                       /\ e * PerDay <= u + Zone /\ u + Zone < e * PerDay + PerDay
  BY <1>1, Divided
<1>4. ~ e < d - 1 /\ (Zone >= 0 => ~ e < d)
  <2>1. (d - 1) * PerDay = d * PerDay - PerDay /\ d * PerDay \in Int /\ e * PerDay \in Int
    BY <1>1
  <2>2. e < d - 1 => e * PerDay + PerDay <= (d - 1) * PerDay
    BY <1>1, Multiplied
  <2>3. e < d => e * PerDay + PerDay <= d * PerDay
    BY <1>1, Multiplied
  <2> QED
    BY <1>1, <1>2, <1>3, <2>1, <2>2, <2>3
<1>5. ~ d + 1 < e
  <2>1. (d + 1) * PerDay = d * PerDay + PerDay /\ d * PerDay \in Int
    BY <1>1
  <2>2. d + 1 < e => (d + 1) * PerDay + PerDay <= e * PerDay
    BY <1>1, Multiplied
  <2>3. e * PerDay \in Int
    BY <1>1
  <2> QED
    BY <1>1, <1>2, <1>3, <2>1, <2>2, <2>3
<1> QED
  BY <1>2, <1>3, <1>4, <1>5 DEF DayAt, LocalAt

LEMMA DaysPass ==
  ASSUME NEW u \in Nat, NEW v \in Nat, u <= v, u + Zone \in Nat
  PROVE  DayAt(u) <= DayAt(v) /\ LocalAt(u) <= LocalAt(v)
<1>1. \A a, b \in Nat : a <= b => a \div PerDay <= b \div PerDay
  BY CalendarAssumption
<1> QED
  BY <1>1, CalendarAssumption DEF DayAt, LocalAt

\* A run is within the day of its market.
LEMMA RunDay ==
  ASSUME NEW k \in R!Kinds, NEW u \in Nat, u + Zone \in Nat, NEW d \in Int
  PROVE  /\ R!Run(k, d) \in Int
         /\ LocalAt(u) < d => u < R!Run(k, d)
         /\ d < LocalAt(u) => R!Run(k, d) <= u
<1>1. /\ PerDay \in Nat \ {0} /\ Zone \in Int /\ RunAt[k] \in Int
      /\ RunAt[k] + Zone >= 0 /\ RunAt[k] + Zone < PerDay
  BY CalendarAssumption DEF R!Kinds
<1>2. PICK e \in Nat : /\ e = LocalAt(u)
                       /\ e * PerDay <= u + Zone /\ u + Zone < e * PerDay + PerDay
  BY <1>1, Divided DEF LocalAt
<1>3. R!Run(k, d) = d * PerDay + RunAt[k] /\ d * PerDay \in Int /\ e * PerDay \in Int
  BY <1>1 DEF R!Run
<1>4. e < d => e * PerDay + PerDay <= d * PerDay
  BY <1>1, Multiplied
<1>5. d < e => d * PerDay + PerDay <= e * PerDay
  BY <1>1, Multiplied
<1> QED
  BY <1>1, <1>2, <1>3, <1>4, <1>5

LEMMA RunsFollow ==
  ASSUME NEW k \in R!Kinds, NEW d \in Int, NEW e \in Int, d <= e
  PROVE  R!Run(k, d) <= R!Run(k, e) /\ R!Run(k, d) \in Int /\ R!Run(k, e) \in Int
<1>1. PerDay \in Nat \ {0} /\ RunAt[k] \in Int
  BY CalendarAssumption DEF R!Kinds
<1>2. d * PerDay <= e * PerDay /\ d * PerDay \in Int /\ e * PerDay \in Int
  BY <1>1, Multiplied
<1> QED
  BY <1>1, <1>2 DEF R!Run

\* Weeks, and the Monday that comes.
LEMMA Weeks ==
  ASSUME NEW d \in Nat
  PROVE  /\ R!Monday(d) \in Nat /\ R!Monday(d) % 3 = 0 /\ R!Monday(d) \in d - 2..d
         /\ R!OpenDate(d) \in Nat /\ R!OpenDate(d) % 3 = 0 /\ R!OpenDate(d) \in d - 1..d + 1
BY DEF R!Monday, R!OpenDate, R!Weekend

LEMMA WeeksAre ==
  ASSUME NEW u \in Nat
  PROVE  /\ \A w : w \in WeeksAt(u) <=>
              /\ w \in Nat /\ w > 0 /\ w % 3 = 0
              /\ w \in R!Monday(DayAt(u)) - 12..R!Monday(DayAt(u))
              /\ u >= R!Run("debrief", w + 1)
         /\ WeeksAt(u) = {} => WeekAt(u) = 0
         /\ WeeksAt(u) # {} => WeekAt(u) \in WeeksAt(u) /\ \A v \in WeeksAt(u) : v <= WeekAt(u)
<1>1. PICK m \in Nat : m = R!Monday(DayAt(u)) /\ m % 3 = 0
  BY Today, Weeks
<1>2. \A w : w \in WeeksAt(u) <=> /\ w \in Nat /\ w > 0 /\ w % 3 = 0 /\ w \in m - 12..m
                                  /\ u >= R!Run("debrief", w + 1)
  <2>1. ASSUME NEW w \in Int, w % 3 = 0, w \in m - 12..m PROVE \E n \in 0..4 : w = m - 3 * n
    <3>1. m = 3 * (m \div 3) /\ w = 3 * (w \div 3) /\ m \div 3 \in Int /\ w \div 3 \in Int
      BY <1>1, <2>1
    <3>2. PICK a \in Int, b \in Int : m = 3 * a /\ w = 3 * b
      BY <3>1
    <3>3. a - b \in 0..4 /\ w = m - 3 * (a - b)
      BY <2>1, <3>2
    <3> QED
      BY <3>3
  <2>2. \A n \in 0..4 : m - 3 * n \in Int /\ (m - 3 * n) % 3 = 0 /\ m - 3 * n \in m - 12..m
    BY <1>1
  <2>3. \A w : w \in WeeksAt(u) <=> /\ w \in {m - 3 * n : n \in 0..4} /\ w > 0
                                    /\ u >= R!Run("debrief", w + 1)
    BY <1>1 DEF WeeksAt
  <2>4. \A w : w \in {m - 3 * n : n \in 0..4} <=> w \in Int /\ w % 3 = 0 /\ w \in m - 12..m
    BY <2>1, <2>2, <1>1
  <2> SUFFICES ASSUME NEW w PROVE w \in WeeksAt(u) <=> /\ w \in Nat /\ w > 0 /\ w % 3 = 0
                              /\ w \in m - 12..m /\ u >= R!Run("debrief", w + 1)
    OBVIOUS
  <2>5. w \in Nat /\ w > 0 <=> w \in Int /\ w > 0
    OBVIOUS
  <2> DEFINE run == R!Run("debrief", w + 1)
  <2>6. w \in WeeksAt(u) <=> w \in Int /\ w % 3 = 0 /\ w \in m - 12..m /\ w > 0 /\ u >= run
    BY <2>3, <2>4
  <2> HIDE DEF run
  <2>7. w \in WeeksAt(u) <=> w \in Nat /\ w > 0 /\ w % 3 = 0 /\ w \in m - 12..m /\ u >= run
    BY <2>5, <2>6
  <2> QED
    BY <2>7 DEF run
<1>3. ASSUME WeeksAt(u) # {} PROVE \E w \in WeeksAt(u) : \A v \in WeeksAt(u) : v <= w
  <2>1. WeeksAt(u) \subseteq 0..m
    BY <1>1, <1>2
  <2>2. IsFiniteSet(0..m)
    BY <1>1, FS_Interval
  <2>3. IsFiniteSet(WeeksAt(u)) /\ WeeksAt(u) \subseteq Nat
    BY <1>2, <2>1, <2>2, FS_Subset
  <2> QED
    BY <1>3, <2>3, Greatest
<1> QED
  BY <1>1, <1>2, <1>3 DEF WeekAt

\* Until the next run of k nothing new is due: where the date of the market is
\* behind that of UTC, the run of the day before makes a daily report due too early.
Kept(k) == k = "daily" => Zone >= 0

LEMMA NothingNew ==
  ASSUME NEW k \in R!Kinds, Kept(k), NEW n \in Nat, n + Zone \in Nat, NEW u \in Nat, n <= u,
         u < NextAt(k, n), PastAt(k, u)
  PROVE  PastAt(k, n) /\ SlotAt(k, u) = SlotAt(k, n)
<1>1. /\ DayAt(n) \in Nat /\ DayAt(u) \in Nat /\ LocalAt(n) \in Nat /\ LocalAt(u) \in Nat
      /\ LocalAt(n) \in {DayAt(n) - 1, DayAt(n), DayAt(n) + 1}
      /\ LocalAt(u) \in {DayAt(u) - 1, DayAt(u), DayAt(u) + 1}
      /\ Zone >= 0 => LocalAt(n) >= DayAt(n) /\ LocalAt(u) >= DayAt(u)
      /\ DayAt(n) <= DayAt(u) /\ LocalAt(n) <= LocalAt(u) /\ u + Zone \in Nat
  <2>1. Zone \in Int
    BY CalendarAssumption
  <2>2. u + Zone \in Nat
    BY <2>1
  <2> QED
    BY <2>2, Today, Days, DaysPass
<1>2. /\ OpenAt(n) \in Nat /\ OpenAt(n) % 3 = 0 /\ OpenAt(n) \in LocalAt(n) - 1..LocalAt(n) + 1
      /\ OpenAt(u) \in Nat /\ OpenAt(u) % 3 = 0 /\ OpenAt(u) \in LocalAt(u) - 1..LocalAt(u) + 1
  BY <1>1, Weeks DEF OpenAt
<1>3. OpenAt(n) <= OpenAt(u)
  BY <1>1, <1>2
<1>4. CASE k = "daily"
  <2>1. CASE PastAt(k, n)
    <3>1. u < R!Run(k, DayAt(n) + 1) /\ u >= R!Run(k, LocalAt(u))
      BY <1>4, <2>1 DEF NextAt, PastAt
    <3>2. ~ DayAt(n) + 1 <= LocalAt(u)
      BY <1>1, <3>1, RunsFollow
    <3>3. DayAt(u) = DayAt(n)
      BY <1>1, <1>4, <3>2 DEF Kept
    <3> QED
      BY <1>4, <2>1, <3>3 DEF SlotAt
  <2>2. CASE ~PastAt(k, n)
    <3>1. u < R!Run(k, LocalAt(n)) /\ u >= R!Run(k, LocalAt(u))
      BY <1>4, <2>2 DEF NextAt, PastAt
    <3> QED
      BY <1>1, <3>1, RunsFollow
  <2> QED
    BY <2>1, <2>2
<1>5. CASE k = "brief"
  <2>0. u >= R!Run(k, OpenAt(u))
    BY <1>5 DEF PastAt
  <2>1. CASE PastAt(k, n)
    <3>1. u < R!Run(k, OpenAt(n) + 3)
      BY <1>5, <2>1 DEF NextAt
    <3>2. ~ OpenAt(n) + 3 <= OpenAt(u)
      BY <1>2, <2>0, <3>1, RunsFollow
    <3>3. OpenAt(u) = OpenAt(n)
      BY <1>2, <1>3, <3>2
    <3> QED
      BY <1>5, <2>1, <3>3 DEF SlotAt
  <2>2. CASE ~PastAt(k, n)
    <3>1. u < R!Run(k, OpenAt(n))
      BY <1>5, <2>2 DEF NextAt
    <3> QED
      BY <1>2, <1>3, <2>0, <3>1, RunsFollow
  <2> QED
    BY <2>1, <2>2
<1>6. CASE k = "debrief"
  <2> DEFINE d == OpenAt(n) + 1
             m == R!Monday(DayAt(n))
             w == WeekAt(u)
  <2>0. /\ m \in Nat /\ m % 3 = 0 /\ m \in DayAt(n) - 2..DayAt(n)
        /\ R!Monday(DayAt(u)) \in Nat /\ R!Monday(DayAt(u)) % 3 = 0
        /\ R!Monday(DayAt(u)) \in DayAt(u) - 2..DayAt(u)
    BY <1>1, Weeks
  <2>9. m <= R!Monday(DayAt(u))
    BY <1>1, <2>0
  <2>1. WeeksAt(u) # {}
    BY <1>6, WeeksAre DEF PastAt
  <2>2. ASSUME NEW v \in WeeksAt(u) PROVE v \in WeeksAt(n)
    <3>1. /\ v \in Nat /\ v > 0 /\ v % 3 = 0 /\ u >= R!Run(k, v + 1)
          /\ v \in R!Monday(DayAt(u)) - 12..R!Monday(DayAt(u))
      BY <1>6, <2>2, WeeksAre
    <3>2. CASE n >= R!Run(k, d)
      <4>1. u < R!Run(k, d + 3)
        BY <1>6, <3>2 DEF NextAt
      <4>2. ~ d + 3 <= v + 1
        BY <1>2, <3>1, <4>1, RunsFollow
      <4>3. d <= LocalAt(n)
        BY <1>1, <1>2, <3>2, RunDay
      <4>4. v <= OpenAt(n) /\ OpenAt(n) <= DayAt(n)
        BY <1>1, <1>2, <3>1, <4>2, <4>3
      <4>5. n >= R!Run(k, v + 1)
        <5>1. R!Run(k, v + 1) <= R!Run(k, d)
          BY <1>2, <3>1, <4>4, RunsFollow
        <5> QED
          BY <1>2, <3>1, <3>2, <5>1, RunsFollow
      <4>6. v <= m
        BY <1>1, <1>2, <2>0, <3>1, <4>4
      <4>7. v \in m - 12..m
        BY <1>1, <2>0, <2>9, <3>1, <4>6
      <4> QED
        BY <1>6, <3>1, <4>5, <4>7, WeeksAre
    <3>3. CASE ~ n >= R!Run(k, d)
      <4>1. u < R!Run(k, d)
        BY <1>6, <3>3 DEF NextAt
      <4>2. ~ d <= v + 1
        BY <1>2, <3>1, <4>1, RunsFollow
      <4>3. v <= OpenAt(n) - 3
        BY <1>2, <3>1, <4>2
      <4>4. v + 1 < LocalAt(n)
        BY <1>1, <1>2, <3>1, <4>3
      <4>5. n >= R!Run(k, v + 1)
        BY <1>1, <3>1, <4>4, RunDay
      <4>6. v <= m
        BY <1>1, <1>2, <2>0, <3>1, <4>3
      <4>7. v \in m - 12..m
        BY <1>1, <2>0, <2>9, <3>1, <4>6
      <4> QED
        BY <1>6, <3>1, <4>5, <4>7, WeeksAre
    <3> QED
      BY <3>2, <3>3
  <2>3. w \in WeeksAt(n)
    BY <2>1, <2>2, WeeksAre
  <2>4. WeekAt(n) \in WeeksAt(n) /\ w <= WeekAt(n)
    BY <2>3, WeeksAre
  <2>5. WeekAt(n) \in WeeksAt(u)
    <3>1. /\ WeekAt(n) \in Nat /\ WeekAt(n) > 0 /\ WeekAt(n) % 3 = 0
          /\ WeekAt(n) <= m /\ n >= R!Run(k, WeekAt(n) + 1)
      BY <1>6, <2>4, WeeksAre
    <3>2. w \in Nat /\ w >= R!Monday(DayAt(u)) - 12
      BY <2>1, WeeksAre
    <3>3. u >= R!Run(k, WeekAt(n) + 1)
      BY <3>1, RunsFollow
    <3>4. WeekAt(n) \in R!Monday(DayAt(u)) - 12..R!Monday(DayAt(u))
      BY <1>1, <2>0, <2>9, <2>4, <3>1, <3>2
    <3> QED
      BY <1>6, <3>1, <3>3, <3>4, WeeksAre
  <2>6. WeekAt(n) <= w /\ w \in Nat /\ WeekAt(n) \in Nat /\ WeekAt(n) > 0
    BY <2>1, <2>4, <2>5, WeeksAre
  <2>7. w = WeekAt(n)
    BY <2>4, <2>6
  <2> QED
    BY <1>6, <2>6, <2>7 DEF PastAt, SlotAt
<1> QED
  BY <1>4, <1>5, <1>6 DEF R!Kinds

\* The units of the model.
Times == FirstDay * PerDay..(LastDay + 1) * PerDay - 1

Docs == [on : SUBSET R!Kinds, last : [R!Kinds -> R!Slots]]
Ticking == [pc : {"daily", "brief", "debrief", "end"}, view : Docs, stale : BOOLEAN]
Tasks == [pc : {"begin", "working", "mark", "save"}, kind : R!Kinds, slot : R!Slots,
          force : BOOLEAN, manual : BOOLEAN, view : Docs \cup {R!Idle}]
Asking == [pc : {"switch"}, kind : R!Kinds, view : Docs]
            \cup [pc : {"clear", "remove"}, report : R!Kinds \X R!Slots, view : Docs]
            \cup [pc : {"remove"}, report : R!Kinds \X R!Slots]

ResearchTyped ==
  /\ now \in Times /\ settings \in Docs /\ model \in BOOLEAN
  /\ reports \subseteq R!Kinds \X R!Slots
  /\ tick \in Ticking \cup {R!Idle} /\ seen \in Docs \cup {R!Idle}
  /\ next \in [R!Kinds -> Int] /\ \A k \in R!Kinds : next[k] \in 0..R!Never
  /\ passed \in BOOLEAN
  /\ task \in Tasks \cup {R!Idle} /\ (task.pc = "save" => task.view \in Docs)
  /\ request \in Asking \cup {R!Idle}
  /\ requests \in 0..MaxCalls["research"] /\ faults \in 0..MaxFaults["research"]
  /\ made \subseteq R!Kinds \X R!Slots /\ spoilt \subseteq R!Kinds \X R!Slots
  /\ again \in BOOLEAN

\* What need not be reported any more.
Settled == reports \cup spoilt

\* What a copy of the settings marks as made was made, or deleted since.
Marking(doc) == \A k \in R!Kinds : doc.last[k] = 0 \/ <<k, doc.last[k]>> \in Settled

MarksTrue ==
  /\ Marking(settings)
  /\ tick # R!Idle => Marking(tick.view)
  /\ task.pc = "save" => Marking(task.view)
  /\ request.pc \in {"switch", "clear"} => Marking(request.view)
  /\ task.pc \in {"mark", "save"} => <<task.kind, task.slot>> \in Settled

\* Whoever works unforced works on what is not there.
OnceMade ==
  /\ made \subseteq reports /\ ~again
  /\ task.pc = "working" /\ ~task.force => <<task.kind, task.slot>> \notin reports

\* While a model is off, the kinds that need it are given up.
GivenUp == ~model => \A k \in R!Kinds \ {"daily"} : {k} \X R!Slots \subseteq spoilt

\* Until the next look at k nothing of k is due that is not settled.
Awaited(k) ==
  Kept(k) => \A u \in Times : now <= u /\ u < next[k] /\ PastAt(k, u) => <<k, SlotAt(k, u)>> \in Settled

\* A look at k would find nothing to do.
Quiet(k) ==
  Kept(k) /\ k \in settings.on /\ R!Past(k) /\ model /\ R!Inputs(k, settings, FALSE)
    => <<k, R!Slot(k)>> \in Settled

Looked(pc) == CASE pc = "daily" -> {} [] pc = "brief" -> {"daily"}
                [] pc = "debrief" -> {"daily", "brief"} [] pc = "end" -> R!Kinds

\* A tick that nothing has disturbed leaves nothing behind.
LooksTrue ==
  /\ tick # R!Idle /\ ~tick.stale =>
       tick.view = settings /\ \A k \in Looked(tick.pc) : Quiet(k)
  /\ passed => \A k \in R!Kinds : Quiet(k)

ResearchInv ==
  /\ ResearchTyped /\ MarksTrue /\ OnceMade /\ GivenUp
  /\ \A k \in R!Kinds : Awaited(k)
  /\ LooksTrue

LEMMA CalendarIs ==
  ASSUME NEW u \in Times
  PROVE  /\ u \in Nat /\ u + Zone \in Nat /\ DayAt(u) \in FirstDay..LastDay
         /\ LocalAt(u) \in Nat /\ LocalAt(u) \in {DayAt(u) - 1, DayAt(u), DayAt(u) + 1}
         /\ OpenAt(u) \in Nat /\ OpenAt(u) \in LocalAt(u) - 1..LocalAt(u) + 1
<1>1. /\ PerDay \in Nat \ {0} /\ FirstDay \in Nat /\ LastDay \in Nat /\ FirstDay <= LastDay
  BY CalendarAssumption
<1>2. /\ FirstDay * PerDay \in Nat /\ (LastDay + 1) * PerDay \in Nat
  BY <1>1
<1>3. u \in Nat /\ FirstDay * PerDay <= u /\ u < (LastDay + 1) * PerDay
  BY <1>2 DEF Times
<1>4. PICK d \in Nat : d = DayAt(u) /\ d * PerDay <= u /\ u < d * PerDay + PerDay
  BY <1>1, <1>3, Divided DEF DayAt
<1>5. d < FirstDay => d * PerDay + PerDay <= FirstDay * PerDay
  BY <1>1, Multiplied
<1>6. LastDay + 1 = d \/ LastDay + 1 < d => (LastDay + 1) * PerDay <= d * PerDay
  BY <1>1, <1>4, Multiplied
<1>7. d * PerDay \in Int
  BY <1>1
<1>8. d \in FirstDay..LastDay
  BY <1>1, <1>2, <1>3, <1>4, <1>5, <1>6, <1>7
<1>9. u + Zone \in Nat
  <2>1. 0 * PerDay + PerDay <= FirstDay * PerDay /\ 0 * PerDay = 0 /\ Zone \in Int /\ -Zone < PerDay
    BY CalendarAssumption, Multiplied
  <2> QED
    BY <1>1, <1>2, <1>3, <2>1
<1>10. LocalAt(u) \in Nat /\ LocalAt(u) \in {DayAt(u) - 1, DayAt(u), DayAt(u) + 1}
  BY <1>3, <1>9, Days
<1> QED
  BY <1>3, <1>4, <1>8, <1>9, <1>10, Weeks DEF OpenAt

\* The slots and the runs are within the model, and there is no slot 0 but of
\* the debrief.
LEMMA SlotsAre ==
  ASSUME NEW u \in Times, NEW k \in R!Kinds
  PROVE  /\ SlotAt(k, u) \in R!Slots /\ (PastAt(k, u) => SlotAt(k, u) # 0)
         /\ NextAt(k, u) \in 0..R!Never
<1>0. FirstDay \in Nat /\ FirstDay > 2 /\ LastDay \in Nat /\ FirstDay <= LastDay
  BY CalendarAssumption
<1>1. /\ u \in Nat /\ u + Zone \in Nat /\ DayAt(u) \in FirstDay..LastDay
      /\ LocalAt(u) \in Nat /\ LocalAt(u) \in {DayAt(u) - 1, DayAt(u), DayAt(u) + 1}
      /\ OpenAt(u) \in Nat /\ OpenAt(u) \in LocalAt(u) - 1..LocalAt(u) + 1
  BY CalendarIs
<1>2. ASSUME k = "debrief" PROVE WeekAt(u) \in R!Slots
  <2> DEFINE m == R!Monday(DayAt(u))
             w == WeekAt(u)
  <2>1. m \in Nat /\ m % 3 = 0 /\ m \in DayAt(u) - 2..DayAt(u)
    BY <1>0, <1>1, Weeks
  <2>2. CASE WeeksAt(u) = {}
    BY <1>1, <2>2, WeeksAre DEF R!Slots
  <2>3. CASE WeeksAt(u) # {}
    <3>1. w \in WeeksAt(u) /\ \A v \in WeeksAt(u) : v <= w
      BY <1>1, <2>3, WeeksAre
    <3>2. w \in Nat /\ w > 0 /\ w % 3 = 0 /\ w \in m - 12..m
      BY <1>1, <3>1, WeeksAre
    <3>3. ASSUME w < m - 3 PROVE FALSE
      <4> DEFINE v == m - 3
      <4>1. v \in Nat /\ v > 0 /\ v % 3 = 0 /\ v \in m - 12..m
        BY <2>1, <3>2, <3>3
      <4>2. v + 1 < LocalAt(u) /\ v + 1 \in Int
        BY <1>0, <1>1, <2>1
      <4>3. u >= R!Run("debrief", v + 1)
        BY <1>1, <4>2, RunDay DEF R!Kinds
      <4>4. v \in WeeksAt(u)
        BY <1>1, <4>1, <4>3, WeeksAre
      <4> QED
        BY <2>1, <3>1, <3>2, <3>3, <4>4
    <3> QED
      BY <1>0, <1>1, <2>1, <3>2, <3>3 DEF R!Slots
  <2> QED
    BY <2>2, <2>3
<1>3. ASSUME NEW d \in Int, d >= 1, d <= LastDay + 6 PROVE R!Run(k, d) \in 0..R!Never
  <2>1. /\ PerDay \in Nat \ {0} /\ RunAt[k] \in Int /\ RunAt[k] < PerDay + PerDay /\ RunAt[k] > -PerDay
    BY CalendarAssumption DEF R!Kinds
  <2>2. 0 * PerDay + PerDay <= d * PerDay /\ d * PerDay \in Int
    BY <1>3, <2>1, Multiplied
  <2>3. d * PerDay + PerDay + PerDay <= (LastDay + 9) * PerDay /\ (LastDay + 9) * PerDay \in Int
    <3>1. (d + 1) * PerDay = d * PerDay + PerDay
      BY <1>3, <2>1
    <3> QED
      BY <1>0, <1>3, <2>1, <3>1, Multiplied
  <2>4. 0 * PerDay = 0
    BY <2>1
  <2> QED
    BY <2>1, <2>2, <2>3, <2>4 DEF R!Run, R!Never
<1>4. NextAt(k, u) \in 0..R!Never
  <2>1. CASE k = "daily"
    BY <1>0, <1>1, <1>3, <2>1 DEF NextAt
  <2>2. CASE k = "brief"
    BY <1>0, <1>1, <1>3, <2>2 DEF NextAt
  <2>3. CASE k = "debrief"
    BY <1>0, <1>1, <1>3, <2>3 DEF NextAt
  <2> QED
    BY <2>1, <2>2, <2>3 DEF R!Kinds
<1>5. CASE k = "daily"
  BY <1>0, <1>1, <1>4, <1>5 DEF SlotAt, R!Slots
<1>6. CASE k = "brief"
  BY <1>0, <1>1, <1>4, <1>6 DEF SlotAt, R!Slots
<1>7. CASE k = "debrief"
  BY <1>2, <1>4, <1>7 DEF SlotAt, PastAt
<1> QED
  BY <1>5, <1>6, <1>7 DEF R!Kinds

\* What a tick sees of the schedule now.
LEMMA Nows ==
  ASSUME now \in Times, NEW k \in R!Kinds
  PROVE  /\ R!Slot(k) \in R!Slots /\ (R!Past(k) => R!Slot(k) # 0) /\ R!NextSlot(k) \in 0..R!Never
         /\ R!Past(k) = PastAt(k, now) /\ R!Slot(k) = SlotAt(k, now) /\ R!NextSlot(k) = NextAt(k, now)
BY NowIs, SlotsAre

LEMMA ResearchIdle ==
  /\ R!Idle \notin Ticking /\ R!Idle \notin Tasks /\ R!Idle \notin Asking
  /\ R!Idle.pc = "idle"
<1>1. R!Idle.pc = "idle"
  BY DEF R!Idle
<1> QED
  BY <1>1 DEF Ticking, Tasks, Asking

\* What the places are that are not idle.
LEMMA Occupied ==
  ASSUME ResearchTyped
  PROVE  /\ tick.pc # "idle" => tick \in Ticking
         /\ task.pc # "idle" => task \in Tasks
         /\ request.pc # "idle" => request \in Asking
         /\ tick \in Ticking => tick # R!Idle /\ tick.pc # "idle"
         /\ task \in Tasks => task # R!Idle /\ task.pc # "idle"
BY ResearchIdle DEF ResearchTyped, Ticking, Tasks

LEMMA NeverIs == R!Never \in Nat
BY CalendarAssumption DEF R!Never

LEMMA TickTypes ==
  ASSUME ResearchTyped, R!ReadSettings \/ R!Abandon \/ R!EndTick \/ R!TimePasses
  PROVE  ResearchTyped'
<1>0. 0 \in 0..R!Never
  BY NeverIs
<1>1. CASE R!ReadSettings
  <2> DEFINE t == [pc |-> "daily", view |-> settings, stale |-> FALSE]
  <2>1. t \in Ticking
    BY DEF Ticking, ResearchTyped
  <2>2. /\ tick' = t /\ seen' = settings
        /\ next' = next \/ next' = [k \in R!Kinds |-> 0]
        /\ UNCHANGED <<now, passed, settings, model, reports, task, request, requests, faults,
                       made, again, spoilt>>
    BY <1>1 DEF R!ReadSettings, R!clock, R!stores, R!users, R!bounds
  <2> HIDE DEF t
  <2> QED
    BY <1>0, <2>1, <2>2 DEF ResearchTyped
<1>2. CASE R!Abandon
  <2>1. /\ tick' = R!Idle
        /\ UNCHANGED <<now, passed, settings, model, reports, seen, next, task, request, requests,
                       faults, made, again, spoilt>>
    BY <1>2 DEF R!Abandon, R!clock, R!stores, R!users, R!bounds
  <2> QED
    BY <2>1 DEF ResearchTyped
<1>3. CASE R!EndTick
  <2>1. /\ tick' = R!Idle /\ passed' \in BOOLEAN
        /\ UNCHANGED <<now, settings, model, reports, seen, next, task, request, requests,
                       faults, made, again, spoilt>>
    BY <1>3 DEF R!EndTick, R!stores, R!users, R!bounds
  <2> QED
    BY <2>1 DEF ResearchTyped
<1>4. CASE R!TimePasses
  <2>1. /\ now < (LastDay + 1) * PerDay - 1 /\ now' = now + 1 /\ passed' = FALSE
        /\ UNCHANGED <<settings, model, reports, tick, seen, next, task, request, requests,
                       faults, made, again, spoilt>>
    BY <1>4 DEF R!TimePasses, R!stores, R!users, R!bounds
  <2>2. FirstDay * PerDay \in Int /\ (LastDay + 1) * PerDay \in Int
    BY CalendarAssumption
  <2>3. now' \in Times
    BY <2>1, <2>2 DEF Times, ResearchTyped
  <2> QED
    BY <2>1, <2>3 DEF ResearchTyped
<1> QED
  BY <1>1, <1>2, <1>3, <1>4

LEMMA ProbeTypes == ASSUME ResearchTyped, NEW k \in R!Kinds, R!Probe(k) PROVE ResearchTyped'
<1>0. R!Never \in Nat
  BY NeverIs
<1>1. PICK t \in Ticking : t = tick
  <2>1. tick.pc # "idle"
    BY DEF R!Probe, R!At0, R!Kinds
  <2> QED
    BY <2>1, Occupied
<1>2. R!NextSlot(k) \in 0..R!Never
  BY Nows DEF ResearchTyped
<1>3. R!After(k) \in {"brief", "debrief", "end"}
  BY DEF R!After, R!Kinds
<1> DEFINE begun == [pc |-> "begin", kind |-> k, slot |-> 0, force |-> FALSE, manual |-> FALSE,
                     view |-> R!Idle]
<1>4. begun \in Tasks /\ begun.pc = "begin"
  BY DEF Tasks, R!Slots
<1> HIDE DEF begun
<1>5. \E to \in {"brief", "debrief", "end"}, b \in BOOLEAN : tick' = [t EXCEPT !.pc = to, !.stale = b]
  <2>1. \E b \in BOOLEAN : tick' = [t EXCEPT !.pc = R!After(k), !.stale = b]
    <3>1. t.stale \in BOOLEAN
      BY DEF Ticking
    <3>2. \E b : tick' = [t EXCEPT !.pc = R!After(k), !.stale = t.stale \/ b]
      BY <1>1 DEF R!Probe
    <3> QED
      BY <3>1, <3>2
  <2> QED
    BY <1>3, <2>1
<1>6. tick' \in Ticking
  <2>1. PICK to \in {"brief", "debrief", "end"}, b \in BOOLEAN : tick' = [t EXCEPT !.pc = to, !.stale = b]
    BY <1>5
  <2> QED
    BY <2>1 DEF Ticking
<1>7. /\ task' = task \/ task' = begun
      /\ next' = next \/ \E v \in 0..R!Never : next' = [next EXCEPT ![k] = v]
      /\ UNCHANGED <<now, passed, settings, model, reports, seen, request, requests, faults,
                     made, again, spoilt>>
  <2>1. /\ task' = task \/ task' = begun
        /\ \/ next' = next
           \/ \E v : /\ next' = [next EXCEPT ![k] = v]
                     /\ v = 0 \/ v = R!NextSlot(k) \/ v = R!Never
        /\ UNCHANGED <<now, passed, settings, model, reports, seen, request, requests, faults,
                       made, again, spoilt>>
    BY DEF R!Probe, R!Launch, R!Retry, R!clock, R!stores, R!users, R!bounds, begun
  <2> QED
    BY <1>0, <1>2, <2>1
<1>8. next' \in [R!Kinds -> Int] /\ \A j \in R!Kinds : next'[j] \in 0..R!Never
  BY <1>0, <1>7 DEF ResearchTyped
<1> QED
  BY <1>4, <1>6, <1>7, <1>8 DEF ResearchTyped

LEMMA TickStales ==
  ASSUME ResearchTyped, tick' = tick \/ (tick.pc # "idle" /\ tick' = [tick EXCEPT !.stale = TRUE])
  PROVE  tick' \in Ticking \cup {R!Idle}
<1>1. CASE tick.pc # "idle"
  <2>1. PICK k \in Ticking : k = tick
    BY <1>1, Occupied
  <2> QED
    BY <2>1 DEF Ticking
<1> QED
  BY <1>1 DEF ResearchTyped

LEMMA TaskTypes ==
  ASSUME ResearchTyped,
         R!Begin \/ R!WorkDaily \/ R!WorkBrief \/ R!WorkDebrief \/ R!ReadMark \/ R!SaveMark \/ R!Crash
  PROVE  ResearchTyped'
<1>0. R!Never \in Nat /\ 0 \in 0..R!Never
  BY NeverIs
<1>f. MaxFaults["research"] \in Nat
  BY ServicesAssumption DEF Failing
<1>1. CASE R!Begin
  <2>1. PICK t \in Tasks : t = task /\ t.pc = "begin"
    BY <1>1, Occupied DEF R!Begin
  <2>2. R!Slot(t.kind) \in R!Slots
    BY Nows DEF ResearchTyped, Tasks
  <2>3. /\ task' = R!Idle \/ task' = [t EXCEPT !.pc = "working", !.slot = R!Slot(t.kind)]
        /\ UNCHANGED <<now, passed, settings, model, reports, tick, seen, next, request, requests,
                       faults, made, again, spoilt>>
    BY <1>1, <2>1 DEF R!Begin, R!TaskEnds, R!clock, R!stores, R!users, R!bounds
  <2>4. task' = R!Idle \/ (task' \in Tasks /\ task'.pc = "working")
    BY <2>2, <2>3 DEF Tasks
  <2> QED
    BY <2>3, <2>4, ResearchIdle DEF ResearchTyped
<1>2. CASE R!WorkDaily \/ R!WorkBrief \/ R!WorkDebrief
  <2>1. PICK t \in Tasks : t = task /\ t.pc = "working"
    BY <1>2, Occupied DEF R!WorkDaily, R!WorkBrief, R!WorkDebrief, R!Work
  <2>2. <<t.kind, t.slot>> \in R!Kinds \X R!Slots
    BY DEF Tasks
  <2>3. /\ reports' = reports \/ reports' = reports \cup {<<t.kind, t.slot>>}
        /\ made' = made \/ made' = made \cup {<<t.kind, t.slot>>}
        /\ again' \in BOOLEAN
        /\ faults' = faults \/ (faults < MaxFaults["research"] /\ faults' = faults + 1)
        /\ task' = R!Idle \/ task' = [t EXCEPT !.pc = "mark"]
        /\ passed' = FALSE
        /\ tick' = tick \/ (tick.pc # "idle" /\ tick' = [tick EXCEPT !.stale = TRUE])
        /\ UNCHANGED <<now, settings, model, seen, next, request, requests, spoilt>>
    <3>1. again' \in BOOLEAN
      BY <1>2 DEF R!WorkDaily, R!WorkBrief, R!WorkDebrief, R!Report, ResearchTyped
    <3> QED
      BY <1>2, <2>1, <3>1 DEF R!WorkDaily, R!WorkBrief, R!WorkDebrief, R!Work, R!Report, R!TaskEnds,
         R!Fails, R!Changed, R!At0, R!users
  <2>4. task' = R!Idle \/ (task' \in Tasks /\ task'.pc = "mark")
    BY <2>3 DEF Tasks
  <2>5. tick' \in Ticking \cup {R!Idle}
    BY <2>3, TickStales
  <2>6. faults' \in 0..MaxFaults["research"]
    BY <1>f, <2>3 DEF ResearchTyped
  <2>7. reports' \subseteq R!Kinds \X R!Slots /\ made' \subseteq R!Kinds \X R!Slots
    BY <2>2, <2>3 DEF ResearchTyped
  <2> QED
    BY <2>3, <2>4, <2>5, <2>6, <2>7, ResearchIdle DEF ResearchTyped
<1>3. CASE R!ReadMark
  <2>1. PICK t \in Tasks : t = task /\ t.pc = "mark"
    BY <1>3, Occupied DEF R!ReadMark
  <2>2. /\ task' = [t EXCEPT !.pc = "save", !.view = settings]
        /\ UNCHANGED <<now, passed, settings, model, reports, tick, seen, next, request, requests,
                       faults, made, again, spoilt>>
    BY <1>3, <2>1 DEF R!ReadMark, R!clock, R!stores, R!users, R!bounds
  <2>3. task' \in Tasks /\ task'.view \in Docs
    BY <2>2 DEF Tasks, ResearchTyped
  <2> QED
    BY <2>2, <2>3 DEF ResearchTyped
<1>4. CASE R!SaveMark
  <2>1. PICK t \in Tasks : t = task /\ t.pc = "save" /\ t.view \in Docs
    BY <1>4, Occupied DEF R!SaveMark, ResearchTyped
  <2>2. /\ settings' = [t.view EXCEPT !.last[t.kind] = t.slot]
        /\ task' = R!Idle /\ passed' = FALSE
        /\ tick' = tick \/ (tick.pc # "idle" /\ tick' = [tick EXCEPT !.stale = TRUE])
        /\ UNCHANGED <<now, model, reports, seen, next, request, requests, faults, made, again, spoilt>>
    BY <1>4, <2>1 DEF R!SaveMark, R!TaskEnds, R!Changed, R!At0, R!users, R!bounds
  <2>3. settings' \in Docs
    <3>1. t.kind \in R!Kinds /\ t.slot \in R!Slots
      BY DEF Tasks
    <3>2. PICK d \in Docs : d = t.view
      BY <2>1
    <3> QED
      BY <2>2, <3>1, <3>2 DEF Docs
  <2>5. tick' \in Ticking \cup {R!Idle}
    BY <2>2, TickStales
  <2> QED
    BY <2>2, <2>3, <2>5, ResearchIdle DEF ResearchTyped
<1>5. CASE R!Crash
  <2>1. /\ faults < MaxFaults["research"] /\ faults' = faults + 1
        /\ task' = R!Idle /\ tick' = R!Idle /\ seen' = R!Idle
        /\ next' = [k \in R!Kinds |-> 0] /\ passed' = FALSE
        /\ UNCHANGED <<now, settings, model, reports, request, requests, made, again, spoilt>>
    BY <1>5 DEF R!Crash, R!Fails, R!stores, R!users
  <2>2. faults' \in 0..MaxFaults["research"]
    BY <1>f, <2>1 DEF ResearchTyped
  <2>3. next' \in [R!Kinds -> Int] /\ \A k \in R!Kinds : next'[k] \in 0..R!Never
    BY <1>0, <2>1
  <2>4. R!Idle.pc # "save"
    BY DEF R!Idle
  <2> QED
    BY <2>1, <2>2, <2>3, <2>4 DEF ResearchTyped
<1> QED
  BY <1>1, <1>2, <1>3, <1>4, <1>5

LEMMA RequestTypes ==
  ASSUME ResearchTyped,
         \/ \E k \in R!Kinds : R!Switch(k) \/ \E force \in BOOLEAN : R!RunNow(k, force)
         \/ R!Switched \/ R!SwitchModel \/ (\E k \in R!Kinds, d \in R!Slots : R!Delete(k, d))
         \/ R!Clear \/ R!Remove
  PROVE  ResearchTyped'
<1>r. MaxCalls["research"] \in Nat
  BY ServicesAssumption DEF Limited
<1>1. ASSUME NEW k \in R!Kinds, R!Switch(k) PROVE ResearchTyped'
  <2>1. /\ requests < MaxCalls["research"] /\ requests' = requests + 1
        /\ request' = [pc |-> "switch", kind |-> k, view |-> settings]
        /\ UNCHANGED <<now, passed, settings, model, reports, tick, seen, next, task, faults, made,
                       again, spoilt>>
    BY <1>1 DEF R!Switch, R!Ask, R!clock, R!stores, R!bounds
  <2>2. request' \in Asking
    BY <2>1 DEF Asking, ResearchTyped
  <2>3. requests' \in 0..MaxCalls["research"]
    BY <1>r, <2>1 DEF ResearchTyped
  <2> QED
    BY <2>1, <2>2, <2>3 DEF ResearchTyped
<1>2. ASSUME NEW k \in R!Kinds, NEW force \in BOOLEAN, R!RunNow(k, force) PROVE ResearchTyped'
  <2>1. /\ requests < MaxCalls["research"] /\ requests' = requests + 1
        /\ task' = [pc |-> "begin", kind |-> k, slot |-> 0, force |-> force, manual |-> TRUE,
                    view |-> R!Idle]
        /\ passed' = FALSE
        /\ tick' = tick \/ (tick.pc # "idle" /\ tick' = [tick EXCEPT !.stale = TRUE])
        /\ UNCHANGED <<now, settings, model, reports, seen, next, request, faults, made, again, spoilt>>
    BY <1>2 DEF R!RunNow, R!Changed, R!At0, R!stores, R!bounds
  <2>2. task' \in Tasks /\ task'.pc = "begin"
    BY <2>1 DEF Tasks, R!Slots
  <2>3. requests' \in 0..MaxCalls["research"]
    BY <1>r, <2>1 DEF ResearchTyped
  <2>4. tick' \in Ticking \cup {R!Idle}
    BY <2>1, TickStales
  <2> QED
    BY <2>1, <2>2, <2>3, <2>4 DEF ResearchTyped
<1>3. CASE R!Switched
  <2>1. PICK q : q = request /\ q.pc = "switch" /\ q.kind \in R!Kinds /\ q.view \in Docs
    <3>1. request \in Asking /\ request.pc = "switch"
      BY <1>3, Occupied DEF R!Switched
    <3> QED
      BY <3>1 DEF Asking
  <2>2. /\ \E on \in SUBSET R!Kinds : settings' = [q.view EXCEPT !.on = on]
        /\ spoilt' = spoilt \/ spoilt' = spoilt \cup ({q.kind} \X R!Slots)
        /\ request' = R!Idle /\ passed' = FALSE
        /\ tick' = tick \/ (tick.pc # "idle" /\ tick' = [tick EXCEPT !.stale = TRUE])
        /\ UNCHANGED <<now, model, reports, seen, next, task, requests, faults, made, again>>
    <3>1. \E on \in SUBSET R!Kinds : settings' = [q.view EXCEPT !.on = on]
      <4>1. (q.view.on \ {q.kind}) \cup ({q.kind} \ q.view.on) \in SUBSET R!Kinds
        BY <2>1 DEF Docs
      <4>2. settings' = [q.view EXCEPT !.on = (q.view.on \ {q.kind}) \cup ({q.kind} \ q.view.on)]
        BY <1>3, <2>1 DEF R!Switched
      <4> QED
        BY <4>1, <4>2
    <3> QED
      BY <1>3, <2>1, <3>1 DEF R!Switched, R!Changed, R!At0
  <2>3. settings' \in Docs
    <3>1. PICK d \in Docs : d = q.view
      BY <2>1
    <3> QED
      BY <2>2, <3>1 DEF Docs
  <2>4. tick' \in Ticking \cup {R!Idle}
    BY <2>2, TickStales
  <2>5. spoilt' \subseteq R!Kinds \X R!Slots
    BY <2>1, <2>2 DEF ResearchTyped
  <2> QED
    BY <2>2, <2>3, <2>4, <2>5 DEF ResearchTyped
<1>4. CASE R!SwitchModel
  <2>1. /\ requests < MaxCalls["research"] /\ requests' = requests + 1
        /\ model' \in BOOLEAN /\ passed' = FALSE
        /\ spoilt' = spoilt \cup ((R!Kinds \ {"daily"}) \X R!Slots)
        /\ tick' = tick \/ (tick.pc # "idle" /\ tick' = [tick EXCEPT !.stale = TRUE])
        /\ UNCHANGED <<now, settings, reports, seen, next, task, request, faults, made, again>>
    BY <1>4 DEF R!SwitchModel, R!Changed, R!At0
  <2>2. requests' \in 0..MaxCalls["research"]
    BY <1>r, <2>1 DEF ResearchTyped
  <2>3. tick' \in Ticking \cup {R!Idle}
    BY <2>1, TickStales
  <2>4. spoilt' \subseteq R!Kinds \X R!Slots
    BY <2>1 DEF ResearchTyped
  <2> QED
    BY <2>1, <2>2, <2>3, <2>4 DEF ResearchTyped
<1>5. ASSUME NEW k \in R!Kinds, NEW d \in R!Slots, R!Delete(k, d) PROVE ResearchTyped'
  <2>1. /\ requests < MaxCalls["research"] /\ requests' = requests + 1
        /\ \/ request' = [pc |-> "clear", report |-> <<k, d>>, view |-> settings]
           \/ request' = [pc |-> "remove", report |-> <<k, d>>]
        /\ UNCHANGED <<now, passed, settings, model, reports, tick, seen, next, task, faults, made,
                       again, spoilt>>
    BY <1>5 DEF R!Delete, R!Ask, R!clock, R!stores, R!bounds
  <2>2. request' \in Asking
    BY <2>1 DEF Asking, ResearchTyped
  <2>3. requests' \in 0..MaxCalls["research"]
    BY <1>r, <2>1 DEF ResearchTyped
  <2> QED
    BY <2>1, <2>2, <2>3 DEF ResearchTyped
<1>6. CASE R!Clear
  <2>1. PICK q \in [pc : {"clear", "remove"}, report : R!Kinds \X R!Slots, view : Docs] :
          q = request /\ q.pc = "clear"
    <3>1. request \in Asking /\ request.pc = "clear"
      BY <1>6, Occupied DEF R!Clear
    <3> QED
      BY <3>1 DEF Asking
  <2>2. /\ settings' = [q.view EXCEPT !.last["daily"] = 0]
        /\ request' = [q EXCEPT !.pc = "remove"] /\ passed' = FALSE
        /\ tick' = tick \/ (tick.pc # "idle" /\ tick' = [tick EXCEPT !.stale = TRUE])
        /\ UNCHANGED <<now, model, reports, seen, next, task, requests, faults, made, again, spoilt>>
    BY <1>6, <2>1 DEF R!Clear, R!Changed, R!At0, R!bounds
  <2>3. settings' \in Docs
    <3>1. PICK d \in Docs : d = q.view
      BY <2>1
    <3> QED
      BY <2>2, <3>1 DEF Docs, R!Slots
  <2>4. tick' \in Ticking \cup {R!Idle}
    BY <2>2, TickStales
  <2>5. request' \in Asking
    BY <2>1, <2>2 DEF Asking
  <2> QED
    BY <2>2, <2>3, <2>4, <2>5 DEF ResearchTyped
<1>7. CASE R!Remove
  <2>1. PICK q : q = request /\ q.report \in R!Kinds \X R!Slots
    <3>1. request \in Asking /\ request.pc = "remove"
      BY <1>7, Occupied DEF R!Remove
    <3> QED
      BY <3>1 DEF Asking
  <2>2. /\ reports' = reports \ {q.report} /\ made' = made \ {q.report}
        /\ spoilt' = spoilt \cup {q.report} /\ request' = R!Idle /\ passed' = FALSE
        /\ tick' = tick \/ (tick.pc # "idle" /\ tick' = [tick EXCEPT !.stale = TRUE])
        /\ UNCHANGED <<now, settings, model, seen, next, task, requests, faults, again>>
    BY <1>7, <2>1 DEF R!Remove, R!Changed, R!At0
  <2>4. tick' \in Ticking \cup {R!Idle}
    BY <2>2, TickStales
  <2> QED
    BY <2>1, <2>2, <2>4 DEF ResearchTyped
<1> QED
  BY <1>1, <1>2, <1>3, <1>4, <1>5, <1>6, <1>7

\* A step of Research is one of these.
LEMMA ResearchActs ==
  ASSUME R!Next
  PROVE  \/ R!ReadSettings \/ R!Abandon \/ R!EndTick \/ R!TimePasses
         \/ \E k \in R!Kinds : R!Probe(k)
         \/ R!Begin \/ R!WorkDaily \/ R!WorkBrief \/ R!WorkDebrief \/ R!ReadMark \/ R!SaveMark \/ R!Crash
         \/ \E k \in R!Kinds : R!Switch(k) \/ \E force \in BOOLEAN : R!RunNow(k, force)
         \/ R!Switched \/ R!SwitchModel \/ (\E k \in R!Kinds, d \in R!Slots : R!Delete(k, d))
         \/ R!Clear \/ R!Remove
BY DEF R!Next

LEMMA ResearchTypes == ASSUME ResearchTyped, R!Next PROVE ResearchTyped'
BY ResearchActs, TickTypes, ProbeTypes, TaskTypes, RequestTypes

\* What is settled remains so.
LEMMA Settles == ASSUME R!Next PROVE Settled \subseteq Settled'
<1>1. /\ \/ reports' = reports
         \/ \E x : reports' = reports \cup {x}
         \/ \E x : reports' = reports \ {x} /\ spoilt' = spoilt \cup {x}
      /\ spoilt' = spoilt \/ \E x : spoilt' = spoilt \cup x
  BY ResearchActs
     DEF R!ReadSettings, R!Abandon, R!EndTick, R!TimePasses, R!Probe, R!Begin, R!WorkDaily, R!WorkBrief,
         R!WorkDebrief, R!Work, R!Report, R!ReadMark, R!SaveMark, R!Crash, R!Switch, R!RunNow, R!Switched,
         R!SwitchModel, R!Delete, R!Clear, R!Remove, R!clock, R!stores, R!users, R!bounds
<1> QED
  BY <1>1 DEF Settled

LEMMA MarkingStays ==
  ASSUME NEW doc, Marking(doc), Settled \subseteq Settled'
  PROVE  Marking(doc)'
BY DEF Marking

LEMMA MarksFrame ==
  ASSUME ResearchTyped, MarksTrue, Settled \subseteq Settled'
  PROVE  /\ settings' = settings => Marking(settings)'
         /\ \/ tick' \in {tick, R!Idle}
            \/ tick.pc # "idle" /\ tick' = [tick EXCEPT !.stale = TRUE]
            => (tick # R!Idle => Marking(tick.view))'
         /\ task' \in {task, R!Idle} =>
              /\ (task.pc = "save" => Marking(task.view))'
              /\ (task.pc \in {"mark", "save"} => <<task.kind, task.slot>> \in Settled)'
         /\ request' \in {request, R!Idle} =>
              (request.pc \in {"switch", "clear"} => Marking(request.view))'
<1> USE DEF MarksTrue
<1>1. ASSUME settings' = settings PROVE Marking(settings)'
  <2>1. PICK d : d = settings
    OBVIOUS
  <2> QED
    BY <1>1, <2>1, MarkingStays
<1>2. ASSUME \/ tick' \in {tick, R!Idle}
             \/ tick.pc # "idle" /\ tick' = [tick EXCEPT !.stale = TRUE], tick' # R!Idle
      PROVE  Marking(tick.view)'
  <2>1. tick.pc # "idle" => tick \in Ticking
    BY Occupied
  <2>2. tick # R!Idle /\ tick'.view = tick.view
    BY <1>2, <2>1, ResearchIdle DEF Ticking
  <2>3. PICK d : d = tick.view
    OBVIOUS
  <2> QED
    BY <2>2, <2>3, MarkingStays
<1>3. ASSUME task' \in {task, R!Idle}
      PROVE  /\ (task.pc = "save" => Marking(task.view))'
             /\ (task.pc \in {"mark", "save"} => <<task.kind, task.slot>> \in Settled)'
  <2>1. task'.pc \in {"mark", "save"} => task' = task
    BY <1>3, ResearchIdle
  <2>2. PICK d : d = task.view
    OBVIOUS
  <2> QED
    BY <2>1, <2>2, MarkingStays
<1>4. ASSUME request' \in {request, R!Idle}, request'.pc \in {"switch", "clear"}
      PROVE  Marking(request.view)'
  <2>1. request' = request
    BY <1>4, ResearchIdle
  <2>2. PICK d : d = request.view
    OBVIOUS
  <2> QED
    BY <1>4, <2>1, <2>2, MarkingStays
<1> QED
  BY <1>1, <1>2, <1>3, <1>4

\* A mark of what is settled is true.
LEMMA MarkingTurns ==
  ASSUME NEW doc \in Docs, Marking(doc), NEW k \in R!Kinds, NEW d \in R!Slots,
         d = 0 \/ <<k, d>> \in Settled
  PROVE  Marking([doc EXCEPT !.last[k] = d])
<1> DEFINE new == [doc EXCEPT !.last[k] = d]
<1>1. new.last = [doc.last EXCEPT ![k] = d] /\ doc.last \in [R!Kinds -> R!Slots]
  BY DEF Docs
<1>2. \A j \in R!Kinds : new.last[j] = IF j = k THEN d ELSE doc.last[j]
  BY <1>1
<1> QED
  BY <1>2 DEF Marking

LEMMA MarksStep == ASSUME ResearchTyped, MarksTrue, R!Next PROVE MarksTrue'
<1>0. Settled \subseteq Settled'
  BY Settles
<1> DEFINE ticks == tick' \in {tick, R!Idle} \/ (tick.pc # "idle" /\ tick' = [tick EXCEPT !.stale = TRUE])
           tasks == task' \in {task, R!Idle}
           asks == request' \in {request, R!Idle}
<1>f. /\ settings' = settings => Marking(settings)'
      /\ ticks => (tick # R!Idle => Marking(tick.view))'
      /\ tasks => /\ (task.pc = "save" => Marking(task.view))'
                  /\ (task.pc \in {"mark", "save"} => <<task.kind, task.slot>> \in Settled)'
      /\ asks => (request.pc \in {"switch", "clear"} => Marking(request.view))'
  BY <1>0, MarksFrame
<1>1. CASE R!Abandon \/ R!EndTick \/ R!TimePasses \/ R!Crash \/ R!SwitchModel \/ R!Remove
  <2>1. settings' = settings /\ ticks /\ tasks /\ asks
    BY <1>1 DEF R!Abandon, R!EndTick, R!TimePasses, R!Crash, R!SwitchModel, R!Remove, R!Changed, R!At0,
                R!stores, R!users, R!bounds
  <2> QED
    BY <1>f, <2>1 DEF MarksTrue
<1>2. CASE R!ReadSettings
  <2>1. /\ settings' = settings /\ tasks /\ asks
        /\ tick' = [pc |-> "daily", view |-> settings, stale |-> FALSE]
    BY <1>2 DEF R!ReadSettings, R!stores, R!users
  <2>2. tick'.view = settings'
    BY <2>1
  <2> HIDE DEF tasks, asks
  <2>3. Marking(tick.view)'
    BY <1>f, <2>1, <2>2
  <2> QED
    BY <1>f, <2>1, <2>3 DEF MarksTrue
<1>3. ASSUME NEW k \in R!Kinds, R!Probe(k) PROVE MarksTrue'
  <2>1. PICK t \in Ticking : t = tick
    <3>1. tick.pc # "idle"
      BY <1>3 DEF R!Probe, R!At0, R!Kinds
    <3> QED
      BY <3>1, Occupied
  <2>2. \E to, b : tick' = [t EXCEPT !.pc = to, !.stale = b]
    BY <1>3, <2>1 DEF R!Probe
  <2>3. tick'.view = t.view /\ tick # R!Idle
    BY <2>1, <2>2, ResearchIdle DEF Ticking
  <2>4. Marking(t.view)'
    BY <1>0, <2>1, <2>3, MarkingStays DEF MarksTrue
  <2>5. /\ settings' = settings /\ asks
        /\ tasks \/ task'.pc = "begin"
    <3>1. /\ settings' = settings /\ request' = request
          /\ \/ task' = task
             \/ task' = [pc |-> "begin", kind |-> k, slot |-> 0, force |-> FALSE, manual |-> FALSE,
                        view |-> R!Idle]
      BY <1>3 DEF R!Probe, R!Launch, R!stores, R!users
    <3> QED
      BY <3>1
  <2>6. Marking(tick.view)'
    <3>1. PICK d : d = t.view
      OBVIOUS
    <3> QED
      BY <2>3, <2>4, <3>1
  <2> QED
    BY <1>f, <2>5, <2>6 DEF MarksTrue
<1>4. CASE R!Begin
  <2>1. settings' = settings /\ ticks /\ asks
    BY <1>4 DEF R!Begin, R!stores, R!users
  <2>2. PICK t \in Tasks : t = task
    BY <1>4, Occupied DEF R!Begin
  <2>3. task' = R!Idle \/ \E d : task' = [t EXCEPT !.pc = "working", !.slot = d]
    BY <1>4, <2>2 DEF R!Begin, R!TaskEnds
  <2>4. tasks \/ task'.pc = "working"
    BY <2>2, <2>3 DEF Tasks
  <2> QED
    BY <1>f, <2>1, <2>4 DEF MarksTrue
<1>5. CASE R!WorkDaily \/ R!WorkBrief \/ R!WorkDebrief
  <2>1. settings' = settings /\ ticks /\ asks
    BY <1>5 DEF R!WorkDaily, R!WorkBrief, R!WorkDebrief, R!Work, R!Changed, R!At0, R!users
  <2>2. PICK t \in Tasks : t = task
    BY <1>5, Occupied DEF R!WorkDaily, R!WorkBrief, R!WorkDebrief, R!Work
  <2>3. \/ task' = R!Idle
        \/ task' = [t EXCEPT !.pc = "mark"] /\ reports' = reports \cup {<<t.kind, t.slot>>}
    BY <1>5, <2>2 DEF R!WorkDaily, R!WorkBrief, R!WorkDebrief, R!Report, R!TaskEnds
  <2>4. CASE task' = R!Idle
    BY <1>f, <2>1, <2>4 DEF MarksTrue
  <2>5. CASE task' = [t EXCEPT !.pc = "mark"] /\ reports' = reports \cup {<<t.kind, t.slot>>}
    <3>1. task'.pc = "mark" /\ task'.kind = t.kind /\ task'.slot = t.slot
      BY <2>5 DEF Tasks
    <3>2. (<<task.kind, task.slot>> \in Settled)'
      BY <2>5, <3>1 DEF Settled
    <3> QED
      BY <1>f, <2>1, <3>1, <3>2 DEF MarksTrue
  <2> QED
    BY <2>3, <2>4, <2>5
<1>6. CASE R!ReadMark
  <2>1. settings' = settings /\ ticks /\ asks
    BY <1>6 DEF R!ReadMark, R!stores, R!users
  <2>2. PICK t \in Tasks : t = task /\ t.pc = "mark"
    BY <1>6, Occupied DEF R!ReadMark
  <2>3. task' = [t EXCEPT !.pc = "save", !.view = settings]
    BY <1>6, <2>2 DEF R!ReadMark
  <2>4. task'.view = settings' /\ task'.kind = t.kind /\ task'.slot = t.slot
    BY <2>1, <2>3 DEF Tasks
  <2>5. <<t.kind, t.slot>> \in Settled
    BY <2>2 DEF MarksTrue
  <2>6. (<<task.kind, task.slot>> \in Settled)'
    BY <1>0, <2>4, <2>5
  <2>7. Marking(task.view)'
    <3>1. Marking(settings)'
      BY <1>f, <2>1
    <3> QED
      BY <2>4, <3>1
  <2> QED
    BY <1>f, <2>1, <2>6, <2>7 DEF MarksTrue
<1>7. CASE R!SaveMark
  <2>1. ticks /\ task' = R!Idle /\ asks
    BY <1>7 DEF R!SaveMark, R!TaskEnds, R!Changed, R!At0, R!users
  <2>2. PICK t \in Tasks : t = task /\ t.pc = "save" /\ t.view \in Docs
    BY <1>7, Occupied DEF R!SaveMark, ResearchTyped
  <2>3. PICK d \in Docs : d = t.view
    BY <2>2
  <2>4. t.kind \in R!Kinds /\ t.slot \in R!Slots /\ Marking(d) /\ <<t.kind, t.slot>> \in Settled
    BY <2>2, <2>3 DEF MarksTrue, Tasks
  <2>5. PICK e : e = [d EXCEPT !.last[t.kind] = t.slot]
    OBVIOUS
  <2>6. Marking(e)'
    BY <1>0, <2>4, <2>5, MarkingTurns, MarkingStays
  <2>7. settings' = e
    BY <1>7, <2>2, <2>3, <2>5 DEF R!SaveMark
  <2>8. Marking(settings)'
    BY <2>6, <2>7
  <2> QED
    BY <1>f, <2>1, <2>8 DEF MarksTrue
<1>8. ASSUME NEW k \in R!Kinds, R!Switch(k) PROVE MarksTrue'
  <2>1. /\ settings' = settings /\ ticks /\ tasks
        /\ request' = [pc |-> "switch", kind |-> k, view |-> settings]
    BY <1>8 DEF R!Switch, R!Ask, R!stores
  <2>2. request'.view = settings'
    BY <2>1
  <2>3. Marking(request.view)'
    <3>1. Marking(settings)'
      BY <1>f, <2>1
    <3> QED
      BY <2>2, <3>1
  <2> QED
    BY <1>f, <2>1, <2>3 DEF MarksTrue
<1>9. ASSUME NEW k \in R!Kinds, NEW force \in BOOLEAN, R!RunNow(k, force) PROVE MarksTrue'
  <2>1. settings' = settings /\ ticks /\ asks /\ task'.pc = "begin"
    BY <1>9 DEF R!RunNow, R!Changed, R!At0, R!stores
  <2> QED
    BY <1>f, <2>1 DEF MarksTrue
<1>10. CASE R!Switched
  <2>1. ticks /\ tasks /\ asks
    BY <1>10 DEF R!Switched, R!Changed, R!At0
  <2>2. request \in Asking /\ request.pc = "switch"
    BY <1>10, Occupied DEF R!Switched
  <2>3. PICK d \in Docs : d = request.view
    BY <2>2 DEF Asking
  <2>4. Marking(d)
    BY <2>2, <2>3 DEF MarksTrue
  <2>5. \E on : settings' = [d EXCEPT !.on = on]
    BY <1>10, <2>3 DEF R!Switched
  <2>6. settings'.last = d.last
    BY <2>5 DEF Docs
  <2>7. Marking(d)'
    BY <1>0, <2>4, MarkingStays
  <2>8. Marking(settings)'
    BY <2>6, <2>7 DEF Marking
  <2> QED
    BY <1>f, <2>1, <2>8 DEF MarksTrue
<1>11. ASSUME NEW k \in R!Kinds, NEW d \in R!Slots, R!Delete(k, d) PROVE MarksTrue'
  <2>1. /\ settings' = settings /\ ticks /\ tasks
        /\ \/ request' = [pc |-> "clear", report |-> <<k, d>>, view |-> settings]
           \/ request' = [pc |-> "remove", report |-> <<k, d>>]
    BY <1>11 DEF R!Delete, R!Ask, R!stores
  <2>2. request'.pc = "remove" \/ request'.view = settings'
    BY <2>1
  <2>3. request'.pc = "remove" \/ Marking(request.view)'
    <3>1. Marking(settings)'
      BY <1>f, <2>1
    <3> QED
      BY <2>2, <3>1
  <2> QED
    BY <1>f, <2>1, <2>3 DEF MarksTrue
<1>12. CASE R!Clear
  <2>1. ticks /\ tasks
    BY <1>12 DEF R!Clear, R!Changed, R!At0
  <2>2. PICK q \in [pc : {"clear", "remove"}, report : R!Kinds \X R!Slots, view : Docs] :
          q = request /\ q.pc = "clear"
    <3>1. request \in Asking /\ request.pc = "clear"
      BY <1>12, Occupied DEF R!Clear
    <3> QED
      BY <3>1 DEF Asking
  <2>3. PICK d \in Docs : d = q.view
    BY <2>2
  <2>4. Marking(d)
    BY <2>2, <2>3 DEF MarksTrue
  <2>5. PICK e : e = [d EXCEPT !.last["daily"] = 0]
    OBVIOUS
  <2>6. Marking(e)'
    <3>1. Marking(e)
      BY <2>4, <2>5, MarkingTurns DEF R!Kinds, R!Slots
    <3> QED
      BY <1>0, <3>1, MarkingStays
  <2>7. settings' = e /\ request' = [q EXCEPT !.pc = "remove"]
    BY <1>12, <2>2, <2>3, <2>5 DEF R!Clear
  <2>8. Marking(settings)' /\ request'.pc = "remove"
    BY <2>6, <2>7
  <2> QED
    BY <1>f, <2>1, <2>8 DEF MarksTrue
<1> HIDE DEF ticks, tasks, asks
<1> QED
  BY <1>1, <1>2, <1>3, <1>4, <1>5, <1>6, <1>7, <1>8, <1>9, <1>10, <1>11, <1>12, ResearchActs

\* Without force nobody begins what is there.
LEMMA OnceStep == ASSUME ResearchTyped, OnceMade, R!Next PROVE OnceMade'
<1> USE DEF OnceMade
<1>1. CASE R!Begin
  <2>1. PICK t \in Tasks : t = task /\ t.pc = "begin"
    BY <1>1, Occupied DEF R!Begin
  <2>2. \/ task' = R!Idle
        \/ /\ task' = [t EXCEPT !.pc = "working", !.slot = R!Slot(t.kind)]
           /\ R!Skip(t.kind, settings, t.force, t.manual) = "none"
    BY <1>1, <2>1 DEF R!Begin, R!TaskEnds
  <2>3. made' = made /\ reports' = reports /\ again' = again
    BY <1>1 DEF R!Begin, R!stores, R!bounds
  <2>4. CASE task' = R!Idle
    BY <2>3, <2>4, ResearchIdle
  <2>5. CASE /\ task' = [t EXCEPT !.pc = "working", !.slot = R!Slot(t.kind)]
             /\ R!Skip(t.kind, settings, t.force, t.manual) = "none"
    <3>1. task'.kind = t.kind /\ task'.slot = R!Slot(t.kind) /\ task'.force = t.force
      BY <2>5 DEF Tasks
    <3>2. ~t.force => <<t.kind, R!Slot(t.kind)>> \notin reports
      BY <2>5 DEF R!Skip, R!Exists
    <3>3. PICK r : r = <<t.kind, R!Slot(t.kind)>>
      OBVIOUS
    <3>4. <<task'.kind, task'.slot>> = r
      BY <3>1, <3>3
    <3> QED
      BY <2>3, <3>1, <3>2, <3>3, <3>4
  <2> QED
    BY <2>2, <2>4, <2>5
<1>2. CASE R!WorkDaily \/ R!WorkBrief \/ R!WorkDebrief
  <2>1. PICK t \in Tasks : t = task /\ t.pc = "working"
    BY <1>2, Occupied DEF R!WorkDaily, R!WorkBrief, R!WorkDebrief, R!Work
  <2>2. \/ task' = R!Idle /\ UNCHANGED <<reports, made, again>>
        \/ /\ reports' = reports \cup {<<t.kind, t.slot>>} /\ made' = made \cup {<<t.kind, t.slot>>}
           /\ task' = [t EXCEPT !.pc = "mark"]
           /\ again' = (again \/ (~t.force /\ <<t.kind, t.slot>> \in made))
    BY <1>2, <2>1 DEF R!WorkDaily, R!WorkBrief, R!WorkDebrief, R!Report, R!TaskEnds
  <2>3. task' = R!Idle \/ task' = [t EXCEPT !.pc = "mark"] => task'.pc # "working"
    BY ResearchIdle DEF Tasks
  <2>4. ~t.force => <<t.kind, t.slot>> \notin made
    BY <2>1
  <2>5. CASE task' = R!Idle /\ UNCHANGED <<reports, made, again>>
    BY <2>3, <2>5
  <2>6. CASE /\ reports' = reports \cup {<<t.kind, t.slot>>} /\ made' = made \cup {<<t.kind, t.slot>>}
             /\ task' = [t EXCEPT !.pc = "mark"]
             /\ again' = (again \/ (~t.force /\ <<t.kind, t.slot>> \in made))
    <3>1. ~(again \/ (~t.force /\ <<t.kind, t.slot>> \in made))
      BY <2>4
    <3>2. ~again'
      BY <2>6, <3>1
    <3> QED
      BY <2>3, <2>6, <3>2
  <2> QED
    BY <2>2, <2>5, <2>6
<1>3. CASE R!ReadMark \/ R!SaveMark \/ R!Crash
  <2>1. made' = made /\ reports' = reports /\ again' = again
    BY <1>3 DEF R!ReadMark, R!SaveMark, R!Crash, R!stores, R!bounds
  <2>2. task'.pc # "working"
    <3>1. R!ReadMark => task \in Tasks
      BY Occupied DEF R!ReadMark
    <3> QED
      BY <1>3, <3>1, ResearchIdle DEF R!ReadMark, R!SaveMark, R!Crash, R!TaskEnds, Tasks
  <2> QED
    BY <2>1, <2>2
<1>4. ASSUME NEW k \in R!Kinds, R!Probe(k) PROVE OnceMade'
  <2>1. /\ made' = made /\ reports' = reports /\ again' = again
        /\ \/ task' = task
           \/ task' = [pc |-> "begin", kind |-> k, slot |-> 0, force |-> FALSE, manual |-> FALSE,
                       view |-> R!Idle]
    BY <1>4 DEF R!Probe, R!Launch, R!stores, R!bounds
  <2> QED
    BY <2>1
<1>5. ASSUME NEW k \in R!Kinds, NEW force \in BOOLEAN, R!RunNow(k, force) PROVE OnceMade'
  <2>1. made' = made /\ reports' = reports /\ again' = again /\ task'.pc = "begin"
    BY <1>5 DEF R!RunNow, R!stores, R!bounds
  <2> QED
    BY <2>1
<1>6. CASE \/ R!ReadSettings \/ R!Abandon \/ R!EndTick \/ R!TimePasses
           \/ (\E k \in R!Kinds : R!Switch(k)) \/ R!Switched \/ R!SwitchModel
           \/ (\E k \in R!Kinds, d \in R!Slots : R!Delete(k, d)) \/ R!Clear
  <2>1. made' = made /\ reports' = reports /\ again' = again /\ task' = task
    BY <1>6 DEF R!ReadSettings, R!Abandon, R!EndTick, R!TimePasses, R!Switch, R!Switched, R!SwitchModel,
                R!Delete, R!Clear, R!stores, R!users, R!bounds
  <2> QED
    BY <2>1
<1>7. CASE R!Remove
  <2>1. /\ reports' = reports \ {request.report} /\ made' = made \ {request.report}
        /\ again' = again /\ task' = task
    BY <1>7 DEF R!Remove
  <2> QED
    BY <2>1
<1> QED
  BY <1>1, <1>2, <1>3, <1>4, <1>5, <1>6, <1>7, ResearchActs

LEMMA GivenUpStep == ASSUME GivenUp, R!Next PROVE GivenUp'
<1>1. spoilt' = spoilt \/ \E x : spoilt' = spoilt \cup x
  BY ResearchActs
     DEF R!ReadSettings, R!Abandon, R!EndTick, R!TimePasses, R!Probe, R!Begin, R!WorkDaily, R!WorkBrief,
         R!WorkDebrief, R!Work, R!ReadMark, R!SaveMark, R!Crash, R!Switch, R!RunNow, R!Switched,
         R!SwitchModel, R!Delete, R!Clear, R!Remove, R!bounds
<1>2. model' = model \/ spoilt' = spoilt \cup ((R!Kinds \ {"daily"}) \X R!Slots)
  BY ResearchActs
     DEF R!ReadSettings, R!Abandon, R!EndTick, R!TimePasses, R!Probe, R!Begin, R!WorkDaily, R!WorkBrief,
         R!WorkDebrief, R!Work, R!ReadMark, R!SaveMark, R!Crash, R!Switch, R!RunNow, R!Switched,
         R!SwitchModel, R!Delete, R!Clear, R!Remove, R!stores
<1> QED
  BY <1>1, <1>2 DEF GivenUp

\* Why a look at k that is due leaves it alone.
SkipOf(k, doc) ==
  IF k = "daily" THEN (IF R!DailyDone(doc) THEN "already" ELSE "none")
  ELSE R!Skip(k, doc, FALSE, FALSE)

LEMMA SkipIs ==
  ASSUME ResearchTyped, NEW k \in R!Kinds, NEW doc \in Docs, Marking(doc), k \in doc.on, R!Past(k)
  PROVE  /\ SkipOf(k, doc) \in {"already", "model", "waiting", "none"}
         /\ SkipOf(k, doc) = "already" => <<k, R!Slot(k)>> \in Settled
         /\ SkipOf(k, doc) = "model" => ~model /\ k # "daily"
         /\ SkipOf(k, doc) = "waiting" => ~R!Inputs(k, doc, FALSE)
<1>0. doc.last[k] = 0 \/ <<k, doc.last[k]>> \in Settled
  BY DEF Marking
<1>1. R!Slot(k) # 0
  BY Nows DEF ResearchTyped
<1>2. doc.last[k] = R!Slot(k) \/ <<k, R!Slot(k)>> \in reports => <<k, R!Slot(k)>> \in Settled
  BY <1>0, <1>1 DEF Settled
<1>3. CASE k = "daily"
  BY <1>2, <1>3 DEF SkipOf, R!DailyDone, R!Exists, R!Slot
<1>4. CASE k # "daily"
  <2>1. k = "debrief" => R!DebriefWeek # 0
    BY DEF R!Past
  <2> QED
    BY <1>2, <1>4, <2>1 DEF SkipOf, R!Skip, R!Marked, R!Exists
<1> QED
  BY <1>3, <1>4

\* What a look at k does.
LEMMA ProbeIs ==
  ASSUME ResearchTyped, NEW k \in R!Kinds, R!Probe(k)
  PROVE  /\ tick \in Ticking /\ tick.pc = k
         /\ UNCHANGED <<now, passed, settings, model, reports, spoilt>>
         /\ \E b : /\ tick' = [tick EXCEPT !.pc = R!After(k), !.stale = tick.stale \/ b]
                   /\ \/ b /\ next' = [next EXCEPT ![k] = 0]
                      \/ ~b /\ ~R!Due(k) /\ next' = next
                      \/ /\ ~b /\ R!Due(k) /\ ~R!Past(k) /\ next' = [next EXCEPT ![k] = R!NextSlot(k)]
                      \/ /\ ~b /\ R!Due(k) /\ R!Past(k) /\ SkipOf(k, tick.view) # "none"
                         /\ next' = [next EXCEPT ![k] = R!Retry(k, SkipOf(k, tick.view))]
<1>1. tick \in Ticking /\ tick.pc = k
  <2>1. tick.pc # "idle" /\ tick.pc = k
    BY DEF R!Probe, R!At0, R!Kinds
  <2> QED
    BY <2>1, Occupied
<1>2. UNCHANGED <<now, passed, settings, model, reports, spoilt>>
  BY DEF R!Probe, R!clock, R!stores, R!bounds
<1> DEFINE b == R!Due(k) /\ R!Past(k) /\ SkipOf(k, tick.view) = "none"
<1>3. /\ tick' = [tick EXCEPT !.pc = R!After(k), !.stale = tick.stale \/ b]
      /\ IF b THEN next' = [next EXCEPT ![k] = 0]
         ELSE next' = IF ~R!Due(k) THEN next
                ELSE [next EXCEPT ![k] = IF R!Past(k) THEN R!Retry(k, SkipOf(k, tick.view))
                                         ELSE R!NextSlot(k)]
  BY DEF R!Probe, R!Launch, SkipOf
<1> QED
  BY <1>1, <1>2, <1>3

LEMMA AwaitedStays ==
  ASSUME ResearchTyped, Settled \subseteq Settled', NEW k \in R!Kinds, Awaited(k),
         now' = now \/ now' = now + 1, next'[k] = next[k] \/ next'[k] = 0
  PROVE  Awaited(k)'
<1> SUFFICES ASSUME Kept(k), NEW u \in Times, now' <= u, u < next'[k], PastAt(k, u)
             PROVE  <<k, SlotAt(k, u)>> \in Settled'
  BY DEF Awaited
<1>1. u \in Nat /\ now \in Nat
  BY CalendarIs DEF ResearchTyped
<1>2. now <= u /\ u < next[k]
  BY <1>1
<1> QED
  BY <1>2 DEF Awaited

LEMMA AwaitedStep ==
  ASSUME ResearchInv, R!Next, NEW k \in R!Kinds PROVE Awaited(k)'
<1>0. ResearchTyped /\ Awaited(k) /\ Settled \subseteq Settled' /\ GivenUp /\ MarksTrue
  BY Settles DEF ResearchInv
<1>1. CASE \/ R!ReadSettings \/ R!Abandon \/ R!EndTick \/ R!TimePasses
           \/ R!Begin \/ R!WorkDaily \/ R!WorkBrief \/ R!WorkDebrief \/ R!ReadMark \/ R!SaveMark \/ R!Crash
           \/ \E j \in R!Kinds : R!Switch(j) \/ \E force \in BOOLEAN : R!RunNow(j, force)
           \/ R!Switched \/ R!SwitchModel \/ (\E j \in R!Kinds, d \in R!Slots : R!Delete(j, d))
           \/ R!Clear \/ R!Remove
  <2>1. now' = now \/ now' = now + 1
    BY <1>1 DEF R!ReadSettings, R!Abandon, R!EndTick, R!TimePasses, R!Begin, R!WorkDaily, R!WorkBrief,
         R!WorkDebrief, R!Work, R!ReadMark, R!SaveMark, R!Crash, R!Switch, R!RunNow, R!Switched,
         R!SwitchModel, R!Delete, R!Clear, R!Remove, R!clock
  <2>2. next'[k] = next[k] \/ next'[k] = 0
    BY <1>1 DEF R!ReadSettings, R!Abandon, R!EndTick, R!TimePasses, R!Begin, R!WorkDaily, R!WorkBrief,
         R!WorkDebrief, R!Work, R!ReadMark, R!SaveMark, R!Crash, R!Switch, R!RunNow, R!Switched,
         R!SwitchModel, R!Delete, R!Clear, R!Remove
  <2> QED
    BY <1>0, <2>1, <2>2, AwaitedStays
<1>2. ASSUME NEW j \in R!Kinds, R!Probe(j) PROVE Awaited(k)'
  <2>1. /\ tick \in Ticking /\ tick.pc = j
        /\ UNCHANGED <<now, passed, settings, model, reports, spoilt>>
    BY <1>0, <1>2, ProbeIs
  <2>2. \/ next' = [next EXCEPT ![j] = 0] \/ next' = next
        \/ R!Due(j) /\ ~R!Past(j) /\ next' = [next EXCEPT ![j] = R!NextSlot(j)]
        \/ /\ R!Due(j) /\ R!Past(j) /\ SkipOf(j, tick.view) # "none"
           /\ next' = [next EXCEPT ![j] = R!Retry(j, SkipOf(j, tick.view))]
    BY <1>0, <1>2, ProbeIs
  <2>3. CASE j # k \/ next' = [next EXCEPT ![j] = 0] \/ next' = next
    <3>1. next'[k] = next[k] \/ next'[k] = 0
      BY <1>0, <2>2, <2>3 DEF ResearchTyped
    <3> QED
      BY <1>0, <2>1, <3>1, AwaitedStays
  <2>4. ASSUME j = k, R!Due(j), ~R!Past(j), next' = [next EXCEPT ![j] = R!NextSlot(j)]
        PROVE  Awaited(k)'
    <3>1. next'[k] = NextAt(k, now) /\ ~PastAt(k, now) /\ now \in Nat /\ now + Zone \in Nat
      BY <1>0, <2>4, Nows, CalendarIs DEF ResearchTyped
    <3> SUFFICES ASSUME Kept(k), NEW u \in Times, now' <= u, u < next'[k], PastAt(k, u) PROVE FALSE
      BY DEF Awaited
    <3>2. u \in Nat /\ now <= u
      BY <2>1, CalendarIs
    <3> QED
      BY <3>1, <3>2, NothingNew
  <2>5. ASSUME j = k, R!Due(j), R!Past(j), SkipOf(j, tick.view) # "none",
               next' = [next EXCEPT ![j] = R!Retry(j, SkipOf(j, tick.view))]
        PROVE  Awaited(k)'
    <3>1. PICK d \in Docs : d = tick.view
      BY <2>1 DEF Ticking
    <3>2. Marking(d) /\ k \in d.on
      BY <1>0, <2>1, <2>5, <3>1, ResearchIdle DEF MarksTrue, R!Due
    <3>3. /\ SkipOf(k, d) \in {"already", "model", "waiting"}
          /\ SkipOf(k, d) = "already" => <<k, R!Slot(k)>> \in Settled
          /\ SkipOf(k, d) = "model" => ~model /\ k # "daily"
      BY <1>0, <2>5, <3>1, <3>2, SkipIs
    <3>4. next'[k] = R!Retry(k, SkipOf(k, d))
      BY <1>0, <2>5, <3>1 DEF ResearchTyped
    <3>5. CASE SkipOf(k, d) = "already"
      <4>1. /\ next'[k] = NextAt(k, now) /\ <<k, SlotAt(k, now)>> \in Settled'
            /\ now \in Nat /\ now + Zone \in Nat
        BY <1>0, <3>3, <3>4, <3>5, Nows, CalendarIs DEF ResearchTyped, R!Retry
      <4> SUFFICES ASSUME Kept(k), NEW u \in Times, now' <= u, u < next'[k], PastAt(k, u)
                   PROVE  <<k, SlotAt(k, u)>> \in Settled'
        BY DEF Awaited
      <4>2. u \in Nat /\ now <= u
        BY <2>1, CalendarIs
      <4>3. SlotAt(k, u) = SlotAt(k, now)
        BY <4>1, <4>2, NothingNew
      <4> QED
        BY <4>1, <4>3
    <3>6. CASE SkipOf(k, d) = "model"
      <4> SUFFICES ASSUME NEW u \in Times, PastAt(k, u) PROVE <<k, SlotAt(k, u)>> \in Settled'
        BY DEF Awaited
      <4>1. SlotAt(k, u) \in R!Slots
        BY SlotsAre
      <4>2. {k} \X R!Slots \subseteq spoilt
        BY <1>0, <3>3, <3>6 DEF GivenUp
      <4> QED
        BY <1>0, <4>1, <4>2 DEF Settled
    <3>7. CASE SkipOf(k, d) = "waiting"
      <4>1. next'[k] = 0
        BY <3>4, <3>7 DEF R!Retry
      <4> QED
        BY <1>0, <2>1, <4>1, AwaitedStays
    <3> QED
      BY <3>3, <3>5, <3>6, <3>7
  <2> QED
    BY <2>2, <2>3, <2>4, <2>5
<1> QED
  BY <1>1, <1>2, ResearchActs

LEMMA QuietStays ==
  ASSUME NEW k, Quiet(k), Settled \subseteq Settled', UNCHANGED <<now, settings, model, reports>>
  PROVE  Quiet(k)'
<1>1. /\ R!Past(k)' = R!Past(k) /\ R!Slot(k)' = R!Slot(k)
      /\ R!Inputs(k, settings, FALSE)' = R!Inputs(k, settings, FALSE)
  BY DEF R!Past, R!PastDaily, R!PastBrief, R!DebriefWeek, R!Slot, R!Inputs, R!DailyDone, R!Exists,
         R!Today, R!LocalDay
<1>2. PICK d : d = R!Slot(k)
  OBVIOUS
<1>3. R!Slot(k)' = d
  BY <1>1, <1>2
<1> QED
  BY <1>1, <1>2, <1>3 DEF Quiet

\* A look that launches nothing leaves nothing to do.
LEMMA QuietProbe ==
  ASSUME ResearchInv, NEW k \in R!Kinds, R!Probe(k), tick.view = settings, ~tick.stale, ~tick'.stale
  PROVE  Quiet(k)
<1> SUFFICES ASSUME Kept(k), k \in settings.on, R!Past(k), model, R!Inputs(k, settings, FALSE)
             PROVE  <<k, R!Slot(k)>> \in Settled
  BY DEF Quiet
<1>0. ResearchTyped /\ Awaited(k) /\ Marking(settings) /\ settings \in Docs /\ now \in Times
  BY DEF ResearchInv, MarksTrue, ResearchTyped
<1>1. tick \in Ticking /\ (~R!Due(k) \/ SkipOf(k, settings) # "none")
  <2>1. tick \in Ticking
    BY <1>0, ProbeIs
  <2>2. PICK b : /\ tick' = [tick EXCEPT !.pc = R!After(k), !.stale = tick.stale \/ b]
                 /\ b \/ ~R!Due(k) \/ ~R!Past(k) \/ SkipOf(k, tick.view) # "none"
    BY <1>0, ProbeIs
  <2>3. tick'.stale = (tick.stale \/ b)
    BY <2>1, <2>2 DEF Ticking
  <2>4. ~b
    BY <2>3
  <2> QED
    BY <2>1, <2>2, <2>4
<1>2. CASE ~R!Due(k)
  <2>1. now < next[k]
    <3>1. next[k] \in Int /\ now \in Int
      BY <1>0, CalendarIs DEF ResearchTyped
    <3> QED
      BY <1>2, <3>1 DEF R!Due
  <2>2. PastAt(k, now) /\ R!Slot(k) = SlotAt(k, now) /\ now <= now
    BY <1>0, Nows, CalendarIs
  <2> QED
    BY <1>0, <2>1, <2>2 DEF Awaited
<1>3. CASE SkipOf(k, settings) # "none"
  BY <1>0, <1>3, SkipIs
<1> QED
  BY <1>1, <1>2, <1>3

LEMMA LooksStep == ASSUME ResearchInv, R!Next PROVE LooksTrue'
<1>0. ResearchTyped /\ LooksTrue /\ Settled \subseteq Settled'
  BY Settles DEF ResearchInv
<1> DEFINE still == UNCHANGED <<now, settings, model, reports>>
<1>1. ASSUME still, NEW k, Quiet(k) PROVE Quiet(k)'
  BY <1>0, <1>1, QuietStays
<1>2. ASSUME still, passed' = passed, tick' \in {tick, R!Idle} PROVE LooksTrue'
  BY <1>0, <1>1, <1>2 DEF LooksTrue
<1>3. ASSUME passed' = FALSE, tick' = R!Idle PROVE LooksTrue'
  BY <1>3 DEF LooksTrue
<1>4. ASSUME R!Changed PROVE LooksTrue'
  <2>1. passed' = FALSE /\ (tick.pc = "idle" => tick' = tick)
        /\ (tick.pc # "idle" => tick' = [tick EXCEPT !.stale = TRUE])
    BY <1>4 DEF R!Changed, R!At0
  <2>2. tick.pc = "idle" => tick = R!Idle
    BY <1>0 DEF ResearchTyped, Ticking
  <2>3. tick.pc # "idle" => tick'.stale
    <3>1. tick.pc # "idle" => tick \in Ticking
      BY <1>0, Occupied
    <3> QED
      BY <2>1, <3>1 DEF Ticking
  <2> QED
    BY <2>1, <2>2, <2>3 DEF LooksTrue
<1>5. CASE R!ReadSettings
  <2>1. still /\ passed' = passed /\ tick' = [pc |-> "daily", view |-> settings, stale |-> FALSE]
        /\ ~passed
    BY <1>5 DEF R!ReadSettings, R!clock, R!stores
  <2>2. tick'.pc = "daily" /\ tick'.view = settings' /\ Looked(tick'.pc) = {}
    BY <2>1 DEF Looked
  <2> QED
    BY <2>1, <2>2 DEF LooksTrue
<1>6. ASSUME NEW k \in R!Kinds, R!Probe(k) PROVE LooksTrue'
  <2>1. /\ tick \in Ticking /\ tick.pc = k /\ still /\ passed' = passed
    BY <1>0, <1>6, ProbeIs
  <2>2. PICK b : tick' = [tick EXCEPT !.pc = R!After(k), !.stale = tick.stale \/ b]
    BY <1>0, <1>6, ProbeIs
  <2>3. tick'.pc = R!After(k) /\ tick'.view = tick.view /\ (tick.stale => tick'.stale)
    BY <2>1, <2>2 DEF Ticking
  <2>4. ASSUME ~tick'.stale PROVE tick'.view = settings' /\ \A j \in Looked(tick'.pc) : Quiet(j)'
    <3>1. /\ ~tick.stale /\ tick.view = settings /\ \A j \in Looked(k) : Quiet(j)
      BY <1>0, <2>1, <2>3, <2>4, ResearchIdle DEF LooksTrue
    <3>2. Quiet(k)
      BY <1>6, <2>4, <3>1, QuietProbe
    <3>3. Looked(R!After(k)) \subseteq Looked(k) \cup {k}
      BY DEF Looked, R!After, R!Kinds
    <3>4. \A j \in Looked(R!After(k)) : Quiet(j)
      BY <3>1, <3>2, <3>3
    <3> QED
      BY <1>1, <2>1, <2>3, <3>1, <3>4
  <2>5. passed' => \A j \in R!Kinds : Quiet(j)'
    BY <1>0, <1>1, <2>1 DEF LooksTrue
  <2> QED
    BY <2>4, <2>5 DEF LooksTrue
<1>7. CASE R!EndTick
  <2>1. still /\ passed' = ~tick.stale /\ tick' = R!Idle /\ tick.pc = "end"
    BY <1>7 DEF R!EndTick, R!At0, R!stores
  <2>2. ~tick.stale => \A k \in R!Kinds : Quiet(k)
    <3>1. tick # R!Idle /\ Looked(tick.pc) = R!Kinds
      BY <2>1, ResearchIdle DEF Looked
    <3> QED
      BY <1>0, <3>1 DEF LooksTrue
  <2> QED
    BY <1>1, <2>1, <2>2 DEF LooksTrue
<1>8. CASE R!Abandon \/ R!Begin \/ R!ReadMark \/ (\E k \in R!Kinds : R!Switch(k))
           \/ (\E k \in R!Kinds, d \in R!Slots : R!Delete(k, d))
  <2>1. still /\ passed' = passed /\ tick' \in {tick, R!Idle}
    BY <1>8 DEF R!Abandon, R!Begin, R!ReadMark, R!Switch, R!Delete, R!clock, R!stores
  <2> QED
    BY <1>2, <2>1
<1>9. CASE R!Crash
  BY <1>3, <1>9 DEF R!Crash
<1>10. CASE R!TimePasses
  <2>1. tick' = tick /\ tick.pc = "idle" /\ passed' = FALSE
    BY <1>10 DEF R!TimePasses, R!At0
  <2>2. tick = R!Idle
    BY <1>0, <2>1 DEF ResearchTyped, Ticking
  <2> QED
    BY <1>3, <2>1, <2>2
<1>11. CASE \/ R!WorkDaily \/ R!WorkBrief \/ R!WorkDebrief \/ R!SaveMark
            \/ (\E k \in R!Kinds, force \in BOOLEAN : R!RunNow(k, force))
            \/ R!Switched \/ R!SwitchModel \/ R!Clear \/ R!Remove
  <2>1. R!Changed
    BY <1>11 DEF R!WorkDaily, R!WorkBrief, R!WorkDebrief, R!Work, R!SaveMark, R!RunNow, R!Switched,
         R!SwitchModel, R!Clear, R!Remove
  <2> QED
    BY <1>4, <2>1
<1> HIDE DEF still
<1> QED
  BY <1>5, <1>6, <1>7, <1>8, <1>9, <1>10, <1>11, ResearchActs

LEMMA ResearchStart == ASSUME R!Init PROVE ResearchInv
<1>1. /\ now = FirstDay * PerDay /\ settings = [on |-> R!Kinds, last |-> [k \in R!Kinds |-> 0]]
      /\ model = TRUE /\ reports \subseteq {<<"daily", FirstDay - 2>>}
      /\ tick = R!Idle /\ seen = R!Idle /\ next = [k \in R!Kinds |-> 0] /\ passed = FALSE
      /\ task = R!Idle /\ request = R!Idle /\ requests = 0 /\ faults = 0
      /\ made = {} /\ again = FALSE /\ spoilt = {}
  BY DEF R!Init
<1>2. now \in Times
  <2>1. /\ PerDay \in Nat \ {0} /\ FirstDay \in Int /\ LastDay + 1 \in Int /\ FirstDay < LastDay + 1
    BY CalendarAssumption
  <2>2. /\ FirstDay * PerDay \in Int /\ (LastDay + 1) * PerDay \in Int
        /\ FirstDay * PerDay + PerDay <= (LastDay + 1) * PerDay
    BY <2>1, Multiplied
  <2> QED
    BY <1>1, <2>1, <2>2 DEF Times
<1>3. settings \in Docs /\ Marking(settings)
  BY <1>1 DEF Docs, R!Slots, Marking
<1>4. reports \subseteq R!Kinds \X R!Slots
  <2>1. FirstDay - 2 \in R!Slots /\ "daily" \in R!Kinds
    BY CalendarAssumption DEF R!Slots, R!Kinds
  <2> QED
    BY <1>1, <2>1
<1>5. MaxCalls["research"] \in Nat /\ MaxFaults["research"] \in Nat /\ R!Never \in Nat
  BY ServicesAssumption, NeverIs DEF Limited, Failing
<1>6. ResearchTyped
  <2>1. next \in [R!Kinds -> Int] /\ \A k \in R!Kinds : next[k] \in 0..R!Never
    BY <1>1, <1>5
  <2>2. requests \in 0..MaxCalls["research"] /\ faults \in 0..MaxFaults["research"]
    BY <1>1, <1>5
  <2>3. /\ tick \in Ticking \cup {R!Idle} /\ seen \in Docs \cup {R!Idle}
        /\ task \in Tasks \cup {R!Idle} /\ request \in Asking \cup {R!Idle} /\ task.pc # "save"
    BY <1>1, ResearchIdle
  <2>4. /\ model \in BOOLEAN /\ passed \in BOOLEAN /\ again \in BOOLEAN
        /\ made \subseteq R!Kinds \X R!Slots /\ spoilt \subseteq R!Kinds \X R!Slots
    BY <1>1
  <2> QED
    BY <1>2, <1>3, <1>4, <2>1, <2>2, <2>3, <2>4 DEF ResearchTyped
<1>7. MarksTrue /\ OnceMade /\ GivenUp /\ LooksTrue
  BY <1>1, <1>3, ResearchIdle DEF MarksTrue, OnceMade, GivenUp, LooksTrue
<1>8. ASSUME NEW k \in R!Kinds PROVE Awaited(k)
  <2>1. next[k] = 0 /\ \A u \in Times : u \in Nat
    BY <1>1, CalendarIs
  <2> QED
    BY <2>1 DEF Awaited
<1> QED
  BY <1>6, <1>7, <1>8 DEF ResearchInv

LEMMA ResearchSteps == ResearchInv /\ [R!Next]_R!vars => ResearchInv'
<1> SUFFICES ASSUME ResearchInv, [R!Next]_R!vars PROVE ResearchInv'
  OBVIOUS
<1>1. CASE UNCHANGED R!vars
  <2>1. UNCHANGED <<now, settings, model, reports, tick, seen, next, passed, task, request,
                    requests, faults, made, again, spoilt>>
    BY <1>1 DEF R!vars
  <2>2. \A k : Quiet(k) => Quiet(k)'
    BY <2>1, QuietStays DEF Settled
  <2>3. LooksTrue'
    BY <2>1, <2>2 DEF ResearchInv, LooksTrue
  <2> QED
    BY <2>1, <2>3 DEF ResearchInv, ResearchTyped, MarksTrue, Marking, Settled, OnceMade, GivenUp, Awaited
<1>2. CASE R!Next
  <2>1. ResearchTyped' /\ MarksTrue' /\ OnceMade' /\ GivenUp'
    BY <1>2, ResearchTypes, MarksStep, OnceStep, GivenUpStep DEF ResearchInv
  <2>2. LooksTrue'
    BY <1>2, LooksStep
  <2>3. \A k \in R!Kinds : Awaited(k)'
    BY <1>2, AwaitedStep
  <2> QED
    BY <2>1, <2>2, <2>3 DEF ResearchInv
<1> QED
  BY <1>1, <1>2

LEMMA ResearchTrue ==
  ASSUME ResearchInv PROVE R!TypeOK /\ R!OncePerSlot /\ (Zone >= 0 => R!ReportedInTime)
<1>1. R!TypeOK
  <2>1. settings.on \subseteq R!Kinds /\ settings.last \in [R!Kinds -> R!Slots]
    BY DEF ResearchInv, ResearchTyped, Docs
  <2>2. task.pc \in {"idle", "begin", "working", "mark", "save"}
    BY ResearchIdle DEF ResearchInv, ResearchTyped, Tasks
  <2> QED
    BY <2>1, <2>2 DEF ResearchInv, ResearchTyped, Times, R!TypeOK
<1>2. ASSUME Zone >= 0 PROVE R!ReportedInTime
  <2> SUFFICES ASSUME passed, NEW k \in settings.on, R!Past(k), model, R!Inputs(k, settings, FALSE),
                      <<k, R!Slot(k)>> \notin spoilt
               PROVE  <<k, R!Slot(k)>> \in reports
    BY DEF R!ReportedInTime, R!Exists
  <2>1. k \in R!Kinds
    BY DEF ResearchInv, ResearchTyped, Docs
  <2>2. Quiet(k)
    BY <2>1 DEF ResearchInv, LooksTrue
  <2> QED
    BY <1>2, <2>2 DEF Quiet, Kept, Settled
<1>3. R!OncePerSlot
  BY DEF ResearchInv, OnceMade, R!OncePerSlot
<1> QED
  BY <1>1, <1>2, <1>3

LEMMA ResearchMoves ==
  (part = "research" => ResearchInv) /\ [Next]_all => (part = "research" => ResearchInv)'
<1> SUFFICES ASSUME part = "research" => ResearchInv, [Next]_all, part' = "research"
             PROVE  ResearchInv'
  OBVIOUS
<1>1. ResearchInv /\ [R!Next]_R!vars
  BY PartStep
<1> QED
  BY <1>1, ResearchSteps

\* However users switch kinds and models, delete reports, ask for them and
\* overwrite the settings, and wherever the orchestrator dies, no report is made
\* twice unforced (runner.py, weekly.py), in every market.
THEOREM ReportsOnce == Spec => [](part = "research" => R!TypeOK /\ R!OncePerSlot)
<1>1. Init => (part = "research" => ResearchInv)
  BY ResearchStart DEF Init
<1>2. (part = "research" => ResearchInv) => (part = "research" => R!TypeOK /\ R!OncePerSlot)
  BY ResearchTrue
<1> QED
  BY <1>1, <1>2, ResearchMoves, PTL DEF Spec

\* And where the market's date is not behind that of UTC, once a tick that nothing
\* disturbs has passed every report that is due and can be made is there: what a
\* look puts off is settled until then (scheduled_research.py).
THEOREM ReportsInTime == ASSUME Zone >= 0 PROVE Spec => []ReportedOnce
<1>1. Init => (part = "research" => ResearchInv)
  BY ResearchStart DEF Init
<1>2. (part = "research" => ResearchInv) => ReportedOnce
  BY ResearchTrue DEF ReportedOnce
<1> QED
  BY <1>1, <1>2, ResearchMoves, PTL DEF Spec
-----------------------------------------------------------------------------
(* Simulation                                                              *)

\* The least and the greatest of finitely many numbers.  The sets of smaller ones
\* are ordered by inclusion: the smallest of these sets is that of the least.
LEMMA LeastIs ==
  ASSUME NEW T, T \subseteq Int, IsFiniteSet(T), T # {}
  PROVE  S!Min(T) \in T /\ \A x \in T : S!Min(T) <= x
<1> DEFINE Below(x) == {y \in T : y < x}
           All == {Below(x) : x \in T}
<1>1. All \subseteq FiniteSubsetsOf(T) /\ All # {}
  <2>1. \A x : Below(x) \subseteq T /\ IsFiniteSet(Below(x))
    BY FS_Subset
  <2> QED
    BY <2>1 DEF FiniteSubsetsOf
<1>2. PICK u \in All : \A v \in All : <<v, u>> \notin StrictSubsetOrdering(T)
  <2> HIDE DEF All
  <2> QED
    BY <1>1, FS_StrictSubsetOrderingWellFounded, WFMin
<1>3. PICK x \in T : u = Below(x)
  BY <1>2
<1>4. ASSUME NEW y \in T, y < x PROVE FALSE
  <2>0. <<Below(y), Below(x)>> \notin StrictSubsetOrdering(T)
    BY <1>2, <1>3
  <2>1. ~(Below(y) \subseteq Below(x) /\ Below(y) # Below(x))
    BY <2>0 DEF StrictSubsetOrdering
  <2>2. y \in Below(x) /\ y \notin Below(y)
    BY <1>4
  <2>3. \A z \in Below(y) : z \in Below(x)
    BY <1>4
  <2> HIDE DEF Below
  <2> QED
    BY <2>1, <2>2, <2>3
<1>5. \A y \in T : x <= y
  BY <1>4
<1> QED
  BY <1>5 DEF S!Min

LEMMA ImageFinite ==
  ASSUME NEW D, IsFiniteSet(D), NEW f, f = [x \in D |-> f[x]]
  PROVE  IsFiniteSet({f[x] : x \in D})
<1>1. f \in Surjection(D, {f[x] : x \in D})
  BY DEF Surjection
<1> QED
  BY <1>1, FS_Surjection

LEMMA PairFinite ==
  ASSUME NEW x, NEW y
  PROVE  IsFiniteSet({x, y})
<1>1. IsFiniteSet({x}) /\ IsFiniteSet({y})
  BY FS_Singleton
<1>2. IsFiniteSet({x} \cup {y})
  BY <1>1, FS_Union
<1>3. {x, y} = {x} \cup {y}
  OBVIOUS
<1> QED
  BY <1>2, <1>3

LEMMA GreatestIs ==
  ASSUME NEW T, T \subseteq Int, IsFiniteSet(T), T # {}
  PROVE  S!Max(T) \in T /\ \A x \in T : x <= S!Max(T)
<1> DEFINE Minus == {-x : x \in T}
           f == [x \in T |-> -x]
<1>1. Minus \subseteq Int /\ IsFiniteSet(Minus) /\ Minus # {}
  <2>1. IsFiniteSet({f[x] : x \in T})
    <3>1. f = [x \in T |-> f[x]]
      OBVIOUS
    <3> HIDE DEF f
    <3> QED
      BY <3>1, ImageFinite
  <2>2. Minus = {f[x] : x \in T}
    OBVIOUS
  <2>3. Minus \subseteq Int
    OBVIOUS
  <2>4. Minus # {}
    <3>1. PICK x : x \in T
      OBVIOUS
    <3>2. -x \in Minus
      BY <3>1
    <3> QED
      BY <3>2
  <2> HIDE DEF f, Minus
  <2> QED
    BY <2>1, <2>2, <2>3, <2>4
<1>2. S!Min(Minus) \in Minus /\ \A x \in Minus : S!Min(Minus) <= x
  BY <1>1, LeastIs
<1>3. PICK x \in T : S!Min(Minus) = -x
  BY <1>2
<1>4. \A y \in T : -y \in Minus
  OBVIOUS
<1>5. ASSUME NEW y \in T PROVE y <= x
  <2>1. -x <= -y /\ x \in Int /\ y \in Int
    BY <1>2, <1>3, <1>4
  <2> QED
    BY <2>1
<1> QED
  BY <1>5 DEF S!Max

\* Days and hours.
LEMMA DaysOn ==
  ASSUME NEW x \in Int
  PROVE  /\ S!Hour(x) \in 0..23 /\ S!Weekday(x) \in 0..6
         /\ S!Hour(x + 24) = S!Hour(x) /\ S!Hour(x + 48) = S!Hour(x)
         /\ S!Weekday(x + 24) = (S!Weekday(x) + 1) % 7
         /\ S!Weekday(x + 48) = (S!Weekday(x) + 2) % 7
BY DEF S!Hour, S!Weekday, S!Date

LEMMA HoursOn ==
  ASSUME NEW x \in Int, NEW f \in 1..12, S!Hour(x) = 17
  PROVE  IF f < 7 THEN S!Hour(x + f) = 17 + f /\ S!Weekday(x + f) = S!Weekday(x)
                  ELSE S!Hour(x + f) = f - 7 /\ S!Weekday(x + f) = (S!Weekday(x) + 1) % 7
BY DEF S!Hour, S!Weekday, S!Date

\* Wherever the market is closed, it is open a bar, a day or two days later.
LEMMA Reopens ==
  ASSUME NEW u \in Int, u % Frame = 0, ~S!ForexOpen(u)
  PROVE  \E n \in 2..72 \div Frame : S!ForexOpen(u + Frame * (n - 1))
<1> DEFINE x == u - Et
<1> USE SimulationAssumption
<1>1. x \in Int /\ (u + 24) - Et = x + 24 /\ (u + 48) - Et = x + 48 /\ (u + Frame) - Et = x + Frame
  OBVIOUS
<1>2. S!Hour(x) \in 0..23 /\ S!Weekday(x) \in 0..6
  BY <1>1, DaysOn
<1>4. CASE S!ForexOpen(u + 48)
  <2>1. Frame * ((1 + 48 \div Frame) - 1) = 48 /\ 1 + 48 \div Frame \in 2..72 \div Frame
    OBVIOUS
  <2> QED
    BY <1>4, <2>1
<1>5. CASE S!ForexOpen(u + Frame)
  <2>1. Frame * (2 - 1) = Frame /\ 2 \in 2..72 \div Frame
    OBVIOUS
  <2> QED
    BY <1>5, <2>1
<1>6. CASE S!Weekday(x) \in {4, 5, 6}
  <2>1. S!ForexOpen(u + 24) \/ S!ForexOpen(u + 48)
    <3>1. /\ S!Hour(x + 24) = S!Hour(x) /\ S!Hour(x + 48) = S!Hour(x)
          /\ S!Weekday(x + 24) = (S!Weekday(x) + 1) % 7
          /\ S!Weekday(x + 48) = (S!Weekday(x) + 2) % 7
      BY <1>1, DaysOn
    <3> HIDE DEF x
    <3>2. CASE S!Weekday(x) = 4
      BY <3>1, <3>2, <1>1, <1>2 DEF S!ForexOpen, x
    <3>3. CASE S!Weekday(x) = 5
      BY <3>1, <3>3, <1>1, <1>2 DEF S!ForexOpen, x
    <3>4. CASE S!Weekday(x) = 6
      BY <3>1, <3>4, <1>1, <1>2 DEF S!ForexOpen, x
    <3> QED
      BY <3>2, <3>3, <3>4, <1>6
  <2>2. 24 \div Frame \in Nat /\ Frame * ((1 + 24 \div Frame) - 1) = 24
        /\ 1 + 24 \div Frame \in 2..72 \div Frame
    OBVIOUS
  <2> QED
    BY <1>4, <2>1, <2>2
<1>7. CASE S!Weekday(x) \in 0..3
  <2>1. S!Hour(x) = 17
    BY <1>7, <1>1, <1>2 DEF S!ForexOpen
  <2>2. Frame \in 1..12
    BY <2>1 DEF S!Hour
  <2>3. S!ForexOpen(u + Frame)
    BY <2>1, <2>2, <1>1, <1>7, HoursOn DEF S!ForexOpen
  <2> QED
    BY <1>5, <2>3
<1> QED
  BY <1>2, <1>6, <1>7

LEMMA NextHour ==
  ASSUME NEW h \in Int, h % Frame = 0
  PROVE  S!NextBar(h, Frame) \in Int /\ S!NextBar(h, Frame) % Frame = 0
<1> USE SimulationAssumption
<1>1. h + Frame \in Int /\ (h + Frame) % Frame = 0
  OBVIOUS
<1>2. CASE S!ForexOpen(h + Frame)
  BY <1>1, <1>2 DEF S!NextBar
<1>3. CASE ~S!ForexOpen(h + Frame)
  <2> DEFINE T == {n \in 2..72 \div Frame : S!ForexOpen(h + Frame * n)}
  <2>1. T # {}
    <3>1. PICK n \in 2..72 \div Frame : S!ForexOpen((h + Frame) + Frame * (n - 1))
      BY <1>1, <1>3, Reopens
    <3>2. (h + Frame) + Frame * (n - 1) = h + Frame * n
      OBVIOUS
    <3> QED
      BY <3>1, <3>2
  <2>2. T \subseteq Int /\ IsFiniteSet(T)
    <3>1. IsFiniteSet(2..72 \div Frame)
      BY FS_Interval
    <3> QED
      BY <3>1, FS_Subset
  <2>3. PICK n \in Int : n = S!Min(T)
    BY <2>1, <2>2, LeastIs
  <2>4. S!NextBar(h, Frame) = h + Frame * n
    BY <1>3, <2>3 DEF S!NextBar
  <2>5. h + Frame * n \in Int /\ (h + Frame * n) % Frame = 0
    <3>1. \A b \in {1, 2, 3, 4, 6, 8, 12, 24} :
            h % b = 0 => h + b * n \in Int /\ (h + b * n) % b = 0
      BY <2>3
    <3> QED
      BY <3>1
  <2> QED
    BY <2>4, <2>5
<1> QED
  BY <1>2, <1>3

\* The week closes at an hour, which is still to come.
LEMMA ClosesAt ==
  ASSUME NEW h \in Int, NEW ids, ids \subseteq S!SessionIds
  PROVE  S!MajorClose(ids, h) \in Int
<1> USE SimulationAssumption
<1>1. ASSUME NEW f \in Int
      PROVE  S!FridayClose(ids, f) \in Int /\ S!FridayClose(ids, f) >= 24 * f
  <2> DEFINE ends == {24 * f + S!Ends[id] + S!Behind(id) : id \in ids}
             week == 24 * f + 17 + Et
             T == {e \in ends : e <= week} \cup (IF \E e \in ends : e <= week THEN {} ELSE {week})
  <2>1. \A id \in S!SessionIds : S!Ends[id] \in Nat /\ S!Behind(id) \in Nat
    BY DEF S!SessionIds, S!Ends, S!Behind
  <2>2. week \in Int /\ week >= 24 * f /\ \A e \in ends : e \in Int /\ e >= 24 * f
    BY <2>1
  <2>3. IsFiniteSet(ends)
    <3> DEFINE e == [id \in ids |-> 24 * f + S!Ends[id] + S!Behind(id)]
    <3>1. IsFiniteSet(ids)
      <4>1. S!SessionIds = {"sydney", "asia"} \cup {"london", "ny"}
        BY DEF S!SessionIds
      <4> QED
        BY <4>1, PairFinite, FS_Union, FS_Subset
    <3>2. ends = {e[id] : id \in ids} /\ e = [id \in ids |-> e[id]]
      OBVIOUS
    <3> HIDE DEF e, ends
    <3> QED
      BY <3>1, <3>2, ImageFinite
  <2> HIDE DEF ends, week
  <2>4. IsFiniteSet(T)
    <3>1. IsFiniteSet({e \in ends : e <= week}) /\ IsFiniteSet({}) /\ IsFiniteSet({week})
      BY <2>3, FS_Subset, FS_EmptySet, FS_Singleton
    <3> QED
      BY <3>1, FS_Union
  <2>5. T # {} /\ \A e \in T : e \in Int /\ e >= 24 * f
    BY <2>2
  <2>6. S!FridayClose(ids, f) = S!Max(T)
    BY DEF S!FridayClose, ends, week
  <2> HIDE DEF T
  <2> QED
    BY <2>4, <2>5, <2>6, GreatestIs
<1> DEFINE f == S!FridayFrom(h)
           All == {S!FridayClose(ids, f + 7 * k) : k \in 0..2}
           T == {c \in All : h < c}
<1>2. f \in Int /\ 24 * (f + 7 * 1) > h
  BY DEF S!FridayFrom, S!Date, S!Weekday
<1>3. S!FridayClose(ids, f + 7 * 1) \in T
  BY <1>1, <1>2
<1>7. IsFiniteSet(0..2)
  <2>1. 0 \in Int /\ 2 \in Int
    OBVIOUS
  <2> QED
    BY <2>1, FS_Interval
<1>4. IsFiniteSet(All) /\ \A c \in All : c \in Int
  <2> DEFINE at == [k \in 0..2 |-> S!FridayClose(ids, f + 7 * k)]
  <2>2. All = {at[k] : k \in 0..2} /\ at = [k \in 0..2 |-> at[k]]
    OBVIOUS
  <2>3. \A k \in 0..2 : f + 7 * k \in Int
    BY <1>2
  <2>4. \A c \in All : c \in Int
    BY <1>1, <2>3
  <2> HIDE DEF at, All
  <2> QED
    BY <1>7, <2>2, <2>4, ImageFinite
<1>5. IsFiniteSet(T) /\ T \subseteq Int
  BY <1>4, FS_Subset
<1>6. S!MajorClose(ids, h) = S!Min(T)
  BY DEF S!MajorClose
<1> HIDE DEF T
<1> QED
  BY <1>3, <1>5, <1>6, LeastIs

Positions ==
  [dir : {-1, 1}, entry : Int, units : Nat \ {0}, at : Int, bars : Int, stop : Int,
   take : Int, risk : Int]

\* A position risks what its parameters say but for the rounding of its size, and
\* at the last close it was not beyond its stop.
PositionOK(q, price) ==
  /\ q \in Positions
  /\ q.dir * q.take >= q.dir * q.entry
  /\ q.dir * q.entry >= q.dir * q.stop
  /\ params.stop # 0 => q.dir * (q.stop - q.entry) = -params.stop
  /\ q.dir * price >= q.dir * q.stop
  /\ params.stop # 0 /\ q.units > 1 => 100 * (params.stop * q.units) <= q.risk + 50 * params.stop

\* A bar at which a position was kept is not the last one before a gap.
KeptOn(q, h) ==
  params.between /\ h # q.at => ~S!Leaves(S!Effective(Enabled, params.sessions), h, Frame)

SimulationInv ==
  /\ S!TypeOK /\ Len(ema) = params.confirm + 1 /\ hour % Frame = 0
  /\ pos # S!Flat => PositionOK(pos, close) /\ KeptOn(pos, hour)
  /\ S!RiskBounded /\ S!HeldInSessions

\* The nearest number of units: a unit more than its share of the risk at most.
LEMMA UnitsAre ==
  ASSUME NEW p \in Params, NEW eq \in Int
  PROVE  /\ S!Units(p, eq) \in Nat \ {0}
         /\ p.stop # 0 /\ S!Units(p, eq) > 1
              => 100 * (p.stop * S!Units(p, eq)) <= eq * p.riskPct + 50 * p.stop
<1>1. p.stop \in Nat /\ p.riskPct \in Nat
  BY SimulationAssumption
<1>2. CASE p.stop = 0
  BY <1>2 DEF S!Units, S!DefaultUnits
<1>3. CASE p.stop # 0
  <2> DEFINE b == 200 * p.stop
             a == 2 * (eq * p.riskPct) + 100 * p.stop
             z == a \div b
  <2>1. b \in Nat \ {0} /\ a \in Int
    BY <1>1, <1>3
  <2>2. z \in Int /\ b * z <= a
    <3> HIDE DEF a, b
    <3> QED
      BY <2>1
  <2>3. S!Units(p, eq) = S!Max({1, z})
    <3>1. 2 * eq * p.riskPct = 2 * (eq * p.riskPct)
      BY <1>1
    <3> QED
      BY <1>3, <3>1 DEF S!Units
  <2>4. S!Max({1, z}) \in {1, z} /\ S!Max({1, z}) >= 1
    <3> HIDE DEF z
    <3>1. {1, z} \subseteq Int
      BY <2>2
    <3>2. IsFiniteSet({1, z})
      BY PairFinite
    <3> QED
      BY <3>1, <3>2, GreatestIs
  <2>5. b * z = 2 * (100 * (p.stop * z))
    <3> HIDE DEF z
    <3> QED
      BY <1>1, <2>2
  <2> HIDE DEF z
  <2>6. p.stop * z \in Int /\ eq * p.riskPct \in Int
    BY <1>1, <2>2
  <2>7. 100 * (p.stop * z) <= eq * p.riskPct + 50 * p.stop
    <3>1. ASSUME NEW m \in Int, NEW n \in Int, 2 * (100 * m) <= 2 * n + 100 * p.stop
          PROVE  100 * m <= n + 50 * p.stop
      BY <3>1, <1>1
    <3> QED
      BY <2>2, <2>5, <2>6, <3>1
  <2> QED
    BY <2>2, <2>3, <2>4, <2>7
<1> QED
  BY <1>2, <1>3

LEMMA Opens ==
  ASSUME params \in Params, NEW dir \in {-1, 1}, NEW price \in Int, NEW eq \in Int, NEW h \in Int
  PROVE  PositionOK(S!NewPosition(params, dir, price, eq, h), price)
<1> DEFINE q == S!NewPosition(params, dir, price, eq, h)
<1>1. params.stop \in Nat /\ params.pips \in Nat /\ params.ratio \in Nat /\ params.riskPct \in Nat
  BY SimulationAssumption
<1>2. S!StopDistance(params) \in Nat /\ (params.stop # 0 => S!StopDistance(params) = params.stop)
  BY <1>1 DEF S!StopDistance, S!Far
<1>3. S!TakeDistance(params) \in Nat
  <2>1. params.stop * params.ratio \in Nat
    BY <1>1
  <2> QED
    BY <1>1, <2>1 DEF S!TakeDistance, S!Far
<1>4. S!Units(params, eq) \in Nat \ {0}
      /\ (params.stop # 0 /\ S!Units(params, eq) > 1
            => 100 * (params.stop * S!Units(params, eq)) <= eq * params.riskPct + 50 * params.stop)
  BY UnitsAre
<1>5. eq * params.riskPct \in Int
  BY <1>1
<1>6. q = [dir |-> dir, entry |-> price, units |-> S!Units(params, eq), at |-> h, bars |-> 1,
           stop |-> price - dir * S!StopDistance(params),
           take |-> price + dir * S!TakeDistance(params), risk |-> eq * params.riskPct]
  BY DEF S!NewPosition, S!Stop, S!Take
<1> DEFINE s == S!StopDistance(params)
           t == S!TakeDistance(params)
           n == S!Units(params, eq)
<1> HIDE DEF q, s, t, n
<1>7. dir * s \in Int /\ dir * t \in Int
      /\ dir * (price + dir * t) >= dir * price /\ dir * price >= dir * (price - dir * s)
      /\ dir * ((price - dir * s) - price) = -s
  <2>1. s \in Nat /\ t \in Nat
    BY <1>2, <1>3 DEF s, t
  <2>2. CASE dir = 1
    BY <2>1, <2>2
  <2>3. CASE dir = -1
    BY <2>1, <2>3
  <2> QED
    BY <2>2, <2>3
<1>8. q \in Positions
  BY <1>4, <1>5, <1>6, <1>7 DEF Positions, s, t, n
<1>9. q.dir = dir /\ q.entry = price /\ q.units = n /\ q.stop = price - dir * s
      /\ q.take = price + dir * t /\ q.risk = eq * params.riskPct
  BY <1>6 DEF s, t, n
<1> QED
  BY <1>2, <1>4, <1>7, <1>8, <1>9 DEF PositionOK, q, s, n

LEMMA PnlIs ==
  ASSUME NEW q, NEW x, PositionOK(q, x), NEW price \in Int
  PROVE  S!Pnl(q, price) \in Int
<1>1. q.dir \in Int /\ q.entry \in Int /\ q.units \in Int
  BY DEF PositionOK, Positions
<1>2. q.dir * (price - q.entry) \in Int
  BY <1>1
<1> QED
  BY <1>1, <1>2 DEF S!Pnl

\* A position that is closed at its stop or better loses what it risked at most.
LEMMA LossBounded ==
  ASSUME params \in Params, NEW q, NEW x, PositionOK(q, x), NEW price \in Int,
         q.dir * price >= q.dir * q.stop, params.stop # 0, q.units > 1
  PROVE  -100 * S!Pnl(q, price) <= q.risk + 50 * params.stop
<1>1. /\ q.dir \in {-1, 1} /\ q.entry \in Int /\ q.stop \in Int /\ q.units \in Nat /\ q.risk \in Int
      /\ params.stop \in Nat
  BY SimulationAssumption DEF PositionOK, Positions
<1> DEFINE m == q.dir * (price - q.entry)
<1>2. m \in Int /\ m >= -params.stop
  BY <1>1 DEF PositionOK
<1>3. S!Pnl(q, price) = m * q.units
  BY DEF S!Pnl
<1> HIDE DEF m
<1>4. m * q.units \in Int /\ params.stop * q.units \in Int
      /\ m * q.units >= -(params.stop * q.units)
  <2>1. \A k, n \in Int : k >= 0 /\ n >= 0 => k * n >= 0
    OBVIOUS
  <2>2. (m + params.stop) * q.units >= 0
    BY <1>1, <1>2, <2>1
  <2>3. (m + params.stop) * q.units = m * q.units + params.stop * q.units
    BY <1>1, <1>2
  <2>4. m * q.units \in Int /\ params.stop * q.units \in Int
    BY <1>1, <1>2
  <2> QED
    BY <2>2, <2>3, <2>4
<1>5. 100 * (params.stop * q.units) <= q.risk + 50 * params.stop
  BY DEF PositionOK
<1> QED
  BY <1>1, <1>3, <1>4, <1>5

\* What closes a position does so at its stop or better; what leaves it open has
\* asked the rules of the sessions.
LEMMA ExitsAt ==
  ASSUME params \in Params, pos # S!Flat, NEW x, PositionOK(pos, x), NEW bar \in S!Bars,
         NEW sides, NEW rule
  PROVE  LET e == S!Exit(pos, bar, sides, params, rule) IN
         /\ e = S!Stay => rule = "none" /\ pos.dir * bar.close >= pos.dir * pos.stop
         /\ e # S!Stay => e.price \in Int /\ pos.dir * e.price >= pos.dir * pos.stop
<1> DEFINE e == S!Exit(pos, bar, sides, params, rule)
           level == S!Level(pos, bar)
           monitor == S!Monitor(pos, bar, sides, params)
           hold == S!Hold(bar, rule)
<1>1. /\ pos.dir \in {-1, 1} /\ pos.entry \in Int /\ pos.stop \in Int /\ pos.take \in Int
  BY DEF PositionOK, Positions
<1>2. /\ bar.low \in Int /\ bar.high \in Int /\ bar.close \in Int
      /\ bar.low <= bar.close /\ bar.close <= bar.high
  BY SimulationAssumption DEF S!Bars
<1>3. level # S!Stay => level.price \in Int /\ pos.dir * level.price >= pos.dir * pos.stop
  BY <1>1 DEF S!Level, PositionOK, S!Stay
<1>4. level = S!Stay => pos.dir * bar.close >= pos.dir * pos.stop
  <2>1. S!Worst(pos, bar) \in Int /\ pos.dir * bar.close >= pos.dir * S!Worst(pos, bar)
    BY <1>1, <1>2 DEF S!Worst
  <2>2. level = S!Stay => pos.dir * S!Worst(pos, bar) > pos.dir * pos.stop
    <3>1. [reason |-> "stop_loss", price |-> pos.stop] # S!Stay
      BY DEF S!Stay
    <3>2. pos.dir * S!Worst(pos, bar) \in Int /\ pos.dir * pos.stop \in Int
      BY <1>1, <2>1
    <3> QED
      BY <3>1, <3>2 DEF S!Level
  <2>3. pos.dir * S!Worst(pos, bar) \in Int /\ pos.dir * pos.stop \in Int /\ pos.dir * bar.close \in Int
    BY <1>1, <1>2, <2>1
  <2> QED
    BY <2>1, <2>2, <2>3
<1>5. monitor # S!Stay => monitor.price = bar.close
  BY DEF S!Monitor
<1>6. (hold # S!Stay => hold.price = bar.close) /\ (hold = S!Stay => rule = "none")
  BY DEF S!Hold, S!Stay
<1>7. e = IF level # S!Stay THEN level ELSE IF monitor # S!Stay THEN monitor ELSE hold
  BY DEF S!Exit
<1> HIDE DEF e, level, monitor, hold
<1>8. /\ e = S!Stay => rule = "none" /\ pos.dir * bar.close >= pos.dir * pos.stop
      /\ e # S!Stay => e.price \in Int /\ pos.dir * e.price >= pos.dir * pos.stop
  <2>1. CASE level # S!Stay
    BY <1>3, <1>7, <2>1
  <2>2. CASE level = S!Stay
    BY <1>2, <1>4, <1>5, <1>6, <1>7, <2>2
  <2> QED
    BY <2>1, <2>2
<1> QED
  BY <1>8 DEF e

\* A position the rules leave open is where they let it be.
LEMMA HeldOn ==
  ASSUME params \in Params, hour \in Int, hour % Frame = 0, pos # S!Flat, KeptOn(pos, hour),
         S!HeldInSessions, NEW later, later = S!NextBar(hour, Frame), S!Rule(params, later) = "none"
  PROVE  LET ids == S!Effective(Enabled, params.sessions) IN
         /\ KeptOn(pos, later)
         /\ params.between /\ ~S!Covered(ids, later) => S!Leaves(ids, pos.at, Frame)
         /\ params.market /\ params.late /\ params.closeHours \in 1..params.lateHours
              => ~S!NearClose(ids, later, params.closeHours)
<1> DEFINE ids == S!Effective(Enabled, params.sessions)
<1>1. params.between => ~S!Leaves(ids, later, Frame)
  BY DEF S!Rule, S!ForceBoundary
<1>2. params.market /\ params.closeHours > 0 => ~S!NearClose(ids, later, params.closeHours)
  BY DEF S!Rule, S!ForceMarket
<1>3. ASSUME params.between, ~S!Covered(ids, later) PROVE S!Leaves(ids, pos.at, Frame)
  <2>1. S!BarOpen(hour, Frame) = hour
    BY SimulationAssumption DEF S!BarOpen
  <2>2. CASE ~S!Covered(ids, hour)
    BY <1>3, <2>2 DEF S!HeldInSessions
  <2>3. CASE S!Covered(ids, hour)
    <3>1. S!Leaves(ids, hour, Frame)
      BY <1>3, <2>1, <2>3 DEF S!Leaves
    <3> QED
      BY <1>3, <3>1 DEF KeptOn
  <2> QED
    BY <2>2, <2>3
<1>4. params.closeHours \in 1..params.lateHours => params.closeHours > 0
  BY SimulationAssumption
<1> QED
  BY <1>1, <1>2, <1>3, <1>4 DEF KeptOn

\* An entry is not near the close of the week, if it is refused as early as an
\* exit is forced.
LEMMA EntersEarly ==
  ASSUME params \in Params, NEW later \in Int, S!InSession(params, later)
  PROVE  LET ids == S!Effective(Enabled, params.sessions) IN
         /\ S!Covered(ids, later)
         /\ params.late /\ params.closeHours \in 1..params.lateHours
              => ~S!NearClose(ids, later, params.closeHours)
<1> DEFINE ids == S!Effective(Enabled, params.sessions)
<1>1. S!Covered(ids, later)
  BY DEF S!InSession
<1>2. ids \subseteq S!SessionIds
  BY SimulationAssumption DEF S!Effective, S!SessionIds
<1>3. S!MajorClose(ids, later) \in Int
  BY <1>2, ClosesAt
<1>4. params.late => ~S!NearClose(ids, later, params.lateHours)
  BY DEF S!InSession, S!BlockLate
<1>5. params.closeHours \in Nat /\ params.lateHours \in Nat
  BY SimulationAssumption
<1> HIDE DEF ids
<1> QED
  BY <1>1, <1>3, <1>4, <1>5 DEF S!NearClose, ids

\* One bar.
LEMMA BarMoves ==
  ASSUME SimulationInv, S!Bar
  PROVE  SimulationInv'
<1>1. params \in Params /\ hour \in Int /\ equity \in Int /\ params' = params /\ status' = status
      /\ params.confirm \in Nat
  BY SimulationAssumption DEF SimulationInv, S!TypeOK, S!Bar
<1> DEFINE later == S!NextBar(hour, Frame)
           rule == S!Rule(params, later)
<1>2. hour' = later /\ later \in Int /\ later % Frame = 0
  BY <1>1, NextHour DEF SimulationInv, S!Bar
<1>3. PICK bar \in S!Bars, side \in -1..1 :
        /\ ema' = Append(Tail(ema), side) /\ close' = bar.close
        /\ S!Step(bar, Append(Tail(ema), side), later, rule, S!InSession(params, later))
  BY DEF S!Bar
<1> DEFINE sides == Append(Tail(ema), side)
           exit == S!Exit(pos, bar, sides, params, rule)
           free == pos = S!Flat \/ exit # S!Stay
           eq == equity + (IF exit = S!Stay THEN 0 ELSE S!Pnl(pos, exit.price))
           dir == S!Crossover(sides)
           p == S!NewPosition(params, dir, bar.close, eq, later)
<1> HIDE DEF later, rule
<1>4. /\ equity' = eq
      /\ trade' = IF exit = S!Stay THEN trade
                  ELSE [pnl |-> S!Pnl(pos, exit.price), units |-> pos.units, risk |-> pos.risk]
      /\ \/ pos' = p /\ dir \in params.directions /\ S!InSession(params, later)
         \/ free /\ pos' = S!Flat
         \/ ~free /\ pos' = S!Kept(pos, params)
  BY <1>3 DEF S!Step
<1>5. bar.close \in Prices /\ bar.close \in Int
  BY SimulationAssumption DEF S!Bars
<1>6. ema' \in Seq(-1..1) /\ Len(ema') = params'.confirm + 1
  BY <1>1, <1>3 DEF SimulationInv, S!TypeOK
<1>7. pos = S!Flat => exit = S!Stay
  BY DEF S!Exit
<1>8. pos # S!Flat =>
        /\ PositionOK(pos, close)
        /\ exit = S!Stay => rule = "none" /\ pos.dir * bar.close >= pos.dir * pos.stop
        /\ exit # S!Stay => exit.price \in Int /\ pos.dir * exit.price >= pos.dir * pos.stop
  BY <1>1, ExitsAt DEF SimulationInv
<1> HIDE DEF exit
<1>9. eq \in Int
  BY <1>1, <1>7, <1>8, PnlIs
<1>10. S!RiskBounded'
  <2>1. CASE exit = S!Stay
    BY <1>1, <1>4, <2>1 DEF SimulationInv, S!RiskBounded
  <2>2. CASE exit # S!Stay
    <3>1. /\ trade'.pnl = S!Pnl(pos, exit.price) /\ trade'.units = pos.units
          /\ trade'.risk = pos.risk
      BY <1>4, <2>2
    <3>2. params.stop # 0 /\ pos.units > 1
            => -100 * S!Pnl(pos, exit.price) <= pos.risk + 50 * params.stop
      BY <1>1, <1>7, <1>8, <2>2, LossBounded
    <3> QED
      BY <1>1, <3>1, <3>2 DEF S!RiskBounded
  <2> QED
    BY <2>1, <2>2
<1> DEFINE ids == S!Effective(Enabled, params.sessions)
<1>11. CASE pos' = p /\ dir \in params.directions /\ S!InSession(params, later)
  <2>1. dir \in {-1, 1}
    BY <1>1, <1>11, SimulationAssumption
  <2>2. PositionOK(p, bar.close)
    BY <1>1, <1>2, <1>5, <1>9, <2>1, Opens
  <2>3. p.at = later
    BY DEF S!NewPosition
  <2>4. S!Covered(ids, later) /\ (params.late /\ params.closeHours \in 1..params.lateHours
                                  => ~S!NearClose(ids, later, params.closeHours))
    BY <1>1, <1>2, <1>11, EntersEarly
  <2> HIDE DEF p, dir
  <2>5. PositionOK(pos, close)' /\ KeptOn(pos, hour)'
    BY <1>1, <1>2, <1>3, <1>11, <2>2, <2>3 DEF PositionOK, KeptOn
  <2>6. S!HeldInSessions'
    BY <1>1, <1>2, <2>4 DEF S!HeldInSessions
  <2>7. pos'.dir \in {-1, 1}
    BY <2>5 DEF PositionOK, Positions
  <2> QED
    BY <1>1, <1>2, <1>3, <1>4, <1>5, <1>6, <1>9, <1>10, <2>5, <2>6, <2>7
       DEF SimulationInv, S!TypeOK
<1>12. CASE free /\ pos' = S!Flat
  <2>1. S!HeldInSessions' /\ pos'.dir \in -1..1
    BY <1>12 DEF S!HeldInSessions, S!Flat
  <2> QED
    BY <1>1, <1>2, <1>3, <1>4, <1>5, <1>6, <1>9, <1>10, <1>12, <2>1 DEF SimulationInv, S!TypeOK
<1>13. CASE ~free /\ pos' = S!Kept(pos, params)
  <2>1. pos # S!Flat /\ exit = S!Stay
    BY <1>13
  <2>2. pos' = [pos EXCEPT !.bars = S!Min({@ + 1, params.minBars + 1})]
    BY <1>13, <2>1 DEF S!Kept
  <2>3. PositionOK(pos, close) /\ pos \in Positions
    BY <1>8, <2>1 DEF PositionOK
  <2>4. S!Min({pos.bars + 1, params.minBars + 1}) \in Int
    <3>1. {pos.bars + 1, params.minBars + 1} \subseteq Int
      BY <1>1, <2>3, SimulationAssumption DEF Positions
    <3>2. IsFiniteSet({pos.bars + 1, params.minBars + 1})
      BY PairFinite
    <3> QED
      BY <3>1, <3>2, LeastIs
  <2>5. /\ pos' \in Positions /\ pos'.dir = pos.dir /\ pos'.entry = pos.entry /\ pos'.units = pos.units
        /\ pos'.at = pos.at /\ pos'.stop = pos.stop /\ pos'.take = pos.take /\ pos'.risk = pos.risk
    BY <2>2, <2>3, <2>4 DEF Positions
  <2>6. PositionOK(pos, close)'
    BY <1>1, <1>3, <1>8, <2>1, <2>3, <2>5 DEF PositionOK
  <2>7. /\ KeptOn(pos, later)
        /\ params.between /\ ~S!Covered(ids, later) => S!Leaves(ids, pos.at, Frame)
        /\ params.market /\ params.late /\ params.closeHours \in 1..params.lateHours
             => ~S!NearClose(ids, later, params.closeHours)
    BY <1>1, <1>8, <2>1, HeldOn DEF SimulationInv, later, rule
  <2>8. KeptOn(pos, hour)' /\ S!HeldInSessions'
    BY <1>1, <1>2, <2>5, <2>7 DEF KeptOn, S!HeldInSessions
  <2>9. pos'.dir \in {-1, 1}
    BY <2>5 DEF Positions
  <2> QED
    BY <1>1, <1>2, <1>3, <1>4, <1>5, <1>6, <1>9, <1>10, <2>6, <2>8, <2>9
       DEF SimulationInv, S!TypeOK
<1> QED
  BY <1>4, <1>11, <1>12, <1>13

LEMMA SimulationMoves ==
  ASSUME SimulationInv, [S!Next]_S!vars
  PROVE  SimulationInv'
<1> USE DEF SimulationInv
<1>1. CASE S!Bar
  BY <1>1, BarMoves
<1>2. CASE S!Cancel
  BY <1>2 DEF S!Cancel, S!TypeOK, S!RiskBounded, S!HeldInSessions, PositionOK, KeptOn
<1>3. CASE S!Finish
  <2>1. /\ params \in Params /\ params' = params /\ hour' = hour /\ ema' = ema /\ close' = close
        /\ pos' = S!Flat /\ status' = "completed" /\ close \in Int
    BY <1>3, SimulationAssumption DEF S!Finish, S!TypeOK
  <2>2. S!HeldInSessions' /\ pos'.dir \in -1..1
    BY <2>1 DEF S!HeldInSessions, S!Flat
  <2>3. CASE pos = S!Flat
    BY <1>3, <2>1, <2>2, <2>3 DEF S!Finish, S!TypeOK, S!RiskBounded
  <2>4. CASE pos # S!Flat
    <3>1. /\ equity' = equity + S!Pnl(pos, close)
          /\ trade' = [pnl |-> S!Pnl(pos, close), units |-> pos.units, risk |-> pos.risk]
      BY <1>3, <2>4 DEF S!Finish
    <3>2. PositionOK(pos, close) /\ pos.dir * close >= pos.dir * pos.stop
      BY <2>4 DEF PositionOK
    <3>3. params.stop # 0 /\ pos.units > 1
            => -100 * S!Pnl(pos, close) <= pos.risk + 50 * params.stop
      BY <2>1, <3>2, LossBounded
    <3>4. S!Pnl(pos, close) \in Int
      BY <2>1, <3>2, PnlIs
    <3>5. S!RiskBounded'
      BY <2>1, <3>1, <3>3 DEF S!RiskBounded
    <3> QED
      BY <2>1, <2>2, <3>1, <3>4, <3>5 DEF S!TypeOK
  <2> QED
    BY <2>3, <2>4
<1>4. CASE UNCHANGED S!vars
  BY <1>4 DEF S!vars, S!TypeOK, S!RiskBounded, S!HeldInSessions, PositionOK, KeptOn
<1> QED
  BY <1>1, <1>2, <1>3, <1>4 DEF S!Next

\* In every calendar, price series and parameter setting, a simulated trade loses at
\* most its risk and a position is held only where its session rules let it
\* (engine.py, session_hold.py).
THEOREM SimulationHolds == Spec => []RulesHeld
<1> DEFINE Inv == part = "simulation" => SimulationInv
<1>1. Init => Inv
  <2>1. ASSUME S!Init PROVE SimulationInv
    <3>1. params \in Params /\ params.confirm \in Nat /\ pos = S!Flat /\ trade = S!NoTrade
      BY <2>1, SimulationAssumption DEF S!Init
    <3>2. ema \in Seq(-1..1) /\ Len(ema) = params.confirm + 1
      BY <2>1, <3>1 DEF S!Init
    <3>3. S!TypeOK /\ hour % Frame = 0
      BY <2>1, <3>1, <3>2, SimulationAssumption DEF S!Init, S!TypeOK, S!Flat
    <3>4. S!RiskBounded /\ S!HeldInSessions
      BY <3>1 DEF S!RiskBounded, S!HeldInSessions, S!NoTrade
    <3> QED
      BY <3>1, <3>2, <3>3, <3>4 DEF SimulationInv
  <2> QED
    BY <2>1 DEF Init
<1>2. Inv /\ [Next]_all => Inv'
  BY PartStep, SimulationMoves
<1>3. Inv => RulesHeld
  BY DEF SimulationInv, RulesHeld
<1> QED
  BY <1>1, <1>2, <1>3, PTL DEF Spec
=============================================================================
