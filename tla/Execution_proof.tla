---------------------------- MODULE Execution_proof ----------------------------
(***************************************************************************)
(* Proofs about Execution, for any runs, lots and strategies: the state is *)
(* well typed; while no call fails the ledger lags behind the broker only  *)
(* over orders that are being recorded, and no run enters on the bar of    *)
(* its own reverse crossover; and if the runs of a pair follow each other, *)
(* the broker never holds two trades of one pair, and the execution        *)
(* implements the abstract book of entries.                                *)
(***************************************************************************)
EXTENDS Execution, FiniteSetTheorems, TLAPS

\* What a run holds at each of its places.
Local ==
    \A r \in Runs :
        /\ at[r] = "placing" => intent[r] \in Strategies
        /\ at[r] = "recording" =>
              /\ lot[r] \in Lots /\ position[lot[r]] # "none"
              /\ order[lot[r]].pair = Pair[r]
        /\ at[r] \in {"turning", "closing"} =>
              lot[r] \in Lots /\ position[lot[r]] = "closed"

\* The ledger never runs ahead of the broker, except that it may still show a
\* trade as open.
Behind ==
    \A l \in Lots :
        /\ row[l] # "none" \/ l \in labelled => position[l] # "none"
        /\ row[l] = "closed" => position[l] = "closed"

Inv == TypeOK /\ Local /\ Behind

LEMMA InitInv == ASSUME ExecutionAssumption, Init PROVE Inv
<1>1. TypeOK
  BY DEF ExecutionAssumption, Init, TypeOK, States, Places, Inactive, Pairs, NoOrder
<1> QED
  BY <1>1 DEF Init, Inv, Local, Behind

\* The day's trade counts are numbers.
LEMMA CountsType ==
    ASSUME ExecutionAssumption, TypeOK, NEW r \in Runs
    PROVE  DailyCounts(r) \in [Strategies -> Nat]
<1> SUFFICES ASSUME NEW s \in Strategies
             PROVE  Cardinality({l \in labelled : order[l] = [pair |-> Pair[r], strategy |-> s]}) \in Nat
  BY DEF DailyCounts
<1>1. {l \in labelled : order[l] = [pair |-> Pair[r], strategy |-> s]} \in SUBSET Lots
  BY DEF TypeOK
<1> QED
  BY <1>1, FS_Subset, FS_CardinalityType DEF ExecutionAssumption

\* A winner is one of the strategies that passed the gates.
LEMMA WinnerPasses ==
    ASSUME TypeOK, NEW r \in Runs, NEW s \in Winners({u \in picked[r] : Passes(r, u)})
    PROVE  s \in Strategies /\ Passes(r, s)
BY DEF Winners, TypeOK

\* A run decides for one of its strategies that passes the gates, or ends.
LEMMA DecideSays ==
    ASSUME TypeOK, NEW r \in Runs, Decide(r)
    PROVE  /\ at[r] = "exits" /\ listed[r] = {}
           /\ UNCHANGED <<position, row, labelled, order, lot, flipped, turned, faults>>
           /\ \A q \in Runs : q # r => at'[q] = at[q] /\ intent'[q] = intent[q]
           /\ \/ /\ at'[r] = "placing" /\ intent'[r] \in Strategies
                 /\ ~flipped[r] /\ ~(OnePerPair /\ PairOpen(Pair[r]))
              \/ at'[r] = "done" /\ intent'[r] = intent[r]
<1> DEFINE winners == Winners({u \in picked[r] : Passes(r, u)})
<1>1. \/ \E s \in winners : intent' = [intent EXCEPT ![r] = s] /\ Goto(r, "placing")
      \/ Goto(r, "done") /\ intent' = intent
  BY DEF Decide
<1>2. \A s \in winners : /\ s \in Strategies /\ ~flipped[r]
                         /\ ~(OnePerPair /\ PairOpen(Pair[r]))
  BY WinnerPasses DEF Passes
<1>3. /\ at[r] = "exits" /\ listed[r] = {}
      /\ UNCHANGED <<position, row, labelled, order, lot, flipped, turned, faults>>
  BY DEF Decide, ledger
<1>t. at \in [Runs -> Places] /\ intent \in [Runs -> Strategies \cup {NoStrategy}]
  BY DEF TypeOK
<1> HIDE DEF winners
<1>4. ASSUME NEW s \in winners, intent' = [intent EXCEPT ![r] = s], Goto(r, "placing")
      PROVE  /\ \A q \in Runs : q # r => at'[q] = at[q] /\ intent'[q] = intent[q]
             /\ at'[r] = "placing" /\ intent'[r] = s
  BY <1>4, <1>t DEF Goto
<1>5. ASSUME Goto(r, "done"), intent' = intent
      PROVE  /\ \A q \in Runs : q # r => at'[q] = at[q] /\ intent'[q] = intent[q]
             /\ at'[r] = "done" /\ intent'[r] = intent[r]
  BY <1>5, <1>t DEF Goto
<1> QED
  BY <1>1, <1>2, <1>3, <1>4, <1>5, Zenon

\* Every step keeps the state well typed.
LEMMA TypeStep ==
    ASSUME ExecutionAssumption, Inv, [Next]_vars
    PROVE  TypeOK'
<1>1. ASSUME NEW r \in Runs, Start(r) PROVE TypeOK'
  BY <1>1, CountsType DEF Start, Goto, Inv, TypeOK, States, Places, Inactive, ledger, local
<1>2. ASSUME NEW r \in Runs, ListOpen(r) PROVE TypeOK'
  BY <1>2 DEF ListOpen, Goto, Inv, TypeOK, States, Places, Inactive, ledger, local
<1>3. ASSUME NEW r \in Runs, RecordExit(r) PROVE TypeOK'
  BY <1>3 DEF RecordExit, Goto, Inv, TypeOK, States, Places, Inactive, ledger, local
<1>4. ASSUME NEW r \in Runs, ExitFails(r) PROVE TypeOK'
  <2>1. at' \in [Runs -> Places]
    BY <1>4 DEF ExitFails, Goto, Inv, TypeOK, Places, Inactive
  <2>2. lot' \in [Runs -> Lots \cup {NoLot}] /\ faults' \in Nat
    BY <1>4 DEF ExitFails, Fault, Inv, TypeOK
  <2> QED
    BY <1>4, <2>1, <2>2 DEF ExitFails, Inv, TypeOK, ledger
<1>5. ASSUME NEW r \in Runs, Decide(r) PROVE TypeOK'
  <2>1. \A s \in Winners({u \in picked[r] : Passes(r, u)}) : s \in Strategies
    BY WinnerPasses DEF Inv
  <2>2. at' \in [Runs -> Places]
    BY <1>5 DEF Decide, Goto, Inv, TypeOK, Places, Inactive
  <2>3. intent' \in [Runs -> Strategies \cup {NoStrategy}]
    BY <1>5, <2>1 DEF Decide, Inv, TypeOK
  <2> QED
    BY <1>5, <2>2, <2>3 DEF Decide, Inv, TypeOK, ledger
<1>6. ASSUME NEW r \in Runs, Refuse(r) PROVE TypeOK'
  BY <1>6 DEF Refuse, Goto, Inv, TypeOK, States, Places, Inactive, ledger, local
<1>7. ASSUME NEW r \in Runs, Fill(r) PROVE TypeOK'
  BY <1>7 DEF Fill, Goto, Inv, TypeOK, States, Places, Inactive, ledger, local, Local, Pairs
<1>8. ASSUME NEW r \in Runs, Record(r) PROVE TypeOK'
  BY <1>8 DEF Record, Goto, Inv, TypeOK, States, Places, Inactive, ledger, local, Local
<1>9. ASSUME NEW r \in Runs, RecordFails(r) PROVE TypeOK'
  BY <1>9 DEF RecordFails, Goto, Inv, TypeOK, States, Places, Inactive, ledger, local, Fault
<1>10. ASSUME NEW r \in Runs, NEW l \in Lots, Keep(r, l) PROVE TypeOK'
  BY <1>10 DEF Keep, Goto, Inv, TypeOK, States, Places, Inactive, ledger, local
<1>11. ASSUME NEW r \in Runs, NEW l \in Lots, NEW b \in BOOLEAN, Exit(r, l, b) PROVE TypeOK'
  BY <1>11 DEF Exit, Goto, Inv, TypeOK, States, Places, Inactive, ledger, local
<1>12. ASSUME NEW r \in Runs, NEW l \in Lots, NEW b \in BOOLEAN, ExitClosed(r, l, b) PROVE TypeOK'
  BY <1>12 DEF ExitClosed, Goto, Inv, TypeOK, States, Places, Inactive, ledger, local
<1>13. ASSUME NEW l \in Lots, SyncLot(l) PROVE TypeOK'
  BY <1>13 DEF SyncLot, Goto, Inv, TypeOK, States, Places, Inactive, ledger, local
<1>14. ASSUME NEW l \in Lots, StopFills(l) PROVE TypeOK'
  BY <1>14 DEF StopFills, Goto, Inv, TypeOK, States, Places, Inactive, ledger, local
<1>15. CASE UNCHANGED vars
  BY <1>15 DEF vars, ledger, local, Inv, TypeOK
<1> QED
  BY <1>1, <1>2, <1>3, <1>4, <1>5, <1>6, <1>7, <1>8, <1>9, <1>10, <1>11, <1>12, <1>13, <1>14, <1>15 DEF Next, Works

\* Every step keeps what the runs hold.
LEMMA LocalStep ==
    ASSUME ExecutionAssumption, Inv, [Next]_vars
    PROVE  Local'
<1>1. ASSUME NEW r \in Runs, Start(r) PROVE Local'
  BY <1>1 DEF Start, Goto, Inv, TypeOK, Local, Places, Inactive, ledger, local
<1>2. ASSUME NEW r \in Runs, ListOpen(r) PROVE Local'
  BY <1>2 DEF ListOpen, Goto, Inv, TypeOK, Local, Places, Inactive, ledger, local
<1>3. ASSUME NEW r \in Runs, RecordExit(r) PROVE Local'
  BY <1>3 DEF RecordExit, Goto, Inv, TypeOK, Local, Places, Inactive, ledger, local
<1>4. ASSUME NEW r \in Runs, ExitFails(r) PROVE Local'
  BY <1>4 DEF ExitFails, Goto, Inv, TypeOK, Local, Places, Inactive, ledger, local
<1>5. ASSUME NEW r \in Runs, Decide(r) PROVE Local'
  <2>1. TypeOK /\ Local
    BY DEF Inv
  <2>2. \A q \in Runs : q # r => at'[q] = at[q] /\ intent'[q] = intent[q]
    BY <1>5, <2>1, DecideSays
  <2>3. at'[r] = "done" \/ (at'[r] = "placing" /\ intent'[r] \in Strategies)
    BY <1>5, <2>1, DecideSays
  <2>4. UNCHANGED <<position, order, lot>>
    BY <1>5, <2>1, DecideSays
  <2> QED
    BY <2>1, <2>2, <2>3, <2>4 DEF Local
<1>6. ASSUME NEW r \in Runs, Refuse(r) PROVE Local'
  BY <1>6 DEF Refuse, Goto, Inv, TypeOK, Local, Places, Inactive, ledger, local
<1>7. ASSUME NEW r \in Runs, Fill(r) PROVE Local'
  BY <1>7 DEF Fill, Goto, Inv, TypeOK, Local, Places, Inactive, ledger, local
<1>8. ASSUME NEW r \in Runs, Record(r) PROVE Local'
  BY <1>8 DEF Record, Goto, Inv, TypeOK, Local, Places, Inactive, ledger, local
<1>9. ASSUME NEW r \in Runs, RecordFails(r) PROVE Local'
  BY <1>9 DEF RecordFails, Goto, Inv, TypeOK, Local, Places, Inactive, ledger, local
<1>10. ASSUME NEW r \in Runs, NEW l \in Lots, Keep(r, l) PROVE Local'
  BY <1>10 DEF Keep, Goto, Inv, TypeOK, Local, Places, Inactive, ledger, local
<1>11. ASSUME NEW r \in Runs, NEW l \in Lots, NEW b \in BOOLEAN, Exit(r, l, b) PROVE Local'
  BY <1>11 DEF Exit, Goto, Inv, TypeOK, Local, Places, Inactive, ledger, local
<1>12. ASSUME NEW r \in Runs, NEW l \in Lots, NEW b \in BOOLEAN, ExitClosed(r, l, b) PROVE Local'
  BY <1>12 DEF ExitClosed, Goto, Inv, TypeOK, Local, Places, Inactive, ledger, local
<1>13. ASSUME NEW l \in Lots, SyncLot(l) PROVE Local'
  BY <1>13 DEF SyncLot, Goto, Inv, TypeOK, Local, Places, Inactive, ledger, local
<1>14. ASSUME NEW l \in Lots, StopFills(l) PROVE Local'
  BY <1>14 DEF StopFills, Goto, Inv, TypeOK, Local, Places, Inactive, ledger, local
<1>15. CASE UNCHANGED vars
  BY <1>15 DEF vars, ledger, local, Inv, Local
<1> QED
  BY <1>1, <1>2, <1>3, <1>4, <1>5, <1>6, <1>7, <1>8, <1>9, <1>10, <1>11, <1>12, <1>13, <1>14, <1>15 DEF Next, Works

\* Every step keeps the ledger behind the broker.
LEMMA BehindStep ==
    ASSUME ExecutionAssumption, Inv, [Next]_vars
    PROVE  Behind'
<1>1. ASSUME NEW r \in Runs, Start(r) PROVE Behind'
  BY <1>1 DEF Start, Goto, Inv, TypeOK, Local, Behind, ledger, local
<1>2. ASSUME NEW r \in Runs, ListOpen(r) PROVE Behind'
  BY <1>2 DEF ListOpen, Goto, Inv, TypeOK, Local, Behind, ledger, local
<1>3. ASSUME NEW r \in Runs, RecordExit(r) PROVE Behind'
  BY <1>3 DEF RecordExit, Goto, Inv, TypeOK, Local, Behind, ledger, local
<1>4. ASSUME NEW r \in Runs, ExitFails(r) PROVE Behind'
  BY <1>4 DEF ExitFails, Goto, Inv, TypeOK, Local, Behind, ledger, local
<1>5. ASSUME NEW r \in Runs, Decide(r) PROVE Behind'
  BY <1>5 DEF Decide, Goto, Inv, TypeOK, Local, Behind, ledger, local
<1>6. ASSUME NEW r \in Runs, Refuse(r) PROVE Behind'
  BY <1>6 DEF Refuse, Goto, Inv, TypeOK, Local, Behind, ledger, local
<1>7. ASSUME NEW r \in Runs, Fill(r) PROVE Behind'
  BY <1>7 DEF Fill, Goto, Inv, TypeOK, Local, Behind, ledger, local
<1>8. ASSUME NEW r \in Runs, Record(r) PROVE Behind'
  BY <1>8 DEF Record, Goto, Inv, TypeOK, Local, Behind, ledger, local
<1>9. ASSUME NEW r \in Runs, RecordFails(r) PROVE Behind'
  BY <1>9 DEF RecordFails, Goto, Inv, TypeOK, Local, Behind, ledger, local
<1>10. ASSUME NEW r \in Runs, NEW l \in Lots, Keep(r, l) PROVE Behind'
  BY <1>10 DEF Keep, Goto, Inv, TypeOK, Local, Behind, ledger, local
<1>11. ASSUME NEW r \in Runs, NEW l \in Lots, NEW b \in BOOLEAN, Exit(r, l, b) PROVE Behind'
  BY <1>11 DEF Exit, Goto, Inv, TypeOK, Local, Behind, ledger, local
<1>12. ASSUME NEW r \in Runs, NEW l \in Lots, NEW b \in BOOLEAN, ExitClosed(r, l, b) PROVE Behind'
  BY <1>12 DEF ExitClosed, Goto, Inv, TypeOK, Local, Behind, ledger, local
<1>13. ASSUME NEW l \in Lots, SyncLot(l) PROVE Behind'
  BY <1>13 DEF SyncLot, Goto, Inv, TypeOK, Local, Behind, ledger, local, States
<1>14. ASSUME NEW l \in Lots, StopFills(l) PROVE Behind'
  BY <1>14 DEF StopFills, Goto, Inv, TypeOK, Local, Behind, ledger, local
<1>15. CASE UNCHANGED vars
  BY <1>15 DEF vars, ledger, local, Inv, Behind
<1> QED
  BY <1>1, <1>2, <1>3, <1>4, <1>5, <1>6, <1>7, <1>8, <1>9, <1>10, <1>11, <1>12, <1>13, <1>14, <1>15 DEF Next, Works

\* Every step keeps the gates seeing.
LEMMA SeeStep ==
    ASSUME ExecutionAssumption, Inv, GatesSee, [Next]_vars
    PROVE  GatesSee'
<1>1. ASSUME NEW r \in Runs, Start(r) PROVE GatesSee'
  BY <1>1 DEF Start, Goto, Inv, TypeOK, GatesSee, ledger, local
<1>2. ASSUME NEW r \in Runs, ListOpen(r) PROVE GatesSee'
  BY <1>2 DEF ListOpen, Goto, Inv, TypeOK, GatesSee, ledger, local
<1>3. ASSUME NEW r \in Runs, RecordExit(r) PROVE GatesSee'
  BY <1>3 DEF RecordExit, Goto, Inv, TypeOK, GatesSee, ledger, local, Local
<1>4. ASSUME NEW r \in Runs, ExitFails(r) PROVE GatesSee'
  BY <1>4 DEF ExitFails, Goto, Inv, TypeOK, GatesSee, ledger, local, Fault
<1>5. ASSUME NEW r \in Runs, Decide(r) PROVE GatesSee'
  <2>1. \A q \in Runs : at[q] = "recording" => at'[q] = "recording"
    BY <1>5, DecideSays DEF Inv, TypeOK
  <2> QED
    BY <1>5, <2>1, DecideSays DEF Inv, GatesSee
<1>6. ASSUME NEW r \in Runs, Refuse(r) PROVE GatesSee'
  BY <1>6 DEF Refuse, Goto, Inv, TypeOK, GatesSee, ledger, local
<1>7. ASSUME NEW r \in Runs, Fill(r) PROVE GatesSee'
  BY <1>7 DEF Fill, Goto, Inv, TypeOK, GatesSee, ledger, local
<1>8. ASSUME NEW r \in Runs, Record(r) PROVE GatesSee'
  BY <1>8 DEF Record, Goto, Inv, TypeOK, GatesSee, ledger, local
<1>9. ASSUME NEW r \in Runs, RecordFails(r) PROVE GatesSee'
  BY <1>9 DEF RecordFails, Goto, Inv, TypeOK, GatesSee, ledger, local, Fault
<1>10. ASSUME NEW r \in Runs, NEW l \in Lots, Keep(r, l) PROVE GatesSee'
  BY <1>10 DEF Keep, Goto, Inv, TypeOK, GatesSee, ledger, local
<1>11. ASSUME NEW r \in Runs, NEW l \in Lots, NEW b \in BOOLEAN, Exit(r, l, b) PROVE GatesSee'
  BY <1>11 DEF Exit, Goto, Inv, TypeOK, GatesSee, ledger, local
<1>12. ASSUME NEW r \in Runs, NEW l \in Lots, NEW b \in BOOLEAN, ExitClosed(r, l, b) PROVE GatesSee'
  BY <1>12 DEF ExitClosed, Goto, Inv, TypeOK, GatesSee, ledger, local
<1>13. ASSUME NEW l \in Lots, SyncLot(l) PROVE GatesSee'
  BY <1>13 DEF SyncLot, Goto, Inv, TypeOK, GatesSee, ledger, local
<1>14. ASSUME NEW l \in Lots, StopFills(l) PROVE GatesSee'
  BY <1>14 DEF StopFills, Goto, Inv, TypeOK, GatesSee, ledger, local
<1>15. CASE UNCHANGED vars
  BY <1>15 DEF vars, ledger, local, GatesSee
<1> QED
  BY <1>1, <1>2, <1>3, <1>4, <1>5, <1>6, <1>7, <1>8, <1>9, <1>10, <1>11, <1>12, <1>13, <1>14, <1>15 DEF Next, Works

\* A run that closed a trade on its reverse crossover remembers it, unless a
\* call failed, and has no intent before it decides.
Turned ==
    /\ \A r \in turned : /\ at[r] # "waiting"
                         /\ faults = 0 => at[r] = "turning" \/ flipped[r]
    /\ \A r \in Runs : at[r] \in {"waiting", "listing", "exits", "turning", "closing"}
                         => intent[r] = NoStrategy

\* Every step keeps it so.
LEMMA FlipStep ==
    ASSUME ExecutionAssumption, Inv, Turned, NoFlip, [Next]_vars
    PROVE  Turned' /\ NoFlip'
<1>1. ASSUME NEW r \in Runs, Start(r) PROVE Turned' /\ NoFlip'
  BY <1>1 DEF Start, Goto, Inv, TypeOK, Turned, NoFlip, ledger, local
<1>2. ASSUME NEW r \in Runs, ListOpen(r) PROVE Turned' /\ NoFlip'
  BY <1>2 DEF ListOpen, Goto, Inv, TypeOK, Turned, NoFlip, ledger, local
<1>3. ASSUME NEW r \in Runs, RecordExit(r) PROVE Turned' /\ NoFlip'
  BY <1>3 DEF RecordExit, Goto, Inv, TypeOK, Turned, NoFlip, ledger, local
<1>4. ASSUME NEW r \in Runs, ExitFails(r) PROVE Turned' /\ NoFlip'
  BY <1>4 DEF ExitFails, Goto, Inv, TypeOK, Turned, NoFlip, ledger, local, Fault
<1>5. ASSUME NEW r \in Runs, Decide(r) PROVE Turned' /\ NoFlip'
  <2>1. TypeOK /\ UNCHANGED <<turned, flipped, faults>> /\ at[r] = "exits"
    BY <1>5, DecideSays DEF Inv
  <2>2. \A q \in Runs : q # r => at'[q] = at[q] /\ intent'[q] = intent[q]
    BY <1>5, <2>1, DecideSays
  <2>3. \/ (at'[r] = "placing" /\ ~flipped[r])
        \/ (at'[r] = "done" /\ intent'[r] = intent[r])
    BY <1>5, <2>1, DecideSays
  <2>4. turned \subseteq Runs
    BY <2>1 DEF TypeOK
  <2>5. ASSUME NEW q \in turned
        PROVE  at'[q] # "waiting" /\ (faults = 0 => at'[q] = "turning" \/ flipped[q])
    BY <2>1, <2>2, <2>3, <2>4 DEF Turned
  <2>6. ASSUME NEW q \in Runs,
               at'[q] \in {"waiting", "listing", "exits", "turning", "closing"}
        PROVE  intent'[q] = NoStrategy
    BY <2>1, <2>2, <2>3, <2>6 DEF Turned
  <2>7. Turned'
    BY <2>1, <2>5, <2>6 DEF Turned
  <2>8. NoFlip'
    BY <2>1, <2>2, <2>3, <2>4 DEF Turned, NoFlip
  <2> QED
    BY <2>7, <2>8
<1>6. ASSUME NEW r \in Runs, Refuse(r) PROVE Turned' /\ NoFlip'
  BY <1>6 DEF Refuse, Goto, Inv, TypeOK, Turned, NoFlip, ledger, local
<1>7. ASSUME NEW r \in Runs, Fill(r) PROVE Turned' /\ NoFlip'
  BY <1>7 DEF Fill, Goto, Inv, TypeOK, Turned, NoFlip, ledger, local
<1>8. ASSUME NEW r \in Runs, Record(r) PROVE Turned' /\ NoFlip'
  BY <1>8 DEF Record, Goto, Inv, TypeOK, Turned, NoFlip, ledger, local
<1>9. ASSUME NEW r \in Runs, RecordFails(r) PROVE Turned' /\ NoFlip'
  BY <1>9 DEF RecordFails, Goto, Inv, TypeOK, Turned, NoFlip, ledger, local, Fault
<1>10. ASSUME NEW r \in Runs, NEW l \in Lots, Keep(r, l) PROVE Turned' /\ NoFlip'
  BY <1>10 DEF Keep, Goto, Inv, TypeOK, Turned, NoFlip, ledger, local
<1>11. ASSUME NEW r \in Runs, NEW l \in Lots, NEW b \in BOOLEAN, Exit(r, l, b) PROVE Turned' /\ NoFlip'
  BY <1>11 DEF Exit, Goto, Inv, TypeOK, Turned, NoFlip, ledger, local
<1>12. ASSUME NEW r \in Runs, NEW l \in Lots, NEW b \in BOOLEAN, ExitClosed(r, l, b) PROVE Turned' /\ NoFlip'
  BY <1>12 DEF ExitClosed, Goto, Inv, TypeOK, Turned, NoFlip, ledger, local
<1>13. ASSUME NEW l \in Lots, SyncLot(l) PROVE Turned' /\ NoFlip'
  BY <1>13 DEF SyncLot, Goto, Inv, TypeOK, Turned, NoFlip, ledger, local
<1>14. ASSUME NEW l \in Lots, StopFills(l) PROVE Turned' /\ NoFlip'
  BY <1>14 DEF StopFills, Goto, Inv, TypeOK, Turned, NoFlip, ledger, local
<1>15. CASE UNCHANGED vars
  BY <1>15 DEF vars, ledger, local, Turned, NoFlip
<1> QED
  BY <1>1, <1>2, <1>3, <1>4, <1>5, <1>6, <1>7, <1>8, <1>9, <1>10, <1>11, <1>12, <1>13, <1>14, <1>15 DEF Next, Works

\* Failed calls stay in the count.
LEMMA FaultsStay ==
    ASSUME TypeOK, [Next]_vars, faults' = 0
    PROVE  faults = 0
BY DEF TypeOK, Next, Works, vars, Start, ListOpen, RecordExit, ExitFails, Decide, Refuse, Fill,
       Record, RecordFails, Keep, Exit, ExitClosed, SyncLot, StopFills, Fault

\* The invariant is inductive.
LEMMA Always == Spec => []Inv
<1>1. Init => Inv
  BY InitInv, ExecutionAssumption
<1>2. Inv /\ [Next]_vars => Inv'
  BY TypeStep, LocalStep, BehindStep, ExecutionAssumption DEF Inv
<1> QED
  BY <1>1, <1>2, PTL DEF Spec

\* The state is well typed.
THEOREM TypeCorrect == Spec => []TypeOK
BY Always, PTL DEF Inv

\* While no call has failed, a trade open at the broker is open in the ledger under
\* its strategy, or its order is being recorded: the window of the gates.
THEOREM GatesAlwaysSee == Spec => []GatesSee
<1>1. Init => GatesSee
  BY DEF Init, GatesSee
<1>2. Inv /\ GatesSee /\ [Next]_vars => GatesSee'
  BY SeeStep, ExecutionAssumption
<1> QED
  BY <1>1, <1>2, Always, PTL DEF Spec

\* As long as no call has failed, a run that closed a trade on its reverse
\* crossover never enters on the same bar, whatever the runs, their order and the
\* ledger do.
THEOREM NeverFlips == Spec => []NoFlip
<1> DEFINE Flipless == Turned /\ NoFlip
<1>1. Init => Flipless
  BY DEF Init, Turned, NoFlip
<1>2. Inv /\ Flipless /\ [Next]_vars => Flipless'
  BY FlipStep, ExecutionAssumption
<1>3. Flipless => NoFlip
  OBVIOUS
<1> QED
  BY <1>1, <1>2, <1>3, Always, PTL DEF Spec

-----------------------------------------------------------------------------
(* One position per pair, when the runs of a pair are in different batches.  *)

\* The runs of a pair are of the Secretary and of different batches: the
\* strategies of a pair share a timeframe and nobody starts an analysis by hand.
Serial ==
    \A r, q \in Runs : r # q /\ Pair[r] = Pair[q]
        => Batch[r] # Batch[q] /\ Batch[r] # 0 /\ Batch[q] # 0

\* A batch begins when the earlier ones are over.
Ordered ==
    \A r, q \in Runs : Batch[q] \in 1..(Batch[r] - 1) /\ at[r] # "waiting" => at[q] = "done"

\* Of the runs of a pair one is at work.
Alone ==
    \A r, q \in Runs : r # q /\ Pair[r] = Pair[q] => at[r] \in Inactive \/ at[q] \in Inactive

\* A run that is about to place finds its pair free at the broker.
Free ==
    OnePerPair => \A r \in Runs, l \in Lots :
        at[r] = "placing" /\ position[l] = "open" => order[l].pair # Pair[r]

\* Of a step: a run starts when it is due, and never comes back.
Moves ==
    \A q \in Runs :
        /\ at[q] = "done" => at'[q] = "done"
        /\ at[q] # "waiting" => at'[q] # "waiting"
        /\ at[q] = "waiting" => (at'[q] = "waiting" \/ Due(q))

\* Every step is like that.
LEMMA Advance == ASSUME TypeOK, [Next]_vars PROVE Moves
<1>1. ASSUME NEW r \in Runs, Start(r) PROVE Moves
  BY <1>1 DEF Start, Goto, TypeOK, Moves, ledger, local
<1>2. ASSUME NEW r \in Runs, ListOpen(r) PROVE Moves
  BY <1>2 DEF ListOpen, Goto, TypeOK, Moves, ledger, local
<1>3. ASSUME NEW r \in Runs, RecordExit(r) PROVE Moves
  BY <1>3 DEF RecordExit, Goto, TypeOK, Moves, ledger, local
<1>4. ASSUME NEW r \in Runs, ExitFails(r) PROVE Moves
  BY <1>4 DEF ExitFails, Goto, TypeOK, Moves, ledger, local
<1>5. ASSUME NEW r \in Runs, Decide(r) PROVE Moves
  BY <1>5 DEF Decide, Goto, TypeOK, Moves, ledger, local
<1>6. ASSUME NEW r \in Runs, Refuse(r) PROVE Moves
  BY <1>6 DEF Refuse, Goto, TypeOK, Moves, ledger, local
<1>7. ASSUME NEW r \in Runs, Fill(r) PROVE Moves
  BY <1>7 DEF Fill, Goto, TypeOK, Moves, ledger, local
<1>8. ASSUME NEW r \in Runs, Record(r) PROVE Moves
  BY <1>8 DEF Record, Goto, TypeOK, Moves, ledger, local
<1>9. ASSUME NEW r \in Runs, RecordFails(r) PROVE Moves
  BY <1>9 DEF RecordFails, Goto, TypeOK, Moves, ledger, local
<1>10. ASSUME NEW r \in Runs, NEW l \in Lots, Keep(r, l) PROVE Moves
  BY <1>10 DEF Keep, Goto, TypeOK, Moves, ledger, local
<1>11. ASSUME NEW r \in Runs, NEW l \in Lots, NEW b \in BOOLEAN, Exit(r, l, b) PROVE Moves
  BY <1>11 DEF Exit, Goto, TypeOK, Moves, ledger, local
<1>12. ASSUME NEW r \in Runs, NEW l \in Lots, NEW b \in BOOLEAN, ExitClosed(r, l, b) PROVE Moves
  BY <1>12 DEF ExitClosed, Goto, TypeOK, Moves, ledger, local
<1>13. ASSUME NEW l \in Lots, SyncLot(l) PROVE Moves
  BY <1>13 DEF SyncLot, Goto, TypeOK, Moves, ledger, local
<1>14. ASSUME NEW l \in Lots, StopFills(l) PROVE Moves
  BY <1>14 DEF StopFills, Goto, TypeOK, Moves, ledger, local
<1>15. CASE UNCHANGED vars
  BY <1>15 DEF vars, Goto, TypeOK, Moves, ledger, local
<1> QED
  BY <1>1, <1>2, <1>3, <1>4, <1>5, <1>6, <1>7, <1>8, <1>9, <1>10, <1>11, <1>12, <1>13, <1>14, <1>15 DEF Next, Works, Moves

\* Batches stay in order.
LEMMA OrderStep ==
    ASSUME ExecutionAssumption, TypeOK, Ordered, [Next]_vars
    PROVE  Ordered'
<1>1. \A q \in Runs : at[q] = "done" => at'[q] = "done"
  BY Advance DEF Moves
<1>2. \A q \in Runs : at[q] = "waiting" /\ at'[q] # "waiting" => Due(q)
  BY Advance DEF Moves
<1>3. ASSUME NEW r \in Runs, NEW q \in Runs,
             Batch[q] \in 1..(Batch[r] - 1), at'[r] # "waiting"
      PROVE  at'[q] = "done"
  <2>1. CASE at[r] # "waiting"
    BY <1>1, <1>3, <2>1 DEF Ordered
  <2>2. CASE at[r] = "waiting"
    <3>1. Batch[r] # 0
      BY <1>3 DEF ExecutionAssumption
    <3>2. Due(r)
      BY <1>2, <1>3, <2>2
    <3>3. at[q] = "done"
      BY <1>3, <3>1, <3>2 DEF Due
    <3> QED
      BY <1>1, <3>3
  <2> QED
    BY <2>1, <2>2
<1> QED
  BY <1>3 DEF Ordered

\* Two runs of a pair never work together.
LEMMA AloneHolds ==
    ASSUME ExecutionAssumption, Serial, Ordered
    PROVE  Alone
<1> SUFFICES ASSUME NEW r \in Runs, NEW q \in Runs, r # q, Pair[r] = Pair[q],
                    at[r] # "waiting", at[q] # "waiting"
             PROVE  at[r] = "done" \/ at[q] = "done"
  BY DEF Alone, Inactive
<1>1. Batch[r] \in Nat /\ Batch[q] \in Nat
  BY DEF ExecutionAssumption
<1>2. Batch[r] # Batch[q] /\ Batch[r] # 0 /\ Batch[q] # 0
  BY DEF Serial
<1>3. Batch[r] \in 1..(Batch[q] - 1) \/ Batch[q] \in 1..(Batch[r] - 1)
  BY <1>1, <1>2
<1> QED
  BY <1>3 DEF Ordered

\* A run that decides to place finds its pair free: what the ledger does not show
\* is being recorded by another run of the pair, and there is none.
LEMMA DecideFree ==
    ASSUME TypeOK, Local, Alone, GatesSee, faults = 0, OnePerPair,
           NEW r \in Runs, Decide(r), at'[r] = "placing",
           NEW l \in Lots, position[l] = "open"
    PROVE  order[l].pair # Pair[r]
<1>1. at[r] = "exits" /\ ~PairOpen(Pair[r])
  BY DecideSays
<1>2. CASE row[l] = "open"
  BY <1>1, <1>2 DEF PairOpen
<1>3. CASE \E q \in Runs : at[q] = "recording" /\ lot[q] = l
  <2>1. PICK q \in Runs : at[q] = "recording" /\ lot[q] = l
    BY <1>3
  <2>2. order[l].pair = Pair[q] /\ q # r
    BY <1>1, <2>1 DEF Local
  <2> QED
    BY <1>1, <2>1, <2>2 DEF Alone, Inactive
<1> QED
  BY <1>2, <1>3 DEF GatesSee

\* Every step keeps the pair of a placing run free.
LEMMA FreeStep ==
    ASSUME ExecutionAssumption, Inv, Alone, GatesSee, faults = 0, Free, [Next]_vars
    PROVE  Free'
<1>1. ASSUME NEW r \in Runs, Start(r) PROVE Free'
  BY <1>1 DEF Start, Goto, Inv, TypeOK, Free, ledger, local
<1>2. ASSUME NEW r \in Runs, ListOpen(r) PROVE Free'
  BY <1>2 DEF ListOpen, Goto, Inv, TypeOK, Free, ledger, local
<1>3. ASSUME NEW r \in Runs, RecordExit(r) PROVE Free'
  BY <1>3 DEF RecordExit, Goto, Inv, TypeOK, Free, ledger, local
<1>4. ASSUME NEW r \in Runs, ExitFails(r) PROVE Free'
  BY <1>4 DEF ExitFails, Goto, Inv, TypeOK, Free, ledger, local
<1>5. ASSUME NEW r \in Runs, Decide(r) PROVE Free'
  <2>1. at[r] = "exits" /\ UNCHANGED <<position, order>>
    BY <1>5, DecideSays DEF Inv
  <2>2. \A q \in Runs : q # r => at'[q] = at[q]
    BY <1>5, DecideSays DEF Inv
  <2>3. ASSUME OnePerPair, at'[r] = "placing", NEW l \in Lots, position[l] = "open"
        PROVE  order[l].pair # Pair[r]
    BY <1>5, <2>3, DecideFree DEF Inv
  <2> QED
    BY <2>1, <2>2, <2>3 DEF Free
<1>6. ASSUME NEW r \in Runs, Refuse(r) PROVE Free'
  BY <1>6 DEF Refuse, Goto, Inv, TypeOK, Free, ledger, local
<1>7. ASSUME NEW r \in Runs, Fill(r) PROVE Free'
  <2>1. PICK l \in Lots :
          /\ position[l] = "none" /\ position' = [position EXCEPT ![l] = "open"]
          /\ order' = [order EXCEPT ![l] = [pair |-> Pair[r], strategy |-> intent[r]]]
    BY <1>7 DEF Fill
  <2>2. at[r] = "placing" /\ at' = [at EXCEPT ![r] = "recording"]
    BY <1>7 DEF Fill, Goto
  <2>3. order'[l].pair = Pair[r]
    BY <2>1 DEF Inv, TypeOK
  <2>4. \A k \in Lots : k # l => position'[k] = position[k] /\ order'[k] = order[k]
    BY <2>1 DEF Inv, TypeOK
  <2>5. \A q \in Runs : at'[q] = "placing" => q # r /\ at[q] = "placing"
    BY <2>2 DEF Inv, TypeOK
  <2>6. \A q \in Runs : at'[q] = "placing" => Pair[q] # Pair[r]
    BY <2>2, <2>5 DEF Alone, Inactive
  <2> QED
    BY <2>3, <2>4, <2>5, <2>6 DEF Free
<1>8. ASSUME NEW r \in Runs, Record(r) PROVE Free'
  BY <1>8 DEF Record, Goto, Inv, TypeOK, Free, ledger, local
<1>9. ASSUME NEW r \in Runs, RecordFails(r) PROVE Free'
  BY <1>9 DEF RecordFails, Goto, Inv, TypeOK, Free, ledger, local
<1>10. ASSUME NEW r \in Runs, NEW l \in Lots, Keep(r, l) PROVE Free'
  BY <1>10 DEF Keep, Goto, Inv, TypeOK, Free, ledger, local
<1>11. ASSUME NEW r \in Runs, NEW l \in Lots, NEW b \in BOOLEAN, Exit(r, l, b) PROVE Free'
  BY <1>11 DEF Exit, Goto, Inv, TypeOK, Free, ledger, local
<1>12. ASSUME NEW r \in Runs, NEW l \in Lots, NEW b \in BOOLEAN, ExitClosed(r, l, b) PROVE Free'
  BY <1>12 DEF ExitClosed, Goto, Inv, TypeOK, Free, ledger, local
<1>13. ASSUME NEW l \in Lots, SyncLot(l) PROVE Free'
  BY <1>13 DEF SyncLot, Goto, Inv, TypeOK, Free, ledger, local
<1>14. ASSUME NEW l \in Lots, StopFills(l) PROVE Free'
  BY <1>14 DEF StopFills, Goto, Inv, TypeOK, Free, ledger, local
<1>15. CASE UNCHANGED vars
  BY <1>15 DEF vars, Goto, Inv, TypeOK, Free, ledger, local
<1> QED
  BY <1>1, <1>2, <1>3, <1>4, <1>5, <1>6, <1>7, <1>8, <1>9, <1>10, <1>11, <1>12, <1>13, <1>14, <1>15 DEF Next, Works

\* Every step keeps one position per pair.
LEMMA OneStep ==
    ASSUME ExecutionAssumption, Inv, faults = 0, Free, OnePosition, [Next]_vars
    PROVE  OnePosition'
<1>1. ASSUME NEW r \in Runs, Start(r) PROVE OnePosition'
  BY <1>1 DEF Start, Goto, Inv, TypeOK, OnePosition, ledger, local
<1>2. ASSUME NEW r \in Runs, ListOpen(r) PROVE OnePosition'
  BY <1>2 DEF ListOpen, Goto, Inv, TypeOK, OnePosition, ledger, local
<1>3. ASSUME NEW r \in Runs, RecordExit(r) PROVE OnePosition'
  BY <1>3 DEF RecordExit, Goto, Inv, TypeOK, OnePosition, ledger, local
<1>4. ASSUME NEW r \in Runs, ExitFails(r) PROVE OnePosition'
  BY <1>4 DEF ExitFails, Goto, Inv, TypeOK, OnePosition, ledger, local
<1>5. ASSUME NEW r \in Runs, Decide(r) PROVE OnePosition'
  BY <1>5, DecideSays DEF Inv, OnePosition
<1>6. ASSUME NEW r \in Runs, Refuse(r) PROVE OnePosition'
  BY <1>6 DEF Refuse, Goto, Inv, TypeOK, OnePosition, ledger, local
<1>7. ASSUME NEW r \in Runs, Fill(r) PROVE OnePosition'
  <2>1. PICK l \in Lots :
          /\ position[l] = "none" /\ position' = [position EXCEPT ![l] = "open"]
          /\ order' = [order EXCEPT ![l] = [pair |-> Pair[r], strategy |-> intent[r]]]
    BY <1>7 DEF Fill
  <2>2. at[r] = "placing"
    BY <1>7 DEF Fill
  <2>3. order'[l].pair = Pair[r]
    BY <2>1 DEF Inv, TypeOK
  <2>4. \A k \in Lots : k # l => position'[k] = position[k] /\ order'[k] = order[k]
    BY <2>1 DEF Inv, TypeOK
  <2> QED
    BY <2>2, <2>3, <2>4 DEF Free, OnePosition
<1>8. ASSUME NEW r \in Runs, Record(r) PROVE OnePosition'
  BY <1>8 DEF Record, Goto, Inv, TypeOK, OnePosition, ledger, local
<1>9. ASSUME NEW r \in Runs, RecordFails(r) PROVE OnePosition'
  BY <1>9 DEF RecordFails, Goto, Inv, TypeOK, OnePosition, ledger, local
<1>10. ASSUME NEW r \in Runs, NEW l \in Lots, Keep(r, l) PROVE OnePosition'
  BY <1>10 DEF Keep, Goto, Inv, TypeOK, OnePosition, ledger, local
<1>11. ASSUME NEW r \in Runs, NEW l \in Lots, NEW b \in BOOLEAN, Exit(r, l, b) PROVE OnePosition'
  BY <1>11 DEF Exit, Goto, Inv, TypeOK, OnePosition, ledger, local
<1>12. ASSUME NEW r \in Runs, NEW l \in Lots, NEW b \in BOOLEAN, ExitClosed(r, l, b) PROVE OnePosition'
  BY <1>12 DEF ExitClosed, Goto, Inv, TypeOK, OnePosition, ledger, local
<1>13. ASSUME NEW l \in Lots, SyncLot(l) PROVE OnePosition'
  BY <1>13 DEF SyncLot, Goto, Inv, TypeOK, OnePosition, ledger, local
<1>14. ASSUME NEW l \in Lots, StopFills(l) PROVE OnePosition'
  BY <1>14 DEF StopFills, Goto, Inv, TypeOK, OnePosition, ledger, local
<1>15. CASE UNCHANGED vars
  BY <1>15 DEF vars, Goto, Inv, TypeOK, OnePosition, ledger, local
<1> QED
  BY <1>1, <1>2, <1>3, <1>4, <1>5, <1>6, <1>7, <1>8, <1>9, <1>10, <1>11, <1>12, <1>13, <1>14, <1>15 DEF Next, Works

\* only_one_position_per_pair is kept when the runs of a pair follow each other,
\* as long as no call has failed, with any number of runs, orders, strategies and
\* closing stops and however the sync interleaves: the gate may read the ledger
\* before the order and nothing else.
THEOREM OneTradePerPair == ASSUME Serial PROVE Spec => []OnePosition
<1> DEFINE Ok == GatesSee /\ Ordered /\ OnePosition /\ (faults = 0 => Free)
<1>1. Init => Ok
  BY DEF Init, GatesSee, Ordered, Free, OnePosition
<1>2. Inv /\ Ok /\ [Next]_vars => Ok'
  <2> SUFFICES ASSUME Inv, Ok, [Next]_vars PROVE Ok'
    OBVIOUS
  <2>1. TypeOK /\ Alone
    BY AloneHolds, ExecutionAssumption DEF Inv
  <2>2. GatesSee'
    BY SeeStep, ExecutionAssumption
  <2>3. Ordered'
    BY <2>1, OrderStep, ExecutionAssumption
  <2>4. CASE faults' = 0
    <3>1. faults = 0
      BY <2>1, <2>4, FaultsStay
    <3>2. Free'
      BY <2>1, <3>1, FreeStep, ExecutionAssumption
    <3>3. OnePosition'
      BY <3>1, OneStep, ExecutionAssumption
    <3> QED
      BY <2>2, <2>3, <3>2, <3>3
  <2>5. CASE faults' # 0
    <3>1. OnePosition'
      BY <2>5 DEF OnePosition
    <3> QED
      BY <2>2, <2>3, <2>5, <3>1
  <2> QED
    BY <2>4, <2>5
<1> QED
  BY <1>1, <1>2, Always, PTL DEF Spec
-----------------------------------------------------------------------------
(* The book of entries, when the runs of a pair follow each other.           *)

\* The trades of a pair that the broker holds, and the orders of a pair and a
\* strategy.
HeldOf(P, O, p)   == {l \in Lots : P[l] = "open" /\ O[l].pair = p}
PlacedOf(O, p, s) == {l \in Lots : O[l] = [pair |-> p, strategy |-> s]}

\* A lot has an order from when it is filled; while no call has failed its row
\* names its strategy, or its order is being recorded.
Traced ==
    \A l \in Lots :
        /\ (position[l] = "none") = (order[l] = NoOrder)
        /\ faults = 0 /\ position[l] # "none" =>
              l \in labelled \/ \E r \in Runs : at[r] = "recording" /\ lot[r] = l

\* The places between a run's reading of the counts and its decision.
Deciding == {"listing", "exits", "turning", "closing"}

\* While no call has failed, the counts a run has read stay those of the orders
\* of its pair until it decides, and then its order is still within the limit.
Exact ==
    faults = 0 => \A r \in Runs :
        /\ at[r] \in Deciding => \A s \in Strategies :
              counts[r][s] = Cardinality(PlacedOf(order, Pair[r], s))
        /\ at[r] = "placing" =>
              Cardinality(PlacedOf(order, Pair[r], intent[r])) < MaxTrades[intent[r]]

LEMMA InitTraced == ASSUME Init PROVE Traced
BY DEF Init, Traced

LEMMA TraceStep ==
    ASSUME ExecutionAssumption, Inv, Traced, [Next]_vars
    PROVE  Traced'
<1>1. ASSUME NEW r \in Runs, Start(r) PROVE Traced'
  BY <1>1 DEF Start, Goto, Inv, TypeOK, Local, Traced, ledger, local, Fault
<1>2. ASSUME NEW r \in Runs, ListOpen(r) PROVE Traced'
  BY <1>2 DEF ListOpen, Goto, Inv, TypeOK, Local, Traced, ledger, local, Fault
<1>3. ASSUME NEW r \in Runs, RecordExit(r) PROVE Traced'
  BY <1>3 DEF RecordExit, Goto, Inv, TypeOK, Local, Traced, ledger, local, Fault
<1>4. ASSUME NEW r \in Runs, ExitFails(r) PROVE Traced'
  BY <1>4 DEF ExitFails, Goto, Inv, TypeOK, Local, Traced, ledger, local, Fault
<1>5. ASSUME NEW r \in Runs, Decide(r) PROVE Traced'
  <2>1. \A q \in Runs : at[q] = "recording" => at'[q] = "recording"
    BY <1>5, DecideSays DEF Inv
  <2>2. UNCHANGED <<position, labelled, order, lot, faults>>
    BY <1>5, DecideSays DEF Inv
  <2> QED
    BY <2>1, <2>2 DEF Traced
<1>6. ASSUME NEW r \in Runs, Refuse(r) PROVE Traced'
  BY <1>6 DEF Refuse, Goto, Inv, TypeOK, Local, Traced, ledger, local, Fault
<1>7. ASSUME NEW r \in Runs, Fill(r) PROVE Traced'
  <2>1. PICK l \in Lots :
          /\ position[l] = "none" /\ position' = [position EXCEPT ![l] = "open"]
          /\ order' = [order EXCEPT ![l] = [pair |-> Pair[r], strategy |-> intent[r]]]
          /\ lot' = [lot EXCEPT ![r] = l]
    BY <1>7 DEF Fill
  <2>2. /\ at[r] = "placing" /\ at' = [at EXCEPT ![r] = "recording"]
        /\ UNCHANGED <<labelled, faults>>
    BY <1>7 DEF Fill, Goto, ledger
  <2>3. intent[r] \in Strategies /\ intent[r] # NoStrategy
    BY <2>2 DEF Inv, Local, ExecutionAssumption
  <2>4. order'[l] # NoOrder /\ position'[l] = "open"
    BY <2>1, <2>3 DEF NoOrder, Inv, TypeOK
  <2>5. at'[r] = "recording" /\ lot'[r] = l
    BY <2>1, <2>2 DEF Inv, TypeOK
  <2>6. \A k \in Lots : k # l => position'[k] = position[k] /\ order'[k] = order[k]
    BY <2>1 DEF Inv, TypeOK
  <2>7. \A q \in Runs : at[q] = "recording" => at'[q] = "recording" /\ lot'[q] = lot[q]
    BY <2>1, <2>2 DEF Inv, TypeOK
  <2> QED
    BY <2>2, <2>4, <2>5, <2>6, <2>7 DEF Traced
<1>8. ASSUME NEW r \in Runs, Record(r) PROVE Traced'
  <2>1. /\ at' = [at EXCEPT ![r] = "done"] /\ labelled' = labelled \cup {lot[r]}
        /\ lot' = [lot EXCEPT ![r] = NoLot] /\ UNCHANGED <<position, order, faults>>
    BY <1>8 DEF Record, Goto
  <2>2. \A q \in Runs : q # r => at'[q] = at[q] /\ lot'[q] = lot[q]
    BY <2>1 DEF Inv, TypeOK
  <2> QED
    BY <2>1, <2>2 DEF Traced
<1>9. ASSUME NEW r \in Runs, RecordFails(r) PROVE Traced'
  BY <1>9 DEF RecordFails, Goto, Inv, TypeOK, Local, Traced, ledger, local, Fault
<1>10. ASSUME NEW r \in Runs, NEW l \in Lots, Keep(r, l) PROVE Traced'
  BY <1>10 DEF Keep, Goto, Inv, TypeOK, Local, Traced, ledger, local, Fault
<1>11. ASSUME NEW r \in Runs, NEW l \in Lots, NEW b \in BOOLEAN, Exit(r, l, b) PROVE Traced'
  BY <1>11 DEF Exit, Goto, Inv, TypeOK, Local, Traced, ledger, local, Fault
<1>12. ASSUME NEW r \in Runs, NEW l \in Lots, NEW b \in BOOLEAN, ExitClosed(r, l, b) PROVE Traced'
  BY <1>12 DEF ExitClosed, Goto, Inv, TypeOK, Local, Traced, ledger, local, Fault
<1>13. ASSUME NEW l \in Lots, SyncLot(l) PROVE Traced'
  BY <1>13 DEF SyncLot, Goto, Inv, TypeOK, Local, Traced, ledger, local, Fault
<1>14. ASSUME NEW l \in Lots, StopFills(l) PROVE Traced'
  BY <1>14 DEF StopFills, Goto, Inv, TypeOK, Local, Traced, ledger, local, Fault
<1>15. CASE UNCHANGED vars
  BY <1>15 DEF vars, Goto, Inv, TypeOK, Local, Traced, ledger, local, Fault
<1> QED
  BY <1>1, <1>2, <1>3, <1>4, <1>5, <1>6, <1>7, <1>8, <1>9, <1>10, <1>11, <1>12, <1>13, <1>14, <1>15 DEF Next, Works

\* What a run decides is within the day's limit as it has counted.
LEMMA DecideCounts ==
    ASSUME TypeOK, NEW r \in Runs, Decide(r), at'[r] = "placing"
    PROVE  counts[r][intent'[r]] < MaxTrades[intent'[r]]
<1> DEFINE winners == Winners({u \in picked[r] : Passes(r, u)})
<1>1. at \in [Runs -> Places] /\ intent \in [Runs -> Strategies \cup {NoStrategy}]
  BY DEF TypeOK
<1>2. \E s \in winners : intent' = [intent EXCEPT ![r] = s]
  BY <1>1 DEF Decide, Goto
<1>3. \A s \in winners : counts[r][s] < MaxTrades[s]
  BY WinnerPasses DEF Passes
<1> HIDE DEF winners
<1> QED
  BY <1>1, <1>2, <1>3

\* The counts a run reads are those of all orders of its pair: no other run of the
\* pair is at work.
LEMMA StartExact ==
    ASSUME ExecutionAssumption, Inv, Traced, faults = 0, NEW r \in Runs, Start(r), Alone',
           NEW s \in Strategies
    PROVE  counts'[r][s] = Cardinality(PlacedOf(order, Pair[r], s))
<1>1. at'[r] = "listing" /\ \A q \in Runs : q # r => at'[q] = at[q]
  BY DEF Start, Goto, Inv, TypeOK
<1>2. counts'[r] = DailyCounts(r)
  BY DEF Start, Inv, TypeOK
<1>3. at[r] = "waiting"
  BY DEF Start
<1>4. ASSUME NEW l \in PlacedOf(order, Pair[r], s) PROVE l \in labelled
  <2>1. order[l] # NoOrder /\ order[l].pair = Pair[r] /\ l \in Lots
    BY DEF PlacedOf, NoOrder, ExecutionAssumption
  <2>2. position[l] # "none"
    BY <2>1 DEF Traced
  <2>3. ASSUME NEW q \in Runs, at[q] = "recording", lot[q] = l PROVE FALSE
    <3>1. Pair[q] = Pair[r] /\ q # r
      BY <1>3, <2>1, <2>3 DEF Inv, Local
    <3>2. at'[q] = "recording"
      BY <1>1, <2>3, <3>1
    <3> QED
      BY <1>1, <3>1, <3>2 DEF Alone, Inactive
  <2> QED
    BY <2>1, <2>2, <2>3 DEF Traced
<1>5. {l \in labelled : order[l] = [pair |-> Pair[r], strategy |-> s]} = PlacedOf(order, Pair[r], s)
  BY <1>4 DEF PlacedOf, Inv, TypeOK
<1> QED
  BY <1>2, <1>5 DEF DailyCounts

\* A step that neither places an order nor begins or decides.
LEMMA ExactQuiet ==
    ASSUME Exact, UNCHANGED <<order, counts, intent>>, faults' = 0 => faults = 0,
           \A q \in Runs : /\ at'[q] \in Deciding => at[q] \in Deciding
                           /\ at'[q] = "placing" => at[q] = "placing"
    PROVE  Exact'
BY DEF Exact

LEMMA ExactStep ==
    ASSUME ExecutionAssumption, Inv, Traced, Alone, Alone', Exact, [Next]_vars
    PROVE  Exact'
<1>0. faults' = 0 => faults = 0
  BY FaultsStay DEF Inv
<1>1. ASSUME NEW r \in Runs, Start(r) PROVE Exact'
  <2>1. /\ at'[r] = "listing" /\ UNCHANGED <<order, intent, faults>>
        /\ \A q \in Runs : q # r => at'[q] = at[q] /\ counts'[q] = counts[q]
    BY <1>1 DEF Start, Goto, Inv, TypeOK
  <2>2. faults = 0 => \A s \in Strategies : counts'[r][s] = Cardinality(PlacedOf(order, Pair[r], s))
    BY <1>1, StartExact
  <2> QED
    BY <2>1, <2>2 DEF Exact, Deciding
<1>2. ASSUME NEW r \in Runs, ListOpen(r) PROVE Exact'
  BY <1>2, <1>0, ExactQuiet DEF ListOpen, Goto, Inv, TypeOK, Deciding, ledger, local
<1>3. ASSUME NEW r \in Runs, RecordExit(r) PROVE Exact'
  BY <1>3, <1>0, ExactQuiet DEF RecordExit, Goto, Inv, TypeOK, Deciding, ledger, local
<1>4. ASSUME NEW r \in Runs, ExitFails(r) PROVE Exact'
  BY <1>4, <1>0, ExactQuiet DEF ExitFails, Goto, Inv, TypeOK, Deciding, ledger, local
<1>5. ASSUME NEW r \in Runs, Decide(r) PROVE Exact'
  <2>1. /\ at[r] = "exits" /\ UNCHANGED <<order, faults>>
        /\ \A q \in Runs : q # r => at'[q] = at[q] /\ intent'[q] = intent[q]
        /\ at'[r] = "done" \/ (at'[r] = "placing" /\ intent'[r] \in Strategies)
    BY <1>5, DecideSays DEF Inv
  <2>2. counts' = counts
    BY <1>5 DEF Decide
  <2>3. at'[r] = "placing" => counts[r][intent'[r]] < MaxTrades[intent'[r]]
    BY <1>5, DecideCounts DEF Inv
  <2>4. ASSUME faults = 0, at'[r] = "placing"
        PROVE  Cardinality(PlacedOf(order, Pair[r], intent'[r])) < MaxTrades[intent'[r]]
    BY <2>1, <2>3, <2>4 DEF Exact, Deciding
  <2> QED
    BY <2>1, <2>2, <2>4 DEF Exact, Deciding
<1>6. ASSUME NEW r \in Runs, Refuse(r) PROVE Exact'
  BY <1>6, <1>0, ExactQuiet DEF Refuse, Goto, Inv, TypeOK, Deciding, ledger, local
<1>7. ASSUME NEW r \in Runs, Fill(r) PROVE Exact'
  <2>1. PICK l \in Lots :
          /\ position[l] = "none"
          /\ order' = [order EXCEPT ![l] = [pair |-> Pair[r], strategy |-> intent[r]]]
    BY <1>7 DEF Fill
  <2>2. /\ at[r] = "placing" /\ UNCHANGED <<counts, intent, faults>>
        /\ at'[r] = "recording" /\ \A q \in Runs : q # r => at'[q] = at[q]
    BY <1>7 DEF Fill, Goto, Inv, TypeOK
  <2>3. /\ order[l] = NoOrder
        /\ order'[l] = [pair |-> Pair[r], strategy |-> intent[r]]
        /\ \A k \in Lots : k # l => order'[k] = order[k]
    BY <2>1 DEF Traced, Inv, TypeOK
  <2>4. ASSUME NEW q \in Runs, at'[q] \in Deciding \cup {"placing"}
        PROVE  q # r /\ at[q] = at'[q] /\ Pair[q] # Pair[r]
    <3>1. q # r /\ at[q] = at'[q]
      BY <2>2, <2>4 DEF Deciding
    <3> QED
      BY <2>2, <2>4, <3>1 DEF Alone, Inactive, Deciding
  <2>5. ASSUME NEW p, p # Pair[r], NEW s \in Strategies
        PROVE  PlacedOf(order', p, s) = PlacedOf(order, p, s)
    <3>1. \A k \in Lots : (order'[k] = [pair |-> p, strategy |-> s])
                            <=> (order[k] = [pair |-> p, strategy |-> s])
      BY <2>3, <2>5 DEF NoOrder, ExecutionAssumption
    <3> QED
      BY <3>1 DEF PlacedOf
  <2>6. \A q \in Runs : at'[q] = "placing" => intent[q] \in Strategies
    BY <2>4 DEF Inv, Local
  <2>7. ASSUME faults' = 0, NEW q \in Runs, at'[q] \in Deciding, NEW s \in Strategies
        PROVE  counts'[q][s] = Cardinality(PlacedOf(order', Pair[q], s))
    <3>1. PlacedOf(order', Pair[q], s) = PlacedOf(order, Pair[q], s)
      BY <2>4, <2>5, <2>7
    <3>2. counts[q][s] = Cardinality(PlacedOf(order, Pair[q], s))
      BY <1>0, <2>4, <2>7 DEF Exact
    <3> QED
      BY <2>2, <3>1, <3>2
  <2>8. ASSUME faults' = 0, NEW q \in Runs, at'[q] = "placing"
        PROVE  Cardinality(PlacedOf(order', Pair[q], intent'[q])) < MaxTrades[intent'[q]]
    <3>1. PlacedOf(order', Pair[q], intent[q]) = PlacedOf(order, Pair[q], intent[q])
      BY <2>4, <2>5, <2>6, <2>8
    <3>2. Cardinality(PlacedOf(order, Pair[q], intent[q])) < MaxTrades[intent[q]]
      BY <1>0, <2>4, <2>8 DEF Exact
    <3> QED
      BY <2>2, <3>1, <3>2
  <2> QED
    BY <2>7, <2>8 DEF Exact
<1>8. ASSUME NEW r \in Runs, Record(r) PROVE Exact'
  BY <1>8, <1>0, ExactQuiet DEF Record, Goto, Inv, TypeOK, Deciding, ledger, local
<1>9. ASSUME NEW r \in Runs, RecordFails(r) PROVE Exact'
  BY <1>9, <1>0, ExactQuiet DEF RecordFails, Goto, Inv, TypeOK, Deciding, ledger, local
<1>10. ASSUME NEW r \in Runs, NEW l \in Lots, Keep(r, l) PROVE Exact'
  BY <1>10, <1>0, ExactQuiet DEF Keep, Goto, Inv, TypeOK, Deciding, ledger, local
<1>11. ASSUME NEW r \in Runs, NEW l \in Lots, NEW b \in BOOLEAN, Exit(r, l, b) PROVE Exact'
  BY <1>11, <1>0, ExactQuiet DEF Exit, Goto, Inv, TypeOK, Deciding, ledger, local
<1>12. ASSUME NEW r \in Runs, NEW l \in Lots, NEW b \in BOOLEAN, ExitClosed(r, l, b) PROVE Exact'
  BY <1>12, <1>0, ExactQuiet DEF ExitClosed, Goto, Inv, TypeOK, Deciding, ledger, local
<1>13. ASSUME NEW l \in Lots, SyncLot(l) PROVE Exact'
  BY <1>13, <1>0, ExactQuiet DEF SyncLot, Goto, Inv, TypeOK, Deciding, ledger, local
<1>14. ASSUME NEW l \in Lots, StopFills(l) PROVE Exact'
  BY <1>14, <1>0, ExactQuiet DEF StopFills, Goto, Inv, TypeOK, Deciding, ledger, local
<1>15. CASE UNCHANGED vars
  BY <1>15, <1>0, ExactQuiet DEF vars, Goto, Inv, TypeOK, Deciding, ledger, local
<1> QED
  BY <1>1, <1>2, <1>3, <1>4, <1>5, <1>6, <1>7, <1>8, <1>9, <1>10, <1>11, <1>12, <1>13, <1>14, <1>15 DEF Next, Works

\* A lot more, or one less, of a set of lots.
LEMMA LotsCount ==
    ASSUME ExecutionAssumption, NEW S \in SUBSET Lots, NEW l \in Lots
    PROVE  /\ Cardinality(S) \in Nat
           /\ l \notin S => Cardinality(S \cup {l}) = Cardinality(S) + 1
           /\ l \in S => Cardinality(S \ {l}) = Cardinality(S) - 1 /\ Cardinality(S) > 0
<1>1. IsFiniteSet(S) /\ Cardinality(S) \in Nat
  BY FS_Subset, FS_CardinalityType DEF ExecutionAssumption
<1>2. l \notin S => Cardinality(S \cup {l}) = Cardinality(S) + 1
  BY <1>1, FS_AddElement
<1>3. ASSUME l \in S PROVE Cardinality(S \ {l}) = Cardinality(S) - 1 /\ Cardinality(S) > 0
  <2>1. Cardinality(S \ {l}) = Cardinality(S) - 1
    BY <1>1, <1>3, FS_RemoveElement
  <2>2. Cardinality(S) # 0
    BY <1>1, <1>3, FS_EmptySet
  <2> QED
    BY <1>1, <2>1, <2>2
<1> QED
  BY <1>1, <1>2, <1>3

LEMMA InitBook == ASSUME ExecutionAssumption, Init PROVE Book!Init
<1>1. \A p : {l \in Lots : position[l] = "open" /\ order[l].pair = p} = {}
  BY DEF Init
<1>2. \A p \in Pairs, s \in Strategies : {l \in Lots : order[l] = [pair |-> p, strategy |-> s]} = {}
  BY DEF Init, NoOrder, ExecutionAssumption
<1>3. (faults = 0) = TRUE
  BY DEF Init
<1>4. Cardinality({}) = 0
  BY FS_EmptySet
<1> DEFINE H == [p \in Pairs |-> Cardinality({l \in Lots : position[l] = "open"
                                                        /\ order[l].pair = p})]
           O == [p \in Pairs |-> [s \in Strategies |-> Cardinality({l \in Lots :
                                 order[l] = [pair |-> p, strategy |-> s]})]]
<1>5. H = [p \in Pairs |-> 0]
  BY <1>1, <1>4
<1>6. O = [p \in Pairs |-> [s \in Strategies |-> 0]]
  <2> DEFINE C(p, s) == Cardinality({l \in Lots : order[l] = [pair |-> p, strategy |-> s]})
  <2>1. \A p \in Pairs, s \in Strategies : C(p, s) = 0
    BY <1>2, <1>4
  <2>2. O = [p \in Pairs |-> [s \in Strategies |-> C(p, s)]]
    OBVIOUS
  <2> HIDE DEF O, C
  <2> QED
    BY <2>1, <2>2
<1> HIDE DEF H, O
<1>7. H = [p \in Pairs |-> 0] /\ O = [p \in Pairs |-> [s \in Strategies |-> 0]]
        /\ (faults = 0) = TRUE
  BY <1>3, <1>5, <1>6
<1> QED
  BY <1>7 DEF Book!Init, H, O

\* A lot that is filled enters the book: the gates allow it.
LEMMA FillEnters ==
    ASSUME ExecutionAssumption, Inv, Traced, Exact, faults = 0 => Free,
           NEW r \in Runs, Fill(r)
    PROVE  Book!Enter(Pair[r], intent[r])
<1> DEFINE p == Pair[r]
           s == intent[r]
<1>1. PICK l \in Lots :
        /\ position[l] = "none" /\ position' = [position EXCEPT ![l] = "open"]
        /\ order' = [order EXCEPT ![l] = [pair |-> Pair[r], strategy |-> intent[r]]]
  BY DEF Fill
<1>2. at[r] = "placing" /\ faults' = faults /\ p \in Pairs /\ s \in Strategies
  BY DEF Fill, Inv, Local, Pairs
<1>3. order[l] = NoOrder /\ p \in Pairs
  BY <1>1, <1>2 DEF Traced
<1>4. /\ position'[l] = "open" /\ order'[l] = [pair |-> p, strategy |-> s]
      /\ \A k \in Lots : k # l => position'[k] = position[k] /\ order'[k] = order[k]
  BY <1>1 DEF Inv, TypeOK
<1> HIDE DEF p, s
<1>5. /\ HeldOf(position', order', p) = HeldOf(position, order, p) \cup {l}
      /\ l \notin HeldOf(position, order, p)
      /\ \A q \in Pairs : q # p => HeldOf(position', order', q) = HeldOf(position, order, q)
  BY <1>1, <1>4 DEF HeldOf
<1>6. /\ PlacedOf(order', p, s) = PlacedOf(order, p, s) \cup {l}
      /\ l \notin PlacedOf(order, p, s)
  BY <1>2, <1>3, <1>4 DEF PlacedOf, NoOrder, ExecutionAssumption
<1>7. ASSUME NEW q \in Pairs, NEW u \in Strategies, q # p \/ u # s
      PROVE  PlacedOf(order', q, u) = PlacedOf(order, q, u)
  <2>1. \A k \in Lots : (order'[k] = [pair |-> q, strategy |-> u])
                          <=> (order[k] = [pair |-> q, strategy |-> u])
    BY <1>3, <1>4, <1>7 DEF NoOrder, ExecutionAssumption
  <2> QED
    BY <2>1 DEF PlacedOf
<1>8. /\ Cardinality(HeldOf(position', order', p)) = Cardinality(HeldOf(position, order, p)) + 1
      /\ Cardinality(PlacedOf(order', p, s)) = Cardinality(PlacedOf(order, p, s)) + 1
  <2>1. HeldOf(position, order, p) \in SUBSET Lots /\ PlacedOf(order, p, s) \in SUBSET Lots
    BY DEF HeldOf, PlacedOf
  <2> QED
    BY <1>5, <1>6, <2>1, LotsCount
<1>9. faults = 0 => Cardinality(PlacedOf(order, p, s)) < MaxTrades[s]
  BY <1>2 DEF Exact, p, s
<1>10. faults = 0 /\ OnePerPair => Cardinality(HeldOf(position, order, p)) = 0
  <2>1. faults = 0 /\ OnePerPair => HeldOf(position, order, p) = {}
    BY <1>2 DEF Free, HeldOf, p
  <2> QED
    BY <2>1, FS_EmptySet
<1> DEFINE H == [q \in Pairs |-> Cardinality(HeldOf(position, order, q))]
           H1 == [q \in Pairs |-> Cardinality(HeldOf(position', order', q))]
           O == [q \in Pairs |-> [u \in Strategies |-> Cardinality(PlacedOf(order, q, u))]]
           O1 == [q \in Pairs |-> [u \in Strategies |-> Cardinality(PlacedOf(order', q, u))]]
<1>11. H1 = [H EXCEPT ![p] = @ + 1]
  BY <1>2, <1>5, <1>8
<1>12. O1 = [O EXCEPT ![p][s] = @ + 1]
  <2>1. \A q \in Pairs, u \in Strategies :
          Cardinality(PlacedOf(order', q, u)) = IF q = p /\ u = s
            THEN Cardinality(PlacedOf(order, p, s)) + 1
            ELSE Cardinality(PlacedOf(order, q, u))
    BY <1>7, <1>8
  <2> QED
    BY <1>2, <2>1
<1>13. H[p] = Cardinality(HeldOf(position, order, p))
         /\ O[p][s] = Cardinality(PlacedOf(order, p, s))
  BY <1>2
<1>14. /\ faults = 0 => (OnePerPair => H[p] = 0) /\ O[p][s] < MaxTrades[s]
       /\ (faults' = 0) = (faults = 0)
  BY <1>2, <1>9, <1>10, <1>13
<1> QED
  BY <1>11, <1>12, <1>14 DEF Book!Enter, HeldOf, PlacedOf, p, s

\* A trade that is closed leaves it.
LEMMA CloseLeaves ==
    ASSUME ExecutionAssumption, Inv, Traced, NEW l \in Lots, position[l] = "open",
           position' = [position EXCEPT ![l] = "closed"], UNCHANGED <<order, faults>>
    PROVE  order[l].pair \in Pairs /\ Book!Leave(order[l].pair)
<1> DEFINE p == order[l].pair
<1>1. p \in Pairs
  <2>1. order[l] # NoOrder
    BY DEF Traced
  <2> QED
    BY <2>1 DEF Inv, TypeOK
<1>2. /\ position'[l] = "closed"
      /\ \A k \in Lots : k # l => position'[k] = position[k]
  BY DEF Inv, TypeOK
<1>3. /\ HeldOf(position', order, p) = HeldOf(position, order, p) \ {l}
      /\ l \in HeldOf(position, order, p)
      /\ \A q \in Pairs : q # p => HeldOf(position', order, q) = HeldOf(position, order, q)
  BY <1>2 DEF HeldOf
<1> HIDE DEF p
<1>4. /\ Cardinality(HeldOf(position', order, p)) = Cardinality(HeldOf(position, order, p)) - 1
      /\ Cardinality(HeldOf(position, order, p)) > 0
  <2>1. HeldOf(position, order, p) \in SUBSET Lots
    BY DEF HeldOf
  <2> QED
    BY <1>3, <2>1, LotsCount
<1> DEFINE H == [q \in Pairs |-> Cardinality(HeldOf(position, order, q))]
           H1 == [q \in Pairs |-> Cardinality(HeldOf(position', order, q))]
<1>5. H1 = [H EXCEPT ![p] = @ - 1] /\ H[p] > 0
  BY <1>1, <1>3, <1>4
<1>6. order' = order /\ (faults' = 0) = (faults = 0)
  OBVIOUS
<1> QED
  BY <1>1, <1>5, <1>6 DEF Book!Leave, HeldOf, p

\* Every step is one of the book, or none.
LEMMA BookStep ==
    ASSUME ExecutionAssumption, Inv, Traced, Exact, faults = 0 => Free, [Next]_vars
    PROVE  [Book!Next]_Book!vars
<1>1. ASSUME UNCHANGED <<position, order, faults>> PROVE [Book!Next]_Book!vars
  BY <1>1 DEF Book!vars
<1>2. ASSUME UNCHANGED <<position, order>>, Fault PROVE [Book!Next]_Book!vars
  <2>1. faults' # 0
    BY <1>2 DEF Fault, Inv, TypeOK
  <2>2. Book!Fail
    BY <1>2, <2>1 DEF Book!Fail
  <2> QED
    BY <2>2 DEF Book!Next
<1>3. ASSUME NEW l \in Lots, position[l] = "open",
             position' = [position EXCEPT ![l] = "closed"], UNCHANGED <<order, faults>>
      PROVE  [Book!Next]_Book!vars
  BY <1>3, CloseLeaves DEF Book!Next
<1>4. ASSUME NEW r \in Runs, Fill(r) PROVE [Book!Next]_Book!vars
  <2>1. Pair[r] \in Pairs /\ intent[r] \in Strategies
    BY <1>4 DEF Fill, Inv, Local, Pairs
  <2> QED
    BY <1>4, <2>1, FillEnters DEF Book!Next
<1>5. ASSUME NEW r \in Runs, Works(r) PROVE [Book!Next]_Book!vars
  <2>1. CASE Start(r) \/ ListOpen(r) \/ RecordExit(r) \/ Decide(r) \/ Refuse(r) \/ Record(r)
    BY <1>1, <2>1 DEF Start, ListOpen, RecordExit, Decide, Refuse, Record
  <2>2. CASE ExitFails(r) \/ RecordFails(r)
    BY <1>2, <2>2 DEF ExitFails, RecordFails
  <2>3. ASSUME NEW l \in Lots, Keep(r, l) PROVE [Book!Next]_Book!vars
    BY <1>1, <2>3 DEF Keep
  <2>4. ASSUME NEW l \in Lots, NEW b \in BOOLEAN, Exit(r, l, b) PROVE [Book!Next]_Book!vars
    BY <1>3, <2>4 DEF Exit
  <2>5. ASSUME NEW l \in Lots, NEW b \in BOOLEAN, ExitClosed(r, l, b)
        PROVE  [Book!Next]_Book!vars
    BY <1>1, <2>5 DEF ExitClosed
  <2> QED
    BY <1>4, <1>5, <2>1, <2>2, <2>3, <2>4, <2>5 DEF Works
<1>6. ASSUME NEW l \in Lots, SyncLot(l) PROVE [Book!Next]_Book!vars
  BY <1>1, <1>6 DEF SyncLot
<1>7. ASSUME NEW l \in Lots, StopFills(l) PROVE [Book!Next]_Book!vars
  BY <1>3, <1>7 DEF StopFills
<1>8. CASE UNCHANGED vars
  BY <1>1, <1>8 DEF vars
<1> QED
  BY <1>5, <1>6, <1>7, <1>8 DEF Next

\* Nor do they after a step.
LEMMA AloneNext == ASSUME ExecutionAssumption, Serial, Ordered' PROVE Alone'
<1> SUFFICES ASSUME NEW r \in Runs, NEW q \in Runs, r # q, Pair[r] = Pair[q],
                    at'[r] # "waiting", at'[q] # "waiting"
             PROVE  at'[r] = "done" \/ at'[q] = "done"
  BY DEF Alone, Inactive
<1>1. Batch[r] \in Nat /\ Batch[q] \in Nat
  BY DEF ExecutionAssumption
<1>2. Batch[r] # Batch[q] /\ Batch[r] # 0 /\ Batch[q] # 0
  BY DEF Serial
<1>3. Batch[r] \in 1..(Batch[q] - 1) \/ Batch[q] \in 1..(Batch[r] - 1)
  BY <1>1, <1>2
<1> QED
  BY <1>3 DEF Ordered

\* Execution keeps the promise of the gates, when the runs of a pair follow each
\* other: each filled order is an entry of the book, which holds one position per
\* pair and the day's limit of orders until the first call fails.
THEOREM ImplementsBook == ASSUME Serial PROVE Spec => Implements
<1> DEFINE Ok == /\ GatesSee /\ Ordered /\ Traced /\ Exact /\ (faults = 0 => Free)
<1>1. Init => Ok
  BY InitTraced DEF Init, GatesSee, Ordered, Free, Exact, Deciding
<1>2. Inv /\ Inv' /\ Ok /\ [Next]_vars => Ok'
  <2> SUFFICES ASSUME Inv, Inv', Ok, [Next]_vars PROVE Ok'
    OBVIOUS
  <2>1. TypeOK /\ Alone
    BY AloneHolds, ExecutionAssumption DEF Inv
  <2>2. GatesSee' /\ Traced'
    BY SeeStep, TraceStep, ExecutionAssumption
  <2>3. Ordered'
    BY <2>1, OrderStep, ExecutionAssumption
  <2>4. Alone'
    BY <2>3, AloneNext, ExecutionAssumption
  <2>5. Exact'
    BY <2>1, <2>4, ExactStep, ExecutionAssumption
  <2>6. faults' = 0 => Free'
    BY <2>1, FaultsStay, FreeStep, ExecutionAssumption
  <2> QED
    BY <2>2, <2>3, <2>5, <2>6
<1>3. Init => Book!Init
  BY InitBook, ExecutionAssumption
<1>4. Inv /\ Ok /\ [Next]_vars => [Book!Next]_Book!vars
  BY BookStep, ExecutionAssumption
<1> QED
  BY <1>1, <1>2, <1>3, <1>4, Always, PTL DEF Spec, Implements, Book!Spec
=============================================================================
