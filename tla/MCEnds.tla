------------------------------- MODULE MCEnds -------------------------------
(* Everything ends: small instances of TaskRunner, Execution and OandaClient *)
(* with failures, checked side by side for what must eventually happen.  The *)
(* initial state chooses the part that runs; the others stay at an initial   *)
(* state of theirs, so that every formula has a value in every state, and    *)
(* faults belongs to two of them.                                            *)
EXTENDS Naturals

CONSTANTS none, r1, r2, r3, l1, l2, l3, ema, macd, eur

VARIABLES
    part,
    active, verdict, kind, owner, worker, how, thrown, gone, local, tokens,
    events, busy, asked, up, count,
    position, row, labelled, order, at, picked, counts, listed, lot, flipped,
    intent, turned, faults,
    current, made, session, lock, opened, closed, call, closes

taskVars == <<active, verdict, kind, owner, worker, how, thrown, gone, local,
              tokens, events, busy, asked, up, count>>
runVars  == <<position, row, labelled, order, at, picked, counts, listed, lot,
              flipped, intent, turned>>
callVars == <<current, made, session, lock, opened, closed, call, closes>>
all      == <<part, taskVars, runVars, callVars, faults>>

\* Two tasks of kinds that exclude themselves, in two processes; a crash may
\* tear the file.
T == INSTANCE TaskRunner WITH
    Procs <- {"orchestrator", "web"}, Tasks <- {"t1", "t2"}, Kinds <- {"research", "sync"},
    Excl <- [k \in {"research", "sync"} |-> {k}], Reports <- {"research"},
    MaxCancels <- 1, MaxFaults <- 1, Torn <- TRUE

\* A batch with two timeframes of one pair and a later run of the first.
X == INSTANCE Execution WITH
    Runs <- {r1, r2, r3}, Lots <- {l1, l2, l3}, Strategies <- {ema, macd},
    Pair <- [r \in {r1, r2, r3} |-> eur],
    Units <- [r \in {r1, r2, r3} |-> IF r = r2 THEN {macd} ELSE {ema}],
    Batch <- [r \in {r1, r2, r3} |-> IF r = r3 THEN 2 ELSE 1],
    Limit <- 1, OnePerPair <- TRUE, MaxTrades <- [s \in {ema, macd} |-> 2],
    Priority <- [s \in {ema, macd} |-> IF s = ema THEN 10 ELSE 50],
    Override <- {macd}, MaxFaults <- 1

\* An order and a read of two bots, one of which stops.
O == INSTANCE OandaClient WITH
    Orders <- {"order"}, Reads <- {"read"}, NoCaller <- none,
    MaxTries <- 3, MaxFaults <- 1, MaxCloses <- 1, MaxSessions <- 2

\* The tasks of a part that does not run are all alike.
Init ==
    /\ part \in {"tasks", "runs", "calls"}
    /\ T!Init /\ X!Init /\ O!Init
    /\ part # "tasks" => \A t \in {"t1", "t2"} : kind[t] = "sync" /\ owner[t] = "web"

Tasks == part = "tasks" /\ T!Next /\ UNCHANGED <<part, runVars, callVars, faults>>
Runs  == part = "runs" /\ X!Next /\ UNCHANGED <<part, taskVars, callVars>>
Calls == part = "calls" /\ O!Next /\ UNCHANGED <<part, taskVars, runVars>>

Next == Tasks \/ Runs \/ Calls

\* The fairness of the three modules, each while it is the part that runs.
Fairness ==
    /\ \A t \in {"t1", "t2"} : WF_taskVars(part = "tasks" /\ T!Works(t))
    /\ \A p \in {"orchestrator", "web"} :
         /\ WF_taskVars(part = "tasks" /\ T!Reconcile(p))
         /\ WF_taskVars(part = "tasks" /\ T!CancelLocal(p))
         /\ WF_taskVars(part = "tasks" /\ T!Restart(p))
    /\ WF_taskVars(part = "tasks" /\ T!GrowsOld)
    /\ \A r \in {r1, r2, r3} : WF_<<runVars, faults>>(part = "runs" /\ X!Works(r))
    /\ \A c \in {"order", "read"} : WF_<<callVars, faults>>(part = "calls" /\ O!Step(c))

Spec == Init /\ [][Next]_all /\ Fairness

\* No record blocks the task runner for ever.
FinallyFree == part = "tasks" => T!FinallyFree

\* Every run comes to its end, whatever fails: no batch blocks the next one.
EveryRunEnds == part = "runs" => X!EveryRunEnds

\* Every request to OANDA ends: no wait for a lock, no retry and no renewal goes
\* on for ever, whoever closes the sessions meanwhile.
EveryCallEnds == part = "calls" => O!EveryCallEnds
=============================================================================
