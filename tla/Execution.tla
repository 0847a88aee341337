------------------------------- MODULE Execution -------------------------------
(***************************************************************************)
(* Trade execution: pipeline runs that have analysed a candle evaluate the *)
(* exit monitors of the open trades of their pair, gate the entry signals  *)
(* against what the ledger says, and place at most one order.              *)
(*                                                                         *)
(* Runs interleave at their awaits.  A run decides on two copies of the    *)
(* ledger, trade counts read when it starts and open pairs read after its  *)
(* exits; the order goes to the broker first and into the ledger after.    *)
(* The sync that copies broker trades into the ledger is SyncLot, an       *)
(* abstraction of TradeLedger: it knows nothing of strategies.             *)
(***************************************************************************)
EXTENDS Naturals, FiniteSets

CONSTANTS
    Runs,       \* runs of process_analysis, or of a manual analysis
    Lots,       \* orders that may be filled
    Strategies,
    Pair,       \* Pair[r]: the symbol of run r
    Units,      \* Units[r]: the strategies with r's pair and timeframe
    Batch,      \* Batch[r]: the batch of the Secretary, 0 for a manual run
    Limit,      \* pipeline_concurrency
    OnePerPair, \* only_one_position_per_pair
    MaxTrades,  \* MaxTrades[s]: max_trades_per_day
    Priority,   \* Priority[s]: lower is better
    Override,   \* the strategies with override_all_strategies
    MaxFaults   \* bound on failed calls after the broker has acted

NoLot == "no lot"
NoStrategy == "no strategy"

\* The Secretary never has two jobs of one pair and timeframe in a batch, and a
\* strategy has one timeframe.
ASSUME ExecutionAssumption ==
    /\ NoLot \notin Lots /\ NoStrategy \notin Strategies
    /\ IsFiniteSet(Lots) /\ IsFiniteSet(Runs)
    /\ Units \in [Runs -> SUBSET Strategies] /\ Batch \in [Runs -> Nat]
    /\ MaxTrades \in [Strategies -> Nat] /\ Priority \in [Strategies -> Nat]
    /\ Override \subseteq Strategies /\ OnePerPair \in BOOLEAN
    /\ Limit \in Nat \ {0} /\ MaxFaults \in Nat /\ DOMAIN Pair = Runs
    /\ \A r, q \in Runs :
          r # q /\ Pair[r] = Pair[q] /\ Batch[r] = Batch[q] /\ Batch[r] # 0
             => Units[r] \cap Units[q] = {}

VARIABLES
    position, \* position[l]: the trade at the broker, "none", "open", "closed"
    row,      \* row[l]: the state of its row in the ledger
    labelled, \* the lots whose row names their strategy
    order,    \* order[l]: the pair and strategy it was placed for
    at,       \* at[r]: where run r is
    picked,   \* picked[r]: its strategies whose analysis is an entry signal
    counts,   \* counts[r]: its copy of the day's trade counts
    listed,   \* listed[r]: open trades whose exit monitors are to be evaluated
    lot,      \* lot[r]: the lot it is closing or recording
    flipped,  \* flipped[r]: its pair is in signal_closed_reasons
    intent,   \* intent[r]: the strategy of its trade intent
    turned,   \* history: runs that closed a trade on its reverse crossover
    faults

ledger == <<row, labelled>>
local  == <<picked, counts, listed, lot, flipped, intent>>
vars   == <<position, ledger, order, at, local, turned, faults>>

Pairs    == {Pair[r] : r \in Runs}
NoOrder  == [pair |-> "none", strategy |-> NoStrategy]
Inactive == {"waiting", "done"}

Init ==
    /\ position = [l \in Lots |-> "none"] /\ row = [l \in Lots |-> "none"]
    /\ labelled = {} /\ order = [l \in Lots |-> NoOrder]
    /\ at = [r \in Runs |-> "waiting"]
    /\ picked = [r \in Runs |-> {}]
    /\ counts = [r \in Runs |-> [s \in Strategies |-> 0]]
    /\ listed = [r \in Runs |-> {}] /\ lot = [r \in Runs |-> NoLot]
    /\ flipped = [r \in Runs |-> FALSE]
    /\ intent = [r \in Runs |-> NoStrategy]
    /\ turned = {} /\ faults = 0

Goto(r, l) == at' = [at EXCEPT ![r] = l]
Fault      == faults < MaxFaults /\ faults' = faults + 1

-----------------------------------------------------------------------------
(* run_jobs: one batch at a time, Limit runs at a time; manual runs come    *)
(* from the web process whenever they like.                                *)

SlotFreeMutant == Cardinality({q \in Runs : Batch[q] # 0 /\ at[q] # "waiting"}) < Limit
SlotFree == Cardinality({q \in Runs : Batch[q] # 0 /\ at[q] \notin Inactive}) < Limit

DueMutant(r) == Batch[r] # 0 => SlotFree  \* mutant: batches overlap
Due(r) == Batch[r] # 0 =>
    SlotFree /\ \A q \in Runs : Batch[q] \in 1..(Batch[r] - 1) => at[q] = "done"

\* daily_lot_counts for the pair of run r.
DailyCountsMutant(r) ==  \* mutant: only open trades count
    [s \in Strategies |-> Cardinality({l \in labelled :
        row[l] = "open" /\ order[l] = [pair |-> Pair[r], strategy |-> s]})]
DailyCounts(r) ==
    [s \in Strategies |-> Cardinality({l \in labelled :
        order[l] = [pair |-> Pair[r], strategy |-> s]})]

Start(r) ==
    /\ at[r] = "waiting" /\ Due(r) /\ Goto(r, "listing")
    /\ \E S \in SUBSET Units[r] : picked' = [picked EXCEPT ![r] = S]
    /\ counts' = [counts EXCEPT ![r] = DailyCounts(r)]
    /\ UNCHANGED <<position, ledger, order, listed, lot, flipped, intent, turned, faults>>

-----------------------------------------------------------------------------
(* sync_exit_monitors                                                      *)

ListOpen(r) ==
    /\ at[r] = "listing" /\ Goto(r, "exits")
    /\ listed' = [listed EXCEPT ![r] =
          {l \in labelled : /\ row[l] = "open" /\ order[l].pair = Pair[r]
                            /\ order[l].strategy \in Units[r]}]
    /\ UNCHANGED <<position, ledger, order, picked, counts, lot, flipped, intent,
                   turned, faults>>

\* No exit signal, or the broker refuses to close a trade that is no longer open.
Keep(r, l) ==
    /\ at[r] = "exits" /\ l \in listed[r]
    /\ listed' = [listed EXCEPT ![r] = @ \ {l}]
    /\ UNCHANGED <<position, ledger, order, at, picked, counts, lot, flipped, intent,
                   turned, faults>>

\* The broker closes the trade of an exit signal.
Exit(r, l, reverse) ==
    /\ at[r] = "exits" /\ l \in listed[r] /\ row[l] = "open" /\ position[l] = "open"
    /\ Goto(r, IF reverse THEN "turning" ELSE "closing")
    /\ position' = [position EXCEPT ![l] = "closed"]
    /\ listed' = [listed EXCEPT ![r] = @ \ {l}]
    /\ lot' = [lot EXCEPT ![r] = l]
    /\ turned' = IF reverse THEN turned \cup {r} ELSE turned
    /\ UNCHANGED <<ledger, order, picked, counts, flipped, intent, faults>>

\* Its row was closed meanwhile: nothing is left to close, but the intent counts.
ExitClosed(r, l, reverse) ==
    /\ at[r] = "exits" /\ l \in listed[r] /\ row[l] = "closed"
    /\ listed' = [listed EXCEPT ![r] = @ \ {l}]
    /\ flipped' = [flipped EXCEPT ![r] = @ \/ reverse]
    /\ UNCHANGED <<position, ledger, order, at, picked, counts, lot, intent, turned,
                   faults>>

RecordExitMutant(r) ==  \* mutant: a reverse crossover is not remembered
    /\ at[r] \in {"turning", "closing"} /\ Goto(r, "exits")
    /\ row' = [row EXCEPT ![lot[r]] = "closed"]
    /\ lot' = [lot EXCEPT ![r] = NoLot]
    /\ UNCHANGED <<position, labelled, order, picked, counts, listed, flipped, intent,
                   turned, faults>>
RecordExit(r) ==
    /\ at[r] \in {"turning", "closing"} /\ Goto(r, "exits")
    /\ row' = [row EXCEPT ![lot[r]] = "closed"]
    /\ flipped' = [flipped EXCEPT ![r] = @ \/ at[r] = "turning"]
    /\ lot' = [lot EXCEPT ![r] = NoLot]
    /\ UNCHANGED <<position, labelled, order, picked, counts, listed, intent, turned,
                   faults>>

\* A call fails after the broker has closed the trade: an exit monitor's error is
\* logged, one of a hold rule ends the run.
ExitFails(r) ==
    /\ at[r] \in {"turning", "closing"} /\ Fault
    /\ \/ Goto(r, "exits")
       \/ at[r] = "closing" /\ Goto(r, "done")
    /\ lot' = [lot EXCEPT ![r] = NoLot]
    /\ UNCHANGED <<position, ledger, order, picked, counts, listed, flipped, intent, turned>>

-----------------------------------------------------------------------------
(* apply_execution_gates                                                   *)

PairOpen(p) == \E l \in Lots : row[l] = "open" /\ order[l].pair = p

\* passes_execution_gates, for the gates that read what other runs write.
PassesMutant(r, s) == ~flipped[r] /\ counts[r][s] <= MaxTrades[s]
                        /\ ~(OnePerPair /\ PairOpen(Pair[r]))
Passes(r, s) == ~flipped[r] /\ counts[r][s] < MaxTrades[s]
                  /\ ~(OnePerPair /\ PairOpen(Pair[r]))

\* resolve_priority_conflicts
Winners(S) ==
    LET pool == IF S \cap Override # {} THEN S \cap Override ELSE S
    IN  {s \in pool : \A u \in pool : Priority[s] <= Priority[u]}

Decide(r) ==
    /\ at[r] = "exits" /\ listed[r] = {}
    /\ LET winners == Winners({s \in picked[r] : Passes(r, s)})
       IN  \/ \E s \in winners : /\ intent' = [intent EXCEPT ![r] = s]
                                 /\ Goto(r, "placing")
           \/ Goto(r, "done") /\ UNCHANGED intent  \* no winner, or not confirmed
    /\ UNCHANGED <<position, ledger, order, picked, counts, listed, lot, flipped, turned,
                   faults>>

-----------------------------------------------------------------------------
(* AssociateWorker: the order is filled, then recorded.                    *)

\* The associate skips the order, or the broker rejects it.
Refuse(r) ==
    /\ at[r] = "placing" /\ Goto(r, "done")
    /\ UNCHANGED <<position, ledger, order, local, turned, faults>>

FillMutant(r) ==  \* mutant: the order does not say whose it is
    /\ at[r] = "placing" /\ Goto(r, "recording")
    /\ \E l \in {x \in Lots : position[x] = "none"} :
          /\ position' = [position EXCEPT ![l] = "open"]
          /\ order' = [order EXCEPT ![l] = [pair |-> Pair[r], strategy |-> NoStrategy]]
          /\ lot' = [lot EXCEPT ![r] = l]
    /\ UNCHANGED <<ledger, picked, counts, listed, flipped, intent, turned, faults>>
Fill(r) ==
    /\ at[r] = "placing" /\ Goto(r, "recording")
    /\ \E l \in {x \in Lots : position[x] = "none"} :
          /\ position' = [position EXCEPT ![l] = "open"]
          /\ order' = [order EXCEPT ![l] = [pair |-> Pair[r], strategy |-> intent[r]]]
          /\ lot' = [lot EXCEPT ![r] = l]
    /\ UNCHANGED <<ledger, picked, counts, listed, flipped, intent, turned, faults>>

RecordMutant(r) ==  \* mutant: the run goes on before the row is written
    /\ at[r] = "recording" /\ Goto(r, "done")
    /\ UNCHANGED <<position, ledger, order, local, turned, faults>>
Record(r) ==
    /\ at[r] = "recording" /\ Goto(r, "done")
    /\ row' = [row EXCEPT ![lot[r]] = "open"]
    /\ labelled' = labelled \cup {lot[r]}
    /\ lot' = [lot EXCEPT ![r] = NoLot]
    /\ UNCHANGED <<position, order, picked, counts, listed, flipped, intent, turned, faults>>

\* The order is filled and the next call fails: the worker reports an error.
RecordFails(r) ==
    /\ at[r] = "recording" /\ Fault /\ Goto(r, "done")
    /\ lot' = [lot EXCEPT ![r] = NoLot]
    /\ UNCHANGED <<position, ledger, order, picked, counts, listed, flipped, intent, turned>>

-----------------------------------------------------------------------------
(* The rest of the world.                                                  *)

SyncLot(l) ==
    /\ position[l] # "none" /\ row[l] # position[l]
    /\ row' = [row EXCEPT ![l] = position[l]]
    /\ UNCHANGED <<position, labelled, order, at, local, turned, faults>>

\* A stop or a take profit fills, or somebody closes the trade by hand.
StopFills(l) ==
    /\ position[l] = "open"
    /\ position' = [position EXCEPT ![l] = "closed"]
    /\ UNCHANGED <<ledger, order, at, local, turned, faults>>

Works(r) ==
    \/ Start(r) \/ ListOpen(r) \/ RecordExit(r) \/ ExitFails(r) \/ Decide(r)
    \/ Refuse(r) \/ Fill(r) \/ Record(r) \/ RecordFails(r)
    \/ \E l \in Lots : \/ Keep(r, l)
                       \/ \E reverse \in BOOLEAN : Exit(r, l, reverse) \/ ExitClosed(r, l, reverse)

Next == \/ \E r \in Runs : Works(r)
        \/ \E l \in Lots : SyncLot(l) \/ StopFills(l)

Spec == Init /\ [][Next]_vars

\* The calls of a run return.
FairSpec == Spec /\ \A r \in Runs : WF_vars(Works(r))

-----------------------------------------------------------------------------
(* Properties.                                                             *)

States    == {"none", "open", "closed"}
Places    == Inactive \cup {"listing", "exits", "turning", "closing", "placing", "recording"}

\* The shape of the state.
TypeOK ==
    /\ position \in [Lots -> States] /\ row \in [Lots -> States]
    /\ labelled \subseteq Lots
    /\ order \in [Lots -> [pair : Pairs, strategy : Strategies] \cup {NoOrder}]
    /\ at \in [Runs -> Places] /\ picked \in [Runs -> SUBSET Strategies]
    /\ counts \in [Runs -> [Strategies -> Nat]] /\ listed \in [Runs -> SUBSET Lots]
    /\ lot \in [Runs -> Lots \cup {NoLot}] /\ flipped \in [Runs -> BOOLEAN]
    /\ intent \in [Runs -> Strategies \cup {NoStrategy}]
    /\ turned \subseteq Runs /\ faults \in Nat

\* passes_open_position_gate, "Block a new entry when the pair already has an
\* open position.": the broker never holds two trades of one pair.
OnePosition ==
    OnePerPair /\ faults = 0 =>
        \A l, k \in Lots :
            l # k /\ position[l] = "open" /\ position[k] = "open"
                => order[l].pair # order[k].pair

\* "same-bar flip entries are blocked": a run that closed a trade on its reverse
\* crossover places no order.
NoFlip == faults = 0 => \A r \in turned : intent[r] = NoStrategy

\* The ledger lags behind the broker only over an order that is being recorded:
\* that is what makes the gates sound.
GatesSee ==
    faults = 0 =>
        \A l \in Lots : position[l] = "open" =>
            \/ l \in labelled /\ row[l] = "open"
            \/ \E r \in Runs : at[r] = "recording" /\ lot[r] = l

\* What the gates promise, as a book of entries.
Book == INSTANCE EntryBook WITH
    sound  <- faults = 0,
    held   <- [p \in Pairs |-> Cardinality({l \in Lots : position[l] = "open"
                                                        /\ order[l].pair = p})],
    orders <- [p \in Pairs |-> [s \in Strategies |-> Cardinality({l \in Lots :
                                 order[l] = [pair |-> p, strategy |-> s]})]]

\* Execution implements the book: each filled order is an entry that it allows.
Implements == Book!Spec

\* Every run comes to its end, whatever fails: no batch blocks the next one.
EveryRunEnds == \A r \in Runs : <>(at[r] = "done")
=============================================================================
