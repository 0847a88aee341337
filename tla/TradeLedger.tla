----------------------------- MODULE TradeLedger -----------------------------
(***************************************************************************)
(* The trade ledger of BrokerAI and the synchronisation that keeps it in   *)
(* step with the OANDA account.  Two operating-system processes, the       *)
(* orchestrator and the web API, share one Postgres database: the table    *)
(* broker_lots (row) and the broker_sync_state document (doc: the cursor   *)
(* and the lock lease).  Each runs run_broker_sync, on a timer and after   *)
(* every order it places or closes.                                        *)
(*                                                                         *)
(* A step is one REST call, or one half of a database transaction: every   *)
(* repository method selects a document, changes the copy and writes it    *)
(* back whole, without a row lock, at the default isolation level, so any  *)
(* other step may come between the read (tx, seen, opSeen) and the write.  *)
(*                                                                         *)
(* Time is abstract: a lease may lapse while its sync runs (Overrun), and  *)
(* an hour without a sync is the action Outage.                            *)
(***************************************************************************)
EXTENDS Naturals, FiniteSets

CONSTANTS
    Procs,        \* the processes that run run_broker_sync
    Orchestrator, \* the one that runs the bots: places and closes by strategy
    Trades,       \* OANDA trade ids
    Keys,         \* (pair, direction) combinations
    Key,          \* Key[t]: the pair and direction of trade t
    MaxTxn,       \* bound on OANDA transactions
    MaxOps,       \* bound on orders placed and lots picked to be closed
    MaxFaults,    \* bound on crashes and failed calls
    MaxOverruns,  \* bound on syncs that outlive their lease
    MaxOutages    \* bound on long pauses of the synchronisation

Nobody  == "nobody"
Dead    == "dead process"    \* a holder whose process id no longer runs
NoTrade == "no trade"

ASSUME LedgerAssumption ==
    /\ Orchestrator \in Procs
    /\ Nobody \notin Procs /\ Dead \notin Procs /\ NoTrade \notin Trades
    /\ Key \in [Trades -> Keys]
    /\ {MaxTxn, MaxOps, MaxFaults, MaxOverruns, MaxOutages} \subseteq Nat

VARIABLES
    lastTxn,   \* OANDA: id of the last transaction of the account
    openTxn,   \* OANDA: openTxn[t], the transaction that opened t (0: none)
    closeTxn,  \* OANDA: closeTxn[t], the transaction that closed t (0: none)
    row,       \* broker_lots: the ledger row of each trade
    doc,       \* broker_sync_state: cursor, holder, live lease, stale sync
    up,        \* up[p]: process p is running
    pc,        \* pc[p]: where p is in run_broker_sync
    from,      \* from[p]: its cursor_before (0: it takes a full snapshot)
    at,        \* at[p]: the lastTransactionID its poll returned
    live,      \* live[p]: its live_open_lots
    lots,      \* lots[p]: its broker_lots, <<trade, state>>
    todo,      \* todo[p]: what is left of the loop it is in
    tx,        \* tx[p]: the row transaction of its sync, read and not written
    seen,      \* seen[p]: the document its sync read and has not yet written
    opPc,      \* opPc[p]: where p is in placing or closing a lot
    opTrade,   \* opTrade[p]: the trade of that operation
    opLot,     \* opLot[p]: the state and strategy of the lot it holds
    opSeen,    \* opSeen[p]: the row that operation read and has not yet written
    count      \* counters for the bounds

broker  == <<lastTxn, openTxn, closeTxn>>
syncs   == <<pc, from, at, live, lots, todo, tx, seen>>
ops     == <<opPc, opTrade, opLot, opSeen>>
vars    == <<broker, row, doc, up, syncs, ops, count>>

LotStates == {"open", "closed"}
Reasons   == {"", "inferred", "manual_close", "strategy_exit"}
Rows      == [state : LotStates \cup {"none"}, strat : BOOLEAN, reason : Reasons]
Held      == [state : LotStates, strat : BOOLEAN]
NoLot     == [state |-> "open", strat |-> FALSE]
NoRow     == [state |-> "none", strat |-> FALSE, reason |-> ""]
Docs      == [made : BOOLEAN, cursor : Nat, holder : Procs \cup {Nobody, Dead},
              live : BOOLEAN, stale : BOOLEAN]
Bounded   == {"ops", "faults", "overruns", "outages"}

\* The steps of run_broker_sync between acquiring the lease and giving it up.
Critical == {"locked", "polled", "upsert", "enrich", "drop", "dups", "commit",
             "error", "release"}
-----------------------------------------------------------------------------
(* The account as OANDA reports it up to transaction n.                    *)

IsLive(t)      == openTxn[t] > 0 /\ closeTxn[t] = 0
LiveAt(n)      == {t \in Trades : /\ openTxn[t] \in 1..n
                                  /\ closeTxn[t] = 0 \/ closeTxn[t] > n}
OpenedIn(m, n) == {t \in Trades : openTxn[t] > m /\ openTxn[t] <= n}
ClosedIn(m, n) == {t \in Trades : closeTxn[t] > m /\ closeTxn[t] <= n}
As(ts, st)     == ts \X {st}

OpenRows  == {t \in Trades : row[t].state = "open"}
HasRow(t) == row[t].state # "none"

\* What upsert_lot(preserve_overlay=True) makes of the row it read: the
\* document is replaced, the strategy overlay survives, its reason does not.
MergedMutant(was, st, why) == [state |-> st, reason |-> why] \* mutant: overlay lost
MergedFinal(was, st, why) ==  \* mutant: a closed row is never opened again
    [was EXCEPT !.state = IF @ = "closed" THEN @ ELSE st, !.reason = why]
Merged(was, st, why) == [state |-> st, strat |-> was.strat, reason |-> why]

\* What BrokerLotsRepository.close_lot makes of it, whatever its state.
ShutMutant(was, why) == [was EXCEPT !.reason = why]  \* mutant: state forgotten
Shut(was, why) == [was EXCEPT !.state = "closed", !.reason = why]

\* Two transactions insert the same lot: uq_broker_lots_natural.
Conflict(t, was) == was.state = "none" /\ row[t].state # "none"

\* enrich_lot_from_events on a lot of the broker, which carries no reason:
\* "inferred" is any reason that can be read off the events.
Inferred(st) == IF st = "closed" THEN "inferred" ELSE ""

\* What the transactions on broker_sync_state make of the document they read.
Leased(d, p) == [d EXCEPT !.made = TRUE, !.holder = p, !.live = TRUE]
Moved(d, c)  == [d EXCEPT !.cursor = c, !.stale = FALSE]
Noted(d)     == [d EXCEPT !.stale = FALSE]
Freed(d)     == [d EXCEPT !.holder = Nobody, !.live = FALSE]

Goto(p, l) == pc' = [pc EXCEPT ![p] = l]

\* The local variables of a sync go with it.
Forget(p) ==
    /\ from' = [from EXCEPT ![p] = 0]
    /\ at'   = [at EXCEPT ![p] = 0]
    /\ live' = [live EXCEPT ![p] = {}]
    /\ lots' = [lots EXCEPT ![p] = {}]
    /\ todo' = [todo EXCEPT ![p] = {}]
    /\ tx'   = [tx EXCEPT ![p] = {}]

OpDone(p) ==
    /\ opPc' = [opPc EXCEPT ![p] = "idle"]
    /\ opTrade' = [opTrade EXCEPT ![p] = NoTrade]
    /\ opLot' = [opLot EXCEPT ![p] = NoLot]
    /\ opSeen' = [opSeen EXCEPT ![p] = {}]

\* The operation that waits for this sync returns with it.
SyncReturns(p) == IF opPc[p] = "syncing" THEN OpDone(p) ELSE UNCHANGED ops

Counted(k, bound) == count[k] < bound /\ count' = [count EXCEPT ![k] = @ + 1]

-----------------------------------------------------------------------------
Init ==
    /\ lastTxn = 1
    /\ openTxn = [t \in Trades |-> 0]
    /\ closeTxn = [t \in Trades |-> 0]
    /\ row = [t \in Trades |-> NoRow]
    /\ doc = [made |-> FALSE, cursor |-> 0, holder |-> Nobody,
              live |-> FALSE, stale |-> FALSE]
    /\ up = [p \in Procs |-> TRUE]
    /\ pc = [p \in Procs |-> "idle"]
    /\ from = [p \in Procs |-> 0] /\ at = [p \in Procs |-> 0]
    /\ live = [p \in Procs |-> {}]
    /\ lots = [p \in Procs |-> {}] /\ todo = [p \in Procs |-> {}]
    /\ tx = [p \in Procs |-> {}] /\ seen = [p \in Procs |-> {}]
    /\ opPc = [p \in Procs |-> "idle"]
    /\ opTrade = [p \in Procs |-> NoTrade]
    /\ opLot = [p \in Procs |-> NoLot]
    /\ opSeen = [p \in Procs |-> {}]
    /\ count = [k \in Bounded |-> 0]

-----------------------------------------------------------------------------
(* run_broker_sync.                                                        *)

\* Take the process-wide _SYNC_LOCK and read the cursor: for the timer, or for
\* the operation that waits for its forced sync.
SyncStart(p) ==
    /\ up[p] /\ pc[p] = "idle"
    /\ Goto(p, "lease")
    /\ from' = [from EXCEPT ![p] = doc.cursor]
    /\ \/ UNCHANGED opPc
       \/ opPc[p] = "resync" /\ opPc' = [opPc EXCEPT ![p] = "syncing"]
    /\ UNCHANGED <<broker, row, doc, up, at, live, lots, todo, tx, seen,
                   opTrade, opLot, opSeen, count>>

\* try_acquire_sync_lock: free, expired, or already ours.
LockFreeMutant(p) == doc.holder \in {Nobody, p}  \* mutant: no expiry
LockFree(p) == doc.holder \in {Nobody, p} \/ ~doc.live

\* The first half of the transactions on the document: try_acquire_sync_lock,
\* set_state with the new cursor or with the error, release_sync_lock.
ReadState(p) ==
    /\ pc[p] \in {"lease", "commit", "error", "release"} /\ seen[p] = {}
    /\ pc[p] = "lease" => LockFree(p)
    /\ pc[p] = "release" => doc.holder = p
    /\ seen' = [seen EXCEPT ![p] = {doc}]
    /\ UNCHANGED <<broker, row, doc, up, pc, from, at, live, lots, todo, tx, ops,
                   count>>

WriteState(p, d) == doc' = d /\ seen' = [seen EXCEPT ![p] = {}]

\* The lease is written; a second insert of the document is tried again.
AcquireLease(p) ==
    /\ pc[p] = "lease"
    /\ \E d \in seen[p] :
          IF ~d.made /\ doc.made
          THEN seen' = [seen EXCEPT ![p] = {}] /\ UNCHANGED <<doc, pc>>
          ELSE /\ WriteState(p, Leased(d, p))
               /\ Goto(p, "locked")
    /\ UNCHANGED <<broker, row, up, from, at, live, lots, todo, tx, ops, count>>

\* skipped_reason="lock_held", the forced sync of an operation included.
SkipLockHeld(p) ==
    /\ pc[p] = "lease" /\ seen[p] = {} /\ ~LockFree(p)
    /\ Goto(p, "idle") /\ Forget(p) /\ SyncReturns(p)
    /\ UNCHANGED <<broker, row, doc, up, seen, count>>

\* repair_stale_cursor_if_needed fetches the transactions since the cursor and
\* returns the last of them as the cursor to poll from.
CursorBefore(p) == IF doc.stale /\ from[p] # 0 THEN lastTxn ELSE from[p]

\* The poll: GET /changes, or GET /accounts/{id} when there is no cursor or a
\* full sync was asked for.
Poll(p) ==
    /\ pc[p] = "locked"
    /\ Goto(p, "polled")
    /\ \E c \in {CursorBefore(p), 0} : from' = [from EXCEPT ![p] = c]
    /\ at' = [at EXCEPT ![p] = lastTxn]
    /\ UNCHANGED <<broker, row, doc, up, live, lots, todo, tx, seen, ops, count>>

\* What a full sync collects: the open trades of the account document, then,
\* by a later call, every closed trade; the closed one wins for the same id.
FullLive(p) == LiveAt(at[p]) \ ClosedIn(0, lastTxn)
FullLots(p) == As(FullLive(p), "open") \cup As(ClosedIn(0, lastTxn), "closed")

\* What an incremental sync collects from the changes since its cursor.
ChangedLots(p) == As(OpenedIn(from[p], at[p]), "open")
                    \cup As(ClosedIn(from[p], at[p]), "closed")

\* The live open lots an incremental sync may end with: those of the poll; a
\* later snapshot of the open trades, when the poll only held stubs or live
\* prices were asked for; the lots opened in the batch when the poll shows no
\* open trade at all.
LiveChoicesMutant(p) == {OpenedIn(from[p], at[p])}  \* mutant: the batch only
LiveChoices(p) ==
    LET polled == LiveAt(at[p])
        opened == OpenedIn(from[p], at[p])
        parsed == IF polled # {} THEN polled ELSE opened
        later  == LiveAt(lastTxn)
    IN  {parsed, IF later # {} THEN later ELSE parsed}
          \cup (IF parsed = {} THEN {later} ELSE {})
          \cup (IF polled # {} /\ later = {} THEN {opened} ELSE {})

\* _merge_live_open_into_broker_lots.
MergedLots(p, open) ==
    LET batch == {l[1] : l \in ChangedLots(p)}
    IN  ChangedLots(p) \cup As(open \ batch, "open")

\* The second REST call; the loop over broker_lots begins.
Collect(p) ==
    /\ pc[p] = "polled"
    /\ Goto(p, "upsert")
    /\ IF from[p] = 0
       THEN /\ live' = [live EXCEPT ![p] = FullLive(p)]
            /\ lots' = [lots EXCEPT ![p] = FullLots(p)]
       ELSE \E open \in LiveChoices(p) :
               /\ live' = [live EXCEPT ![p] = open]
               /\ lots' = [lots EXCEPT ![p] = MergedLots(p, open)]
    /\ todo' = [todo EXCEPT ![p] = lots'[p]]
    /\ from' = [from EXCEPT ![p] = 0]
    /\ UNCHANGED <<broker, row, doc, up, at, tx, seen, ops, count>>

\* The next lot of a loop over broker_lots: trades opened come before closed.
NextLot(p) == {l \in todo[p] : l[2] = "closed" => <<l[1], "open">> \notin todo[p]}

\* The first half of upsert_lot and of close_lot on the next lot of the loop.
ReadRow(p) ==
    /\ pc[p] \in {"upsert", "enrich", "drop", "dups"} /\ tx[p] = {}
    /\ \E l \in NextLot(p) :
          tx' = [tx EXCEPT ![p] = {[lot |-> l, was |-> row[l[1]]]}]
    /\ UNCHANGED <<broker, row, doc, up, pc, from, at, live, lots, todo, seen,
                   ops, count>>

WriteRow(p, t, new) == row' = [row EXCEPT ![t] = new]
                         /\ tx' = [tx EXCEPT ![p] = {}]

Finished(p, x) == todo' = [todo EXCEPT ![p] = @ \ {x.lot}]

\* Both loops upsert each lot as the broker reported it, the second with the
\* close reason inferred from its events.
UpsertLot(p) ==
    /\ pc[p] \in {"upsert", "enrich"}
    /\ \E x \in tx[p] :
          LET why == IF pc[p] = "upsert" THEN "" ELSE Inferred(x.lot[2])
          IN  /\ ~Conflict(x.lot[1], x.was)
              /\ WriteRow(p, x.lot[1], Merged(x.was, x.lot[2], why))
              /\ Finished(p, x)
    /\ UNCHANGED <<broker, doc, up, pc, from, at, live, lots, seen, ops, count>>

\* IntegrityError is not an httpx.HTTPError: only the finally clause runs.
UpsertConflict(p) ==
    /\ pc[p] \in {"upsert", "enrich"}
    /\ \E x \in tx[p] : Conflict(x.lot[1], x.was)
    /\ Goto(p, "release") /\ Forget(p)
    /\ UNCHANGED <<broker, row, doc, up, seen, ops, count>>

\* The events are persisted and the second loop begins.
PersistEvents(p) ==
    /\ pc[p] = "upsert" /\ todo[p] = {}
    /\ Goto(p, "enrich")
    /\ todo' = [todo EXCEPT ![p] = lots[p]]
    /\ lots' = [lots EXCEPT ![p] = {}]
    /\ UNCHANGED <<broker, row, doc, up, from, at, live, tx, seen, ops, count>>

\* reconcile_local_open_against_broker keeps one row of each live pair and
\* direction, one that is live if there is one.
Kept(p) ==
    LET liveKeys == {Key[t] : t \in live[p]}
        group(k) == {t \in OpenRows : Key[t] = k}
    IN  {ks \in SUBSET OpenRows :
           /\ \A t \in ks : Key[t] \in liveKeys
           /\ \A k \in liveKeys :
                /\ group(k) # {} => Cardinality(ks \cap group(k)) = 1
                /\ group(k) \cap live[p] # {} => ks \cap group(k) \subseteq live[p]}

ListExtras(p) ==
    /\ Goto(p, "dups")
    /\ \E ks \in Kept(p) :
          todo' = [todo EXCEPT ![p] = As(OpenRows \ ks, "closed")]

\* It lists the open rows, and those the broker no longer reports; without a
\* live lot there is no reconciliation.
ListDrifted(p) ==
    /\ pc[p] = "enrich" /\ todo[p] = {}
    /\ LET drifted == OpenRows \ live[p]
       IN  IF live[p] = {} THEN Goto(p, "commit") /\ UNCHANGED todo
           ELSE IF drifted = {} THEN ListExtras(p)
           ELSE /\ Goto(p, "drop")
                /\ todo' = [todo EXCEPT ![p] = As(drifted, "closed")]
    /\ UNCHANGED <<broker, row, doc, up, from, at, live, lots, tx, seen, ops,
                   count>>

\* Drifted rows closed, it lists the open rows again, for the extras.
Relist(p) ==
    /\ pc[p] = "drop" /\ todo[p] = {}
    /\ ListExtras(p)
    /\ UNCHANGED <<broker, row, doc, up, from, at, live, lots, tx, seen, ops,
                   count>>

\* close_lot(reason="broker_closed").
CloseDrifted(p) ==
    /\ pc[p] \in {"drop", "dups"}
    /\ \E x \in tx[p] : /\ WriteRow(p, x.lot[1], Shut(x.was, "inferred"))
                        /\ Finished(p, x)
    /\ UNCHANGED <<broker, doc, up, pc, from, at, live, lots, seen, ops, count>>

Reconciled(p) ==
    /\ pc[p] = "dups" /\ todo[p] = {}
    /\ Goto(p, "commit")
    /\ UNCHANGED <<broker, row, doc, up, from, at, live, lots, todo, tx, seen,
                   ops, count>>

\* The transaction the poll returned.
NewCursorMutant(p) == lastTxn  \* mutant: the latest one
NewCursor(p) == at[p]

\* set_state: the cursor moves on.
Commit(p) ==
    /\ pc[p] = "commit"
    /\ \E d \in seen[p] : WriteState(p, Moved(d, NewCursor(p)))
    /\ Goto(p, "release") /\ Forget(p)
    /\ UNCHANGED <<broker, row, up, ops, count>>

\* An exception: an HTTP error is noted by set_state first, a database error
\* or a cancellation is not.
SyncFail(p) ==
    /\ pc[p] \in Critical \ {"error", "release"} /\ Counted("faults", MaxFaults)
    /\ \/ Goto(p, "release")
       \/ pc[p] \in {"locked", "polled", "commit"} /\ Goto(p, "error")
    /\ Forget(p) /\ seen' = [seen EXCEPT ![p] = {}]
    /\ UNCHANGED <<broker, row, doc, up, ops>>

\* set_state(last_sync_error=...), which renews last_sync_at as well.
NoteError(p) ==
    /\ pc[p] = "error"
    /\ \E d \in seen[p] : WriteState(p, Noted(d))
    /\ Goto(p, "release")
    /\ UNCHANGED <<broker, row, up, from, at, live, lots, todo, tx, ops, count>>

\* finally: release_sync_lock, which leaves another holder's lease alone.
Release(p) ==
    /\ pc[p] = "release"
    /\ \/ \E d \in seen[p] : WriteState(p, Freed(d))
       \/ seen[p] = {} /\ doc.holder # p /\ UNCHANGED <<doc, seen>>
    /\ Goto(p, "idle") /\ SyncReturns(p)
    /\ UNCHANGED <<broker, row, up, from, at, live, lots, todo, tx, count>>

SyncStep(p) ==
    \/ ReadState(p) \/ AcquireLease(p) \/ SkipLockHeld(p) \/ Poll(p)
    \/ Collect(p) \/ ReadRow(p) \/ UpsertLot(p) \/ UpsertConflict(p)
    \/ PersistEvents(p) \/ ListDrifted(p) \/ CloseDrifted(p) \/ Relist(p)
    \/ Reconciled(p) \/ Commit(p) \/ NoteError(p) \/ Release(p)

-----------------------------------------------------------------------------
(* BrokerStateService.place_from_intent and close_lot.                     *)

Opens(t)  == /\ openTxn[t] = 0 /\ lastTxn < MaxTxn
             /\ lastTxn' = lastTxn + 1
             /\ openTxn' = [openTxn EXCEPT ![t] = lastTxn + 1]
             /\ UNCHANGED closeTxn
Closes(t) == /\ IsLive(t) /\ lastTxn < MaxTxn
             /\ lastTxn' = lastTxn + 1
             /\ closeTxn' = [closeTxn EXCEPT ![t] = lastTxn + 1]
             /\ UNCHANGED openTxn

OpGoto(p, l) == opPc' = [opPc EXCEPT ![p] = l]

\* place_market_order fills.
PlaceOrder(p) ==
    /\ p = Orchestrator /\ up[p] /\ opPc[p] = "idle" /\ Counted("ops", MaxOps)
    /\ \E t \in Trades : Opens(t) /\ opTrade' = [opTrade EXCEPT ![p] = t]
    /\ OpGoto(p, "ordered")
    /\ UNCHANGED <<row, doc, up, syncs, opLot, opSeen>>

\* get_broker_trade; without an answer the adapter assumes the lot is open.
FetchPlaced(p) ==
    /\ opPc[p] = "ordered"
    /\ OpGoto(p, "placed")
    /\ \E st \in {"open", IF IsLive(opTrade[p]) THEN "open" ELSE "closed"} :
          opLot' = [opLot EXCEPT ![p] = [state |-> st, strat |-> TRUE]]
    /\ UNCHANGED <<broker, row, doc, up, syncs, opTrade, opSeen, count>>

\* The monitor picks an open lot of a strategy, the web API any open lot; the
\* candles are awaited before _close_lot reads the lot again.
PickLot(p) ==
    /\ up[p] /\ opPc[p] = "idle" /\ Counted("ops", MaxOps)
    /\ \E t \in OpenRows : /\ p = Orchestrator => row[t].strat
                           /\ opTrade' = [opTrade EXCEPT ![p] = t]
    /\ OpGoto(p, "picked")
    /\ UNCHANGED <<broker, row, doc, up, syncs, opLot, opSeen>>

Why(p) == IF p = Orchestrator THEN "strategy_exit" ELSE "manual_close"

\* A lot closed meanwhile the service returns as it is; the _close_lot of the
\* monitor calls BrokerLotsRepository.close_lot on it.
ReadLot(p) ==
    /\ opPc[p] = "picked"
    /\ IF row[opTrade[p]].state = "open"
       THEN /\ OpGoto(p, "closing")
            /\ opLot' = [opLot EXCEPT ![p] =
                            [state |-> "open", strat |-> row[opTrade[p]].strat]]
            /\ UNCHANGED <<opTrade, opSeen>>
       ELSE IF p = Orchestrator
       THEN OpGoto(p, "relabel") /\ UNCHANGED <<opTrade, opLot, opSeen>>
       ELSE OpDone(p)
    /\ UNCHANGED <<broker, row, doc, up, syncs, count>>

\* close_broker_trade; a trade OANDA has closed already answers with an error.
CloseTrade(p) ==
    /\ opPc[p] = "closing"
    /\ \/ /\ Closes(opTrade[p]) /\ OpGoto(p, "closed")
          /\ UNCHANGED <<opTrade, opLot, opSeen>>
       \/ ~IsLive(opTrade[p]) /\ OpDone(p) /\ UNCHANGED broker
    /\ UNCHANGED <<row, doc, up, syncs, count>>

\* The first half of upsert_lot, apply_strategy_overlay and close_lot.
OpReadRow(p) ==
    /\ opPc[p] \in {"placed", "closed", "annotate", "relabel"} /\ opSeen[p] = {}
    /\ opSeen' = [opSeen EXCEPT ![p] = {row[opTrade[p]]}]
    /\ UNCHANGED <<broker, row, doc, up, syncs, opPc, opTrade, opLot, count>>

OpWriteRow(p, new) ==
    /\ row' = [row EXCEPT ![opTrade[p]] = new]
    /\ opSeen' = [opSeen EXCEPT ![p] = {}]
    /\ UNCHANGED <<broker, doc, up, syncs, opTrade, opLot, count>>

\* upsert_lot(preserve_overlay=False) with the strategy of the intent.
UpsertPlaced(p) ==
    /\ opPc[p] = "placed"
    /\ \E was \in opSeen[p] : ~Conflict(opTrade[p], was)
    /\ OpWriteRow(p, [state |-> opLot[p].state, strat |-> opLot[p].strat,
                      reason |-> ""])
    /\ OpGoto(p, "resync")

\* The row of the closed lot, with the strategy of the lot that was read, then
\* its close_metadata, then the forced sync.
ClosedRow(p, was) ==
    [state |-> "closed", strat |-> was.strat \/ opLot[p].strat, reason |-> Why(p)]

UpsertClosed(p) ==
    /\ opPc[p] = "closed"
    /\ \E was \in opSeen[p] : OpWriteRow(p, ClosedRow(p, was))
    /\ OpGoto(p, "annotate")

Annotate(p) ==
    /\ opPc[p] = "annotate"
    /\ \E was \in opSeen[p] : OpWriteRow(p, was)
    /\ OpGoto(p, "resync")

Relabel(p) ==
    /\ opPc[p] = "relabel"
    /\ \E was \in opSeen[p] :
          row' = [row EXCEPT ![opTrade[p]] = Shut(was, Why(p))]
    /\ OpDone(p)
    /\ UNCHANGED <<broker, doc, up, syncs, count>>

\* The insert conflicts, or the database or get_broker_trade fails after the
\* order went through.
OpFail(p) ==
    /\ \/ /\ opPc[p] = "placed" /\ \E was \in opSeen[p] : Conflict(opTrade[p], was)
          /\ UNCHANGED count
       \/ /\ opPc[p] \in {"ordered", "placed", "closing", "closed", "annotate"}
          /\ Counted("faults", MaxFaults)
    /\ OpDone(p)
    /\ UNCHANGED <<broker, row, doc, up, syncs>>

OpStep(p) ==
    \/ PlaceOrder(p) \/ FetchPlaced(p) \/ PickLot(p) \/ ReadLot(p)
    \/ CloseTrade(p) \/ OpReadRow(p) \/ UpsertPlaced(p) \/ UpsertClosed(p)
    \/ Annotate(p) \/ Relabel(p) \/ OpFail(p)

-----------------------------------------------------------------------------
(* The world around: OANDA, time, and the processes themselves.            *)

\* A trade opened at OANDA by other means, and a stop loss that fills.
OpenElsewhere(t) ==
    Opens(t) /\ UNCHANGED <<row, doc, up, syncs, ops, count>>
StopFills(t) ==
    Closes(t) /\ UNCHANGED <<row, doc, up, syncs, ops, count>>

\* A lease runs out in the document and in the copies of it, and so does the
\* lease of a process that died.
Lapse(d, h) == IF d.holder = h THEN [d EXCEPT !.live = FALSE] ELSE d

Expire(h) ==
    /\ doc.holder = h /\ doc.live
    /\ doc' = Lapse(doc, h)
    /\ seen' = [p \in Procs |-> {Lapse(d, h) : d \in seen[p]}]
    /\ UNCHANGED <<broker, row, up, pc, from, at, live, lots, todo, tx, ops>>

Overrun(p)       == /\ pc[p] # "idle" /\ Expire(p)
                    /\ Counted("overruns", MaxOverruns)
LeaseExpires(h)  == /\ h \in Procs => pc[h] = "idle"
                    /\ Expire(h) /\ UNCHANGED count

Orphan(d, p) == IF d.holder = p THEN [d EXCEPT !.holder = Dead] ELSE d

Crash(p) ==
    /\ up[p] /\ Counted("faults", MaxFaults)
    /\ up' = [up EXCEPT ![p] = FALSE]
    /\ Goto(p, "idle") /\ Forget(p) /\ OpDone(p)
    /\ doc' = Orphan(doc, p)
    /\ seen' = [q \in Procs |-> IF q = p THEN {} ELSE {Orphan(d, p) : d \in seen[q]}]
    /\ UNCHANGED <<broker, row>>

Restart(p) ==
    /\ ~up[p]
    /\ up' = [up EXCEPT ![p] = TRUE]
    /\ UNCHANGED <<broker, row, doc, syncs, ops, count>>

\* No sync runs for longer than oanda_cursor_stale_threshold_seconds.
Outage ==
    /\ \A p \in Procs : pc[p] = "idle"
    /\ Counted("outages", MaxOutages)
    /\ doc' = [doc EXCEPT !.stale = doc.made, !.live = FALSE]
    /\ UNCHANGED <<broker, row, up, syncs, ops>>

Environment == \/ \E t \in Trades : OpenElsewhere(t) \/ StopFills(t)
               \/ \E p \in Procs : Overrun(p) \/ Crash(p) \/ Restart(p)
               \/ \E h \in Procs \cup {Dead} : LeaseExpires(h)
               \/ Outage

Next == \/ \E p \in Procs : SyncStart(p) \/ SyncStep(p) \/ SyncFail(p)
                              \/ OpStep(p)
        \/ Environment

Spec == Init /\ [][Next]_vars

\* The timers keep starting syncs, a started sync takes its next step, a dead
\* process is started again by its supervisor, and leases run out.
Fairness == /\ \A p \in Procs : WF_vars(SyncStart(p)) /\ WF_vars(SyncStep(p))
                                  /\ WF_vars(Restart(p))
            /\ \A h \in Procs \cup {Dead} : WF_vars(LeaseExpires(h))

FairSpec == Spec /\ Fairness
-----------------------------------------------------------------------------
(* Properties.                                                             *)

Lots == Trades \X LotStates
PCs  == {"idle", "lease"} \cup Critical
OpPCs == {"idle", "ordered", "placed", "picked", "closing", "closed",
          "annotate", "relabel", "resync", "syncing"}

\* The shape of the state; a transaction in flight is a set of one snapshot.
TypeOK ==
    /\ lastTxn \in Nat
    /\ openTxn \in [Trades -> Nat] /\ closeTxn \in [Trades -> Nat]
    /\ row \in [Trades -> Rows]
    /\ doc \in Docs
    /\ up \in [Procs -> BOOLEAN]
    /\ pc \in [Procs -> PCs]
    /\ from \in [Procs -> Nat] /\ at \in [Procs -> Nat]
    /\ live \in [Procs -> SUBSET Trades]
    /\ lots \in [Procs -> SUBSET Lots] /\ todo \in [Procs -> SUBSET Lots]
    /\ tx \in [Procs -> SUBSET [lot : Lots, was : Rows]]
    /\ seen \in [Procs -> SUBSET Docs]
    /\ opPc \in [Procs -> OpPCs]
    /\ opTrade \in [Procs -> Trades \cup {NoTrade}]
    /\ opLot \in [Procs -> Held]
    /\ opSeen \in [Procs -> SUBSET Rows]
    /\ count \in [Bounded -> Nat]

\* Every trade the account opened up to transaction n has a row.
Covered(n) == \A t \in Trades : openTxn[t] \in 1..n => HasRow(t)

\* The cursor never runs ahead of the ledger: whatever crashes, fails, overruns
\* its lease or is overwritten, no trade opened up to the stored cursor is
\* missing (the next poll would not report it again).  Long outages excepted,
\* for repair_stale_cursor_if_needed moves the cursor on without the changes.
CursorCovered == count["outages"] = 0 => Covered(doc.cursor)

\* A trade that is open at the broker has a row once the cursor has passed it,
\* even after a long outage: the poll reports every open trade.
LiveImported ==
    \A t \in Trades : openTxn[t] \in 1..doc.cursor /\ closeTxn[t] = 0 => HasRow(t)

\* Reconciliation only closes what the broker has closed, or had not opened yet
\* when this sync polled (no two live trades sharing a pair and direction).
DistinctKeys == \A t, u \in Trades : t # u => Key[t] # Key[u]
DriftJustified ==
    DistinctKeys =>
      \A p \in Procs : pc[p] \in {"drop", "dups"} =>
        \A l \in todo[p] : l[1] \in LiveAt(at[p]) => closeTxn[l[1]] # 0

\* The same for two positions in one pair and direction, which the docstring of
\* reconcile_local_open_against_broker promises as well: "Close local open lots
\* that are no longer open on the broker."
DriftJustifiedSameKey ==
    \A p \in Procs : pc[p] \in {"drop", "dups"} =>
        \A l \in todo[p] : l[1] \in LiveAt(at[p]) => closeTxn[l[1]] # 0

\* "Acquire a distributed lease for OANDA account polling": while no sync
\* outlives its lease, only one process is past it.
LeaseExclusive ==
    \A p, q \in Procs : {pc[p], pc[q]} \subseteq Critical => p = q

\* The lots of a strategy keep their strategy ("strategy-level attribution"),
\* whatever the syncs write.
StrategyKept == [][\A t \in Trades : row[t].strat => row'[t].strat]_vars

\* infer_close_reason: "Preserve strategy_exit / manual_close when already set".
\* A row closed by an exit monitor shows that reason again after the syncs.
ReasonKept ==
    \A t \in Trades :
        LET kept == row[t].reason = "strategy_exit" IN [](kept => []<>kept)

\* A trade that stays open at the broker has an open row in the end, and for
\* good, even if a stale poll or a lost update closed the row meanwhile.
LiveHealed ==
    \A t \in Trades : <>[]IsLive(t) => <>[](row[t].state = "open")

\* As long as some other trade is open, every row of a closed trade ends closed
\* and stays so.
DriftHealed ==
    \A t, u \in Trades :
        t # u /\ <>[](IsLive(u) /\ closeTxn[t] # 0) => <>[](row[t].state # "open")

\* What the syncs are for: the rows come to agree with the broker and stay so,
\* whatever crashed, failed or was overwritten meanwhile.
Healed == LiveHealed /\ DriftHealed

\* Every trade is imported in the end, the ones already closed again included,
\* unless no sync ran for an hour.
EventuallyImported ==
    \A t \in Trades : openTxn[t] # 0 ~> HasRow(t) \/ count["outages"] # 0
=============================================================================
