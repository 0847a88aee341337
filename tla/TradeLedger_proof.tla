------------------------- MODULE TradeLedger_proof -------------------------
(***************************************************************************)
(* Proofs about TradeLedger, for any number of processes and trades, any   *)
(* assignment of pairs and any bounds: the state is well typed, the stored *)
(* cursor never passes a trade that is missing from the ledger, and        *)
(* reconciliation closes no row of a trade that is open at the broker.     *)
(***************************************************************************)
EXTENDS TradeLedger, FiniteSetTheorems, TLAPS

\* An operation in progress is about a trade.
OpTyped == \A p \in Procs : opPc[p] # "idle" => opTrade[p] \in Trades

TypeInv == TypeOK /\ OpTyped

LEMMA InitType == ASSUME LedgerAssumption PROVE Init => TypeInv
<1> SUFFICES ASSUME Init PROVE TypeInv
  OBVIOUS
<1>1. doc \in Docs
  BY DEF Init, Docs
<1>2. row \in [Trades -> Rows]
  BY DEF Init, Rows, NoRow, LotStates, Reasons
<1> QED
  BY <1>1, <1>2 DEF Init, TypeInv, TypeOK, OpTyped, PCs, OpPCs, Critical,
     LotStates, Held, NoLot, Bounded

-----------------------------------------------------------------------------
(* What the helpers return.                                                *)

LEMMA LotsTyped ==
    ASSUME TypeOK, NEW p \in Procs
    PROVE  /\ FullLive(p) \in SUBSET Trades /\ FullLots(p) \in SUBSET Lots
           /\ \A open \in LiveChoices(p) :
                 open \in SUBSET Trades /\ MergedLots(p, open) \in SUBSET Lots
<1>1. \A m, n : OpenedIn(m, n) \in SUBSET Trades /\ ClosedIn(m, n) \in SUBSET Trades
                  /\ LiveAt(n) \in SUBSET Trades
  BY DEF OpenedIn, ClosedIn, LiveAt
<1>2. \A ts \in SUBSET Trades, st \in LotStates : As(ts, st) \in SUBSET Lots
  BY DEF As, Lots
<1>3. FullLive(p) \in SUBSET Trades /\ FullLots(p) \in SUBSET Lots
  BY <1>1, <1>2 DEF FullLive, FullLots, LotStates
<1>4. ASSUME NEW open \in LiveChoices(p) PROVE open \in SUBSET Trades
  BY <1>1, <1>4 DEF LiveChoices
<1>5. ChangedLots(p) \in SUBSET Lots
  BY <1>1, <1>2 DEF ChangedLots, LotStates
<1>6. ASSUME NEW open \in LiveChoices(p) PROVE MergedLots(p, open) \in SUBSET Lots
  BY <1>2, <1>4, <1>5 DEF MergedLots, LotStates
<1> QED
  BY <1>3, <1>4, <1>6

LEMMA RowsTyped ==
    ASSUME NEW was \in Rows, NEW st \in LotStates, NEW why \in Reasons
    PROVE  /\ Merged(was, st, why) \in Rows /\ Merged(was, st, why).state = st
           /\ Shut(was, why) \in Rows /\ Shut(was, why).state = "closed"
BY DEF Merged, Shut, Rows, LotStates

LEMMA DocsTyped ==
    ASSUME NEW d \in Docs, NEW p \in Procs, NEW c \in Nat
    PROVE  /\ Leased(d, p) \in Docs /\ Moved(d, c) \in Docs
           /\ Noted(d) \in Docs /\ Freed(d) \in Docs
BY DEF Docs, Leased, Moved, Noted, Freed

LEMMA DriftTyped ==
    ASSUME TypeOK, NEW p \in Procs
    PROVE  /\ todo' = [todo EXCEPT ![p] = As(OpenRows \ live[p], "closed")]
                => todo' \in [Procs -> SUBSET Lots]
           /\ ListExtras(p) => todo' \in [Procs -> SUBSET Lots]
<1>1. \A ts : As(OpenRows \ ts, "closed") \in SUBSET Lots
  BY DEF As, Lots, OpenRows, LotStates
<1>2. ASSUME ListExtras(p) PROVE todo' \in [Procs -> SUBSET Lots]
  <2>1. PICK ks \in Kept(p) :
            todo' = [todo EXCEPT ![p] = As(OpenRows \ ks, "closed")]
    BY <1>2 DEF ListExtras
  <2>2. As(OpenRows \ ks, "closed") \in SUBSET Lots
    BY <1>1
  <2> QED
    BY <2>1, <2>2 DEF TypeOK
<1>3. As(OpenRows \ live[p], "closed") \in SUBSET Lots
  BY <1>1
<1> QED
  BY <1>2, <1>3 DEF TypeOK

\* The snapshot of a row transaction in flight.
LEMMA TxTyped ==
    ASSUME TypeOK, NEW p \in Procs, NEW x \in tx[p]
    PROVE  /\ x.lot \in Lots /\ x.was \in Rows
           /\ x.lot[1] \in Trades /\ x.lot[2] \in LotStates
<1>1. tx[p] \in SUBSET [lot : Lots, was : Rows]
  BY DEF TypeOK
<1>2. x.lot \in Lots /\ x.was \in Rows
  BY <1>1
<1> QED
  BY <1>2 DEF Lots


\* An operation that ends leaves its variables typed.
LEMMA OpEndType ==
    ASSUME TypeInv, NEW p \in Procs, OpDone(p) \/ SyncReturns(p)
    PROVE  /\ opPc' \in [Procs -> OpPCs] /\ opTrade' \in [Procs -> Trades \cup {NoTrade}]
           /\ opLot' \in [Procs -> Held] /\ opSeen' \in [Procs -> SUBSET Rows]
           /\ OpTyped'
<1>1. NoLot \in Held
  BY DEF NoLot, Held, LotStates
<1>2. CASE OpDone(p)
  BY <1>1, <1>2 DEF OpDone, TypeInv, TypeOK, OpTyped, OpPCs
<1>3. CASE UNCHANGED ops
  BY <1>3 DEF ops, TypeInv, TypeOK, OpTyped
<1> QED
  BY <1>2, <1>3 DEF SyncReturns

\* A step of a sync keeps the types.
LEMMA SyncType ==
    ASSUME LedgerAssumption, TypeInv, NEW p \in Procs,
           SyncStart(p) \/ SyncStep(p) \/ SyncFail(p)
    PROVE  TypeInv'
<1> USE DEF TypeInv, TypeOK, OpTyped, broker, syncs, ops
<1>1. CASE SyncStart(p)
  BY <1>1 DEF SyncStart, Goto, PCs, OpPCs, Docs
<1>2. CASE SyncFail(p)
  BY <1>2 DEF SyncFail, Counted, Goto, Forget, PCs, Critical, Bounded
<1>3. CASE ReadState(p)
  BY <1>3 DEF ReadState
<1>4. CASE AcquireLease(p)
  <2>0. PICK d \in seen[p] :
          \/ seen' = [seen EXCEPT ![p] = {}] /\ UNCHANGED <<doc, pc>>
          \/ WriteState(p, Leased(d, p)) /\ Goto(p, "locked")
    BY <1>4 DEF AcquireLease
  <2>1. d \in Docs /\ Leased(d, p) \in Docs
    BY DocsTyped
  <2>3. doc' \in Docs
    BY <2>0, <2>1 DEF WriteState
  <2>4. seen' \in [Procs -> SUBSET Docs]
    BY <2>0 DEF WriteState
  <2>2. pc' \in [Procs -> PCs]
    BY <2>0 DEF Goto, PCs, Critical
  <2> QED
    BY <1>4, <2>2, <2>3, <2>4 DEF AcquireLease
<1>5. CASE SkipLockHeld(p)
  <2>1. /\ opPc' \in [Procs -> OpPCs] /\ opTrade' \in [Procs -> Trades \cup {NoTrade}]
        /\ opLot' \in [Procs -> Held] /\ opSeen' \in [Procs -> SUBSET Rows] /\ OpTyped'
    BY <1>5, OpEndType DEF SkipLockHeld
  <2> QED
    BY <1>5, <2>1 DEF SkipLockHeld, Goto, Forget, PCs
<1>6. CASE Poll(p)
  BY <1>6 DEF Poll, Goto, PCs, Critical, CursorBefore
<1>7. CASE Collect(p)
  <2>1. live' \in [Procs -> SUBSET Trades] /\ lots' \in [Procs -> SUBSET Lots]
    BY <1>7, LotsTyped DEF Collect
  <2> QED
    BY <1>7, <2>1 DEF Collect, Goto, PCs, Critical
<1>8. CASE ReadRow(p)
  BY <1>8 DEF ReadRow, NextLot, Lots
<1>9. CASE UpsertLot(p)
  <2> PICK x \in tx[p] :
        LET why == IF pc[p] = "upsert" THEN "" ELSE Inferred(x.lot[2])
        IN  /\ WriteRow(p, x.lot[1], Merged(x.was, x.lot[2], why))
            /\ Finished(p, x)
    BY <1>9 DEF UpsertLot
  <2> DEFINE why == IF pc[p] = "upsert" THEN "" ELSE Inferred(x.lot[2])
  <2>1. x.was \in Rows /\ x.lot[1] \in Trades /\ x.lot[2] \in LotStates
    BY TxTyped
  <2>2. why \in Reasons
    BY DEF Reasons, Inferred
  <2>3. Merged(x.was, x.lot[2], why) \in Rows
    BY <2>1, <2>2, RowsTyped
  <2>4. row' \in [Trades -> Rows]
    BY <2>1, <2>3 DEF WriteRow
  <2>5. todo' \in [Procs -> SUBSET Lots] /\ tx' = [tx EXCEPT ![p] = {}]
    BY DEF WriteRow, Finished
  <2> HIDE DEF why
  <2> QED
    BY <1>9, <2>4, <2>5 DEF UpsertLot
<1>10. CASE UpsertConflict(p)
  BY <1>10 DEF UpsertConflict, Goto, Forget, PCs, Critical
<1>11. CASE PersistEvents(p)
  BY <1>11 DEF PersistEvents, Goto, PCs, Critical
<1>12. CASE ListDrifted(p)
  <2>1. \/ ListExtras(p) \/ UNCHANGED todo
        \/ todo' = [todo EXCEPT ![p] = As(OpenRows \ live[p], "closed")]
    BY <1>12 DEF ListDrifted
  <2>3. todo' \in [Procs -> SUBSET Lots]
    BY <2>1, DriftTyped
  <2>4. pc' \in [Procs -> PCs]
    BY <1>12 DEF ListDrifted, ListExtras, Goto, PCs, Critical
  <2> QED
    BY <1>12, <2>3, <2>4 DEF ListDrifted
<1>13. CASE Relist(p)
  <2>1. \/ ListExtras(p) \/ UNCHANGED todo
        \/ todo' = [todo EXCEPT ![p] = As(OpenRows \ live[p], "closed")]
    BY <1>13 DEF Relist
  <2>3. todo' \in [Procs -> SUBSET Lots]
    BY <2>1, DriftTyped
  <2>4. pc' \in [Procs -> PCs]
    BY <1>13 DEF Relist, ListExtras, Goto, PCs, Critical
  <2> QED
    BY <1>13, <2>3, <2>4 DEF Relist
<1>14. CASE CloseDrifted(p)
  <2> PICK x \in tx[p] : /\ WriteRow(p, x.lot[1], Shut(x.was, "inferred"))
                        /\ Finished(p, x)
    BY <1>14 DEF CloseDrifted
  <2>1. x.lot[1] \in Trades /\ x.was \in Rows
    BY TxTyped
  <2>2. Shut(x.was, "inferred") \in Rows
    BY <2>1, RowsTyped DEF Reasons, LotStates
  <2>3. row' \in [Trades -> Rows]
    BY <2>1, <2>2 DEF WriteRow
  <2> QED
    BY <1>14, <2>3 DEF CloseDrifted, WriteRow, Finished
<1>15. CASE Reconciled(p)
  BY <1>15 DEF Reconciled, Goto, PCs, Critical
<1>16. CASE Commit(p)
  <2>0. PICK d \in seen[p] : WriteState(p, Moved(d, at[p]))
    BY <1>16 DEF Commit, NewCursor
  <2>1. doc' \in Docs /\ seen' \in [Procs -> SUBSET Docs]
    BY <2>0, DocsTyped DEF WriteState
  <2> QED
    BY <1>16, <2>1 DEF Commit, Forget, Goto, PCs, Critical
<1>17. CASE NoteError(p)
  <2>1. doc' \in Docs /\ seen' \in [Procs -> SUBSET Docs]
    BY <1>17, DocsTyped DEF NoteError, WriteState
  <2> QED
    BY <1>17, <2>1 DEF NoteError, Goto, PCs, Critical
<1>18. CASE Release(p)
  <2>1. doc' \in Docs /\ seen' \in [Procs -> SUBSET Docs]
    BY <1>18, DocsTyped DEF Release, WriteState
  <2>2. /\ opPc' \in [Procs -> OpPCs] /\ opTrade' \in [Procs -> Trades \cup {NoTrade}]
        /\ opLot' \in [Procs -> Held] /\ opSeen' \in [Procs -> SUBSET Rows] /\ OpTyped'
    BY <1>18, OpEndType DEF Release
  <2> QED
    BY <1>18, <2>1, <2>2 DEF Release, Goto, PCs, Critical
<1> QED
  BY <1>1, <1>2, <1>3, <1>4, <1>5, <1>6, <1>7, <1>8, <1>9, <1>10, <1>11, <1>12, <1>13, <1>14, <1>15, <1>16, <1>17, <1>18 DEF SyncStep

LEMMA ReadLotType ==
    ASSUME LedgerAssumption, TypeInv, NEW p \in Procs, ReadLot(p)
    PROVE  TypeInv'
<1>1. [state |-> "open", strat |-> row[opTrade[p]].strat] \in Held
  BY DEF ReadLot, Held, Rows, LotStates, TypeInv, TypeOK, OpTyped
<1>2. CASE OpDone(p)
  BY <1>2, OpEndType DEF ReadLot, TypeInv, TypeOK, broker, syncs
<1>3. CASE OpGoto(p, "relabel") /\ UNCHANGED <<opTrade, opLot, opSeen>>
  BY <1>3 DEF ReadLot, OpGoto, OpPCs, TypeInv, TypeOK, OpTyped, broker, syncs
<1>4. CASE /\ OpGoto(p, "closing") /\ UNCHANGED <<opTrade, opSeen>>
           /\ opLot' = [opLot EXCEPT ![p] =
                           [state |-> "open", strat |-> row[opTrade[p]].strat]]
  BY <1>1, <1>4 DEF ReadLot, OpGoto, OpPCs, TypeInv, TypeOK, OpTyped, broker, syncs
<1> QED
  BY <1>2, <1>3, <1>4 DEF ReadLot

\* A step of an operation keeps the types.
LEMMA OpType ==
    ASSUME LedgerAssumption, TypeInv, NEW p \in Procs, OpStep(p)
    PROVE  TypeInv'
<1> USE DEF TypeInv, TypeOK, OpTyped, broker, syncs, ops, OpPCs, Held, NoLot
<1>1. CASE PlaceOrder(p)
  BY <1>1 DEF PlaceOrder, Opens, OpGoto, Counted, Bounded
<1>2. CASE FetchPlaced(p)
  BY <1>2 DEF FetchPlaced, OpGoto, LotStates
<1>3. CASE PickLot(p)
  BY <1>3 DEF PickLot, OpGoto, Counted, Bounded, OpenRows
<1>4. CASE ReadLot(p)
  BY <1>4, ReadLotType
<1>5. CASE CloseTrade(p)
  <2>1. lastTxn' \in Nat /\ closeTxn' \in [Trades -> Nat] /\ UNCHANGED openTxn
    BY <1>5 DEF CloseTrade, Closes
  <2>2. CASE OpGoto(p, "closed") /\ UNCHANGED <<opTrade, opLot, opSeen>>
    BY <1>5, <2>1, <2>2 DEF CloseTrade, OpGoto
  <2>3. CASE OpDone(p)
    BY <1>5, <2>1, <2>3 DEF CloseTrade, OpDone, LotStates
  <2> QED
    BY <1>5, <2>2, <2>3 DEF CloseTrade
<1>6. CASE OpReadRow(p)
  BY <1>6 DEF OpReadRow
<1>7. CASE UpsertPlaced(p)
  <2>1. [state |-> opLot[p].state, strat |-> opLot[p].strat, reason |-> ""] \in Rows
    BY DEF Rows, Reasons, LotStates
  <2> QED
    BY <1>7, <2>1 DEF UpsertPlaced, OpWriteRow, OpGoto
<1>8. CASE UpsertClosed(p)
  <2>1. \A was \in opSeen[p] : ClosedRow(p, was) \in Rows
    BY DEF ClosedRow, Held, Rows, Why, Reasons, LotStates
  <2> QED
    BY <1>8, <2>1 DEF UpsertClosed, OpWriteRow, OpGoto
<1>9. CASE Annotate(p)
  BY <1>9 DEF Annotate, OpWriteRow, OpGoto
<1>10. CASE Relabel(p)
  <2>1. \A was \in opSeen[p] : Shut(was, Why(p)) \in Rows
    BY RowsTyped DEF Why, Reasons, LotStates
  <2> QED
    BY <1>10, <2>1 DEF Relabel, OpDone, LotStates
<1>11. CASE OpFail(p)
  BY <1>11 DEF OpFail, OpDone, Counted, Bounded, LotStates
<1> QED
  BY <1>1, <1>2, <1>3, <1>4, <1>5, <1>6, <1>7, <1>8, <1>9, <1>10, <1>11 DEF OpStep

\* A step of the world around keeps the types.
LEMMA EnvironmentType ==
    ASSUME LedgerAssumption, TypeInv, Environment
    PROVE  TypeInv'
<1> USE DEF TypeInv, TypeOK, OpTyped, broker, syncs, ops
<1>1. ASSUME NEW t \in Trades, OpenElsewhere(t) \/ StopFills(t) PROVE TypeInv'
  BY <1>1 DEF OpenElsewhere, StopFills, Opens, Closes
<1>2. ASSUME NEW h, Expire(h), count' \in [Bounded -> Nat] PROVE TypeInv'
  <2>1. \A d \in Docs : Lapse(d, h) \in Docs
    BY DEF Lapse, Docs
  <2>2. doc' \in Docs
    BY <1>2, <2>1 DEF Expire
  <2>3. seen' \in [Procs -> SUBSET Docs]
    BY <1>2, <2>1 DEF Expire
  <2> QED
    BY <1>2, <2>2, <2>3 DEF Expire
<1>3. ASSUME NEW p \in Procs, Overrun(p) PROVE TypeInv'
  BY <1>2, <1>3 DEF Overrun, Counted, Bounded
<1>4. ASSUME NEW h \in Procs \cup {Dead}, LeaseExpires(h) PROVE TypeInv'
  BY <1>2, <1>4 DEF LeaseExpires
<1>5. ASSUME NEW p \in Procs, Crash(p) PROVE TypeInv'
  <2>1. \A d \in Docs : Orphan(d, p) \in Docs
    BY DEF Orphan, Docs
  <2>2. doc' \in Docs /\ seen' \in [Procs -> SUBSET Docs]
    BY <1>5, <2>1 DEF Crash
  <2> QED
    BY <1>5, <2>2 DEF Crash, Counted, Bounded, Goto, Forget, OpDone, PCs, OpPCs, LotStates, Held, NoLot
<1>6. ASSUME NEW p \in Procs, Restart(p) PROVE TypeInv'
  BY <1>6 DEF Restart
<1>7. CASE Outage
  <2>1. doc' \in Docs
    BY <1>7 DEF Outage, Docs
  <2> QED
    BY <1>7, <2>1 DEF Outage, Counted, Bounded
<1> QED
  BY <1>1, <1>3, <1>4, <1>5, <1>6, <1>7 DEF Environment

LEMMA NextType == ASSUME LedgerAssumption, TypeInv, [Next]_vars PROVE TypeInv'
<1>1. CASE UNCHANGED vars
  BY <1>1 DEF vars, broker, syncs, ops, TypeInv, TypeOK, OpTyped
<1> QED
  BY <1>1, SyncType, OpType, EnvironmentType DEF Next

\* The state is well typed in every reachable state.
THEOREM TypeCorrect == Spec => []TypeOK
<1>1. Init => TypeInv
  BY InitType, LedgerAssumption
<1>2. TypeInv /\ [Next]_vars => TypeInv'
  BY NextType, LedgerAssumption
<1>3. TypeInv => TypeOK
  BY DEF TypeInv
<1> QED
  BY <1>1, <1>2, <1>3, PTL DEF Spec

-----------------------------------------------------------------------------
(* The cursor and the ledger.  CursorCovered is not inductive: a cursor is *)
(* taken from a poll, long before it is stored, and may be stored again    *)
(* from a snapshot of the document.  So every copy of a cursor is covered, *)
(* and a sync under way is on the way to cover the one it will store.      *)

\* The trades that must have a row: all, or after an outage the open ones.
Due(t)  == count["outages"] = 0 \/ closeTxn[t] = 0
Good(n) == \A t \in Trades : openTxn[t] \in 1..n /\ Due(t) => HasRow(t)

DocCover(d) ==
    /\ d.cursor <= lastTxn /\ Good(d.cursor)
    /\ d.stale => count["outages"] > 0

SyncCover(p) ==
    /\ from[p] <= lastTxn /\ at[p] <= lastTxn
    /\ pc[p] \in {"lease", "locked", "polled"} /\ count["outages"] = 0 => Good(from[p])
    /\ pc[p] = "upsert" =>
         \A t \in Trades :
            openTxn[t] \in 1..at[p] /\ Due(t) =>
               HasRow(t) \/ \E st \in LotStates : <<t, st>> \in todo[p]
    /\ pc[p] \in {"enrich", "drop", "dups", "commit"} => Good(at[p])
    /\ \A d \in seen[p] : DocCover(d)

OpCover(p) ==
    opPc[p] = "annotate" =>
        HasRow(opTrade[p]) /\ \A was \in opSeen[p] : was.state # "none"

Ordered == \A t \in Trades : openTxn[t] <= lastTxn /\ closeTxn[t] <= lastTxn

CoverInv ==
    /\ Ordered
    /\ DocCover(doc)
    /\ \A p \in Procs : SyncCover(p) /\ OpCover(p)

\* What every step keeps: rows are never deleted, transactions only grow.
RowsKept == \A t \in Trades : HasRow(t) => HasRow(t)'
Forward  ==
    /\ lastTxn <= lastTxn' /\ Ordered'
    /\ \A t \in Trades : openTxn'[t] = openTxn[t] \/ openTxn'[t] > lastTxn
    /\ \A t \in Trades : closeTxn'[t] = 0 => closeTxn[t] = 0
    /\ count["outages"]' = 0 => count["outages"] = 0

\* A row transaction of a sync or an operation leaves a row behind.
LEMMA RowWritten ==
    ASSUME TypeInv, NEW t, NEW new, new.state # "none",
           row' = [row EXCEPT ![t] = new]
    PROVE  RowsKept
BY DEF RowsKept, HasRow, TypeInv, TypeOK

LEMMA CountKept ==
    ASSUME TypeInv, NEW k \in Bounded, NEW b, Counted(k, b)
    PROVE  count["outages"]' = 0 => count["outages"] = 0
BY DEF Counted, TypeInv, TypeOK, Bounded

LEMMA TxnKept ==
    ASSUME TypeInv, Ordered, NEW t \in Trades,
           Opens(t) \/ Closes(t) \/ UNCHANGED broker
    PROVE  /\ lastTxn <= lastTxn' /\ Ordered'
           /\ \A u \in Trades : openTxn'[u] = openTxn[u] \/ openTxn'[u] > lastTxn
           /\ \A u \in Trades : closeTxn'[u] = 0 => closeTxn[u] = 0
<1> USE DEF TypeInv, TypeOK, Ordered
<1>1. CASE Opens(t)
  BY <1>1 DEF Opens
<1>2. CASE Closes(t)
  BY <1>2 DEF Closes, IsLive
<1>3. CASE UNCHANGED broker
  BY <1>3 DEF broker
<1> QED
  BY <1>1, <1>2, <1>3

\* The rows, the transactions and the counters under a step of a sync.
LEMMA SyncFrame ==
    ASSUME LedgerAssumption, TypeInv, Ordered, NEW p \in Procs,
           SyncStart(p) \/ SyncStep(p) \/ SyncFail(p)
    PROVE  RowsKept /\ Forward /\ UNCHANGED broker
<1>0. ASSUME RowsKept, UNCHANGED <<broker, count>>
      PROVE  RowsKept /\ Forward /\ UNCHANGED broker
  BY <1>0 DEF Forward, broker, Ordered, TypeInv, TypeOK
<1>1. CASE UpsertLot(p)
  <2> PICK x \in tx[p] :
        LET why == IF pc[p] = "upsert" THEN "" ELSE Inferred(x.lot[2])
        IN  WriteRow(p, x.lot[1], Merged(x.was, x.lot[2], why))
    BY <1>1 DEF UpsertLot
  <2> DEFINE why == IF pc[p] = "upsert" THEN "" ELSE Inferred(x.lot[2])
  <2>1. x.was \in Rows /\ x.lot[2] \in LotStates /\ why \in Reasons
    BY TxTyped DEF TypeInv, Reasons, Inferred
  <2>2. Merged(x.was, x.lot[2], why).state # "none"
    BY <2>1, RowsTyped DEF LotStates
  <2>3. RowsKept
    BY <2>2, RowWritten DEF WriteRow
  <2>4. UNCHANGED <<broker, count>>
    BY <1>1 DEF UpsertLot
  <2> QED
    BY <1>0, <2>3, <2>4
<1>2. CASE CloseDrifted(p)
  <2> PICK x \in tx[p] : WriteRow(p, x.lot[1], Shut(x.was, "inferred"))
    BY <1>2 DEF CloseDrifted
  <2>1. x.was \in Rows /\ x.lot[2] \in LotStates
    BY TxTyped DEF TypeInv
  <2>2. Shut(x.was, "inferred").state # "none"
    BY <2>1, RowsTyped DEF Reasons
  <2>3. RowsKept
    BY <2>2, RowWritten DEF WriteRow
  <2> QED
    BY <1>0, <1>2, <2>3 DEF CloseDrifted
<1>3. CASE SyncFail(p)
  <2>1. count["outages"]' = 0 => count["outages"] = 0
    BY <1>3, CountKept DEF SyncFail, Bounded
  <2> QED
    BY <1>3, <2>1 DEF SyncFail, Forward, broker, Ordered, TypeInv, TypeOK, RowsKept, HasRow
<1>4. ASSUME UNCHANGED <<broker, row, count>> PROVE RowsKept /\ Forward /\ UNCHANGED broker
  BY <1>4 DEF Forward, broker, Ordered, TypeInv, TypeOK, RowsKept, HasRow
<1> QED
  BY <1>1, <1>2, <1>3, <1>4 DEF SyncStart, SyncStep, ReadState, AcquireLease, SkipLockHeld,
     Poll, Collect, ReadRow, UpsertConflict, PersistEvents, ListDrifted, Relist,
     Reconciled, Commit, NoteError, Release, SyncReturns

\* The same under a step of an operation.
LEMMA OpFrame ==
    ASSUME LedgerAssumption, TypeInv, Ordered, NEW p \in Procs, OpCover(p), OpStep(p)
    PROVE  RowsKept /\ Forward
<1> USE DEF TypeInv, TypeOK, OpTyped
<1>1. CASE PlaceOrder(p)
  <2>1. PICK t \in Trades : Opens(t)
    BY <1>1 DEF PlaceOrder
  <2>2. count["outages"]' = 0 => count["outages"] = 0
    BY <1>1, CountKept DEF PlaceOrder, Bounded
  <2> QED
    BY <1>1, <2>1, <2>2, TxnKept DEF PlaceOrder, Forward, RowsKept, HasRow
<1>2. CASE PickLot(p)
  <2>1. count["outages"]' = 0 => count["outages"] = 0
    BY <1>2, CountKept DEF PickLot, Bounded
  <2> QED
    BY <1>2, <2>1 DEF PickLot, Forward, RowsKept, HasRow, broker, Ordered
<1>3. CASE CloseTrade(p)
  <2>1. opTrade[p] \in Trades /\ (Closes(opTrade[p]) \/ UNCHANGED broker)
    BY <1>3 DEF CloseTrade
  <2> QED
    BY <1>3, <2>1, TxnKept DEF CloseTrade, Forward, RowsKept, HasRow
<1>4. CASE UpsertPlaced(p)
  <2> DEFINE new == [state |-> opLot[p].state, strat |-> opLot[p].strat, reason |-> ""]
  <2>1. row' = [row EXCEPT ![opTrade[p]] = new] /\ UNCHANGED <<broker, count>>
    BY <1>4 DEF UpsertPlaced, OpWriteRow
  <2>2. new.state # "none"
    BY DEF Held, LotStates
  <2> HIDE DEF new
  <2>3. RowsKept
    BY <2>1, <2>2, RowWritten
  <2> QED
    BY <2>1, <2>3 DEF Forward, broker, Ordered
<1>5. CASE UpsertClosed(p)
  <2>1. PICK was \in opSeen[p] : OpWriteRow(p, ClosedRow(p, was))
    BY <1>5 DEF UpsertClosed
  <2>2. ClosedRow(p, was).state # "none"
    BY DEF ClosedRow
  <2>3. RowsKept
    BY <2>1, <2>2, RowWritten DEF OpWriteRow
  <2> QED
    BY <2>1, <2>3 DEF OpWriteRow, Forward, broker, Ordered
<1>6. CASE Annotate(p)
  <2>1. PICK was \in opSeen[p] : OpWriteRow(p, was)
    BY <1>6 DEF Annotate
  <2>2. RowsKept
    BY <1>6, <2>1, RowWritten DEF OpWriteRow, OpCover, Annotate
  <2> QED
    BY <2>1, <2>2 DEF OpWriteRow, Forward, broker, Ordered
<1>7. CASE Relabel(p)
  <2>1. PICK was \in opSeen[p] : row' = [row EXCEPT ![opTrade[p]] = Shut(was, Why(p))]
    BY <1>7 DEF Relabel
  <2>2. Shut(was, Why(p)).state # "none"
    BY RowsTyped DEF LotStates, Why, Reasons
  <2>3. RowsKept
    BY <2>1, <2>2, RowWritten
  <2> QED
    BY <1>7, <2>3 DEF Relabel, Forward, broker, Ordered
<1>8. CASE OpFail(p)
  <2>1. count["outages"]' = 0 => count["outages"] = 0
    BY <1>8, CountKept DEF OpFail, Bounded
  <2> QED
    BY <1>8, <2>1 DEF OpFail, Forward, RowsKept, HasRow, broker, Ordered
<1>9. CASE FetchPlaced(p) \/ ReadLot(p) \/ OpReadRow(p)
  BY <1>9 DEF FetchPlaced, ReadLot, OpReadRow, Forward, RowsKept, HasRow, broker, Ordered
<1> QED
  BY <1>1, <1>2, <1>3, <1>4, <1>5, <1>6, <1>7, <1>8, <1>9 DEF OpStep

\* And under a step of the world around.
LEMMA EnvironmentFrame ==
    ASSUME LedgerAssumption, TypeInv, Ordered, Environment
    PROVE  RowsKept /\ Forward
<1>1. UNCHANGED row
  BY DEF Environment, OpenElsewhere, StopFills, Overrun, LeaseExpires, Expire, Crash,
         Restart, Outage
<1>2. RowsKept
  BY <1>1 DEF RowsKept, HasRow
<1>3. count["outages"]' = 0 => count["outages"] = 0
  BY CountKept DEF Environment, OpenElsewhere, StopFills, Overrun, LeaseExpires, Expire,
     Crash, Restart, Outage, Bounded
<1>4. \/ UNCHANGED broker
      \/ \E t \in Trades : Opens(t) \/ Closes(t)
  BY DEF Environment, OpenElsewhere, StopFills, Overrun, LeaseExpires, Expire, Crash,
         Restart, Outage
<1> QED
  BY <1>2, <1>3, <1>4, TxnKept DEF Forward, broker, Ordered, TypeInv, TypeOK

\* What is covered stays covered.
LEMMA GoodKept ==
    ASSUME TypeInv, TypeInv', RowsKept, Forward, NEW n \in Nat, n <= lastTxn, Good(n)
    PROVE  Good(n)' /\ n <= lastTxn'
<1>1. lastTxn \in Nat /\ lastTxn' \in Nat /\ openTxn \in [Trades -> Nat]
        /\ openTxn' \in [Trades -> Nat]
  BY DEF TypeInv, TypeOK
<1>2. n <= lastTxn'
  BY <1>1 DEF Forward
<1>3. ASSUME NEW t \in Trades, openTxn'[t] \in 1..n, Due(t)' PROVE HasRow(t)'
  <2>1. openTxn[t] \in 1..n
    <3>1. openTxn'[t] = openTxn[t] \/ openTxn'[t] > lastTxn
      BY DEF Forward
    <3>2. openTxn'[t] <= lastTxn
      BY <1>1, <1>3
    <3> QED
      BY <1>1, <1>3, <3>1, <3>2
  <2>2. Due(t)
    BY <1>3 DEF Due, Forward
  <2> QED
    BY <2>1, <2>2 DEF Good, RowsKept
<1> QED
  BY <1>2, <1>3 DEF Good

LEMMA DocKept ==
    ASSUME TypeInv, TypeInv', RowsKept, Forward, NEW d \in Docs, DocCover(d)
    PROVE  DocCover(d)'
<1>1. d.cursor \in Nat
  BY DEF Docs
<1>2. Good(d.cursor)' /\ d.cursor <= lastTxn'
  BY <1>1, GoodKept DEF DocCover
<1>3. d.stale => count["outages"]' > 0
  BY DEF DocCover, Forward, TypeInv, TypeOK, Bounded
<1> QED
  BY <1>2, <1>3 DEF DocCover

LEMMA SyncKept ==
    ASSUME TypeInv, TypeInv', RowsKept, Forward, NEW q \in Procs, SyncCover(q),
           pc'[q] = pc[q], from'[q] = from[q], at'[q] = at[q], todo'[q] = todo[q],
           \A d \in seen'[q] : DocCover(d)'
    PROVE  SyncCover(q)'
<1>1. from[q] \in Nat /\ at[q] \in Nat
  BY DEF TypeInv, TypeOK
<1>2. from'[q] <= lastTxn' /\ at'[q] <= lastTxn'
  BY <1>1 DEF SyncCover, Forward, TypeInv, TypeOK
<1>3. (pc[q] \in {"lease", "locked", "polled"} /\ count["outages"] = 0 => Good(from[q]))'
  BY <1>1, GoodKept DEF SyncCover, Forward
<1>4. (pc[q] \in {"enrich", "drop", "dups", "commit"} => Good(at[q]))'
  BY <1>1, GoodKept DEF SyncCover
<1>5. ASSUME pc[q] = "upsert", NEW t \in Trades, openTxn'[t] \in 1..at[q], Due(t)'
      PROVE  HasRow(t)' \/ \E st \in LotStates : <<t, st>> \in todo[q]
  <2>0. at[q] <= lastTxn /\ lastTxn \in Nat
    BY DEF SyncCover, TypeInv, TypeOK
  <2>1. openTxn[t] \in 1..at[q]
    <3>1. openTxn'[t] = openTxn[t] \/ openTxn'[t] > lastTxn
      BY DEF Forward
    <3>2. openTxn'[t] \in Nat /\ openTxn'[t] <= lastTxn
      BY <1>1, <1>5, <2>0 DEF TypeInv, TypeOK
    <3> QED
      BY <1>5, <2>0, <3>1, <3>2
  <2>2. Due(t)
    BY <1>5 DEF Due, Forward
  <2> QED
    BY <1>5, <2>1, <2>2 DEF SyncCover, RowsKept
<1> QED
  BY <1>2, <1>3, <1>4, <1>5 DEF SyncCover

\* What the transactions make of a covered document is covered.
LEMMA DocMade ==
    ASSUME NEW d \in Docs, DocCover(d), NEW p \in Procs
    PROVE  /\ DocCover(Leased(d, p)) /\ DocCover(Noted(d)) /\ DocCover(Freed(d))
           /\ \A h : DocCover(Lapse(d, h))
           /\ DocCover(Orphan(d, p))
           /\ \A c \in Nat : c <= lastTxn /\ Good(c) => DocCover(Moved(d, c))
BY DEF DocCover, Docs, Leased, Noted, Freed, Moved, Lapse, Orphan

\* Collecting the lots: every trade that is due up to at[p] has a row, or is
\* one of the lots to upsert.
LEMMA CollectCovers ==
    ASSUME TypeInv, Ordered, NEW p \in Procs, SyncCover(p), Collect(p),
           NEW t \in Trades, openTxn[t] \in 1..at[p], Due(t)
    PROVE  HasRow(t) \/ \E st \in LotStates : <<t, st>> \in todo'[p]
<1> USE DEF TypeInv, TypeOK
<1>1. at[p] \in Nat /\ from[p] \in Nat /\ lastTxn \in Nat /\ at[p] <= lastTxn
  BY DEF SyncCover
<1>2. todo'[p] = lots'[p]
  BY DEF Collect
<1>3. CASE from[p] = 0
  <2>1. lots'[p] = FullLots(p)
    BY <1>3 DEF Collect
  <2>2. t \in FullLive(p) \/ t \in ClosedIn(0, lastTxn)
    BY <1>1 DEF FullLive, LiveAt, ClosedIn, Ordered
  <2>3. <<t, "open">> \in FullLots(p) \/ <<t, "closed">> \in FullLots(p)
    BY <2>2 DEF FullLots, As
  <2> QED
    BY <1>2, <2>1, <2>3 DEF LotStates
<1>4. CASE from[p] # 0
  <2>1. PICK open \in LiveChoices(p) : lots'[p] = MergedLots(p, open)
    BY <1>4 DEF Collect
  <2>2. CASE count["outages"] = 0
    <3>1. Good(from[p])
      BY <2>2 DEF SyncCover, Collect
    <3>2. CASE openTxn[t] <= from[p]
      BY <1>1, <3>1, <3>2 DEF Good
    <3>3. CASE openTxn[t] > from[p]
      <4>1. t \in OpenedIn(from[p], at[p])
        BY <1>1, <3>3 DEF OpenedIn
      <4>2. <<t, "open">> \in MergedLots(p, open)
        BY <4>1 DEF MergedLots, ChangedLots, As
      <4> QED
        BY <1>2, <2>1, <4>2 DEF LotStates
    <3>4. openTxn[t] \in Nat
      OBVIOUS
    <3> HIDE DEF TypeInv, TypeOK
    <3>5. openTxn[t] <= from[p] \/ openTxn[t] > from[p]
      BY <1>1, <3>4
    <3> QED
      BY <3>2, <3>3, <3>5
  <2>3. CASE closeTxn[t] = 0
    <3>1. t \in LiveAt(at[p]) /\ t \in LiveAt(lastTxn)
      BY <1>1, <2>3 DEF LiveAt
    <3>2. t \in open
      BY <2>1, <3>1 DEF LiveChoices
    <3>3. \/ \E l \in ChangedLots(p) : l[1] = t
          \/ <<t, "open">> \in MergedLots(p, open)
      BY <3>2 DEF MergedLots, As
    <3>4. ASSUME NEW l \in ChangedLots(p), l[1] = t
          PROVE  \E st \in LotStates : <<t, st>> \in MergedLots(p, open)
      BY <3>4 DEF MergedLots, ChangedLots, As, LotStates
    <3> QED
      BY <1>2, <2>1, <3>3, <3>4 DEF LotStates
  <2> QED
    BY <2>2, <2>3 DEF Due
<1> QED
  BY <1>3, <1>4

\* A step of a sync keeps the sync itself and the document covered.
LEMMA SyncCovers ==
    ASSUME LedgerAssumption, TypeInv, TypeInv', CoverInv, NEW p \in Procs,
           SyncStart(p) \/ SyncStep(p) \/ SyncFail(p)
    PROVE  SyncCover(p)' /\ DocCover(doc)'
<1>1. RowsKept /\ Forward /\ Ordered /\ SyncCover(p) /\ DocCover(doc)
  BY SyncFrame DEF CoverInv
<1>2. \A d \in Docs : DocCover(d) => DocCover(d)'
  BY <1>1, DocKept
<1>3. doc \in Docs /\ doc' \in Docs /\ seen[p] \in SUBSET Docs /\ doc.cursor \in Nat
  BY DEF TypeInv, TypeOK, Docs
<1>4. ASSUME NEW d \in Docs, DocCover(d), doc' = d PROVE DocCover(doc)'
  <2>1. DocCover(d)'
    BY <1>2, <1>4
  <2> QED
    BY <1>4, <2>1 DEF DocCover, Good, Due, HasRow
<1>5. UNCHANGED doc => DocCover(doc)'
  BY <1>1, <1>3, <1>4
<1>6. \A d \in seen[p] : DocCover(d) /\ DocCover(d)' /\ d \in Docs
  BY <1>1, <1>2, <1>3 DEF SyncCover
<1>7. at[p] \in Nat /\ from[p] \in Nat /\ lastTxn \in Nat /\ lastTxn' \in Nat
        /\ at[p] <= lastTxn /\ from[p] <= lastTxn /\ lastTxn <= lastTxn'
  BY <1>1 DEF SyncCover, Forward, TypeInv, TypeOK
<1>8. SyncStart(p) => SyncCover(p)' /\ DocCover(doc)'
  <2> SUFFICES ASSUME SyncStart(p) PROVE SyncCover(p)'
    BY <1>5 DEF SyncStart
  <2>1. pc'[p] = "lease" /\ from'[p] = doc.cursor /\ at'[p] = at[p] /\ seen'[p] = seen[p]
    BY DEF SyncStart, Goto, TypeInv, TypeOK
  <2>2. Good(doc.cursor) /\ doc.cursor <= lastTxn
    BY <1>1 DEF DocCover
  <2>3. Good(from[p])' /\ from'[p] <= lastTxn'
    BY <1>1, <1>3, <2>1, <2>2, GoodKept DEF Good, Due, HasRow
  <2> QED
    BY <1>6, <1>7, <2>1, <2>3 DEF SyncCover
<1>9. ReadState(p) => SyncCover(p)' /\ DocCover(doc)'
  <2> SUFFICES ASSUME ReadState(p) PROVE SyncCover(p)'
    BY <1>5 DEF ReadState
  <2>1. seen'[p] = {doc} /\ DocCover(doc)'
    BY <1>5 DEF ReadState, TypeInv, TypeOK
  <2>2. \A d \in seen'[p] : DocCover(d)'
    BY <1>1, <1>2, <1>3, <2>1
  <2> QED
    BY <1>1, <2>2, SyncKept DEF ReadState
<1>10. AcquireLease(p) => SyncCover(p)' /\ DocCover(doc)'
  <2> SUFFICES ASSUME AcquireLease(p) PROVE SyncCover(p)' /\ DocCover(doc)'
    OBVIOUS
  <2>1. PICK d \in seen[p] :
          \/ UNCHANGED <<doc, pc>>
          \/ doc' = Leased(d, p) /\ Goto(p, "locked")
    BY DEF AcquireLease, WriteState
  <2>2. DocCover(Leased(d, p)) /\ Leased(d, p) \in Docs
    BY <1>3, <1>6, DocMade, DocsTyped
  <2>3. DocCover(doc)'
    BY <1>4, <1>5, <2>1, <2>2
  <2>4. seen'[p] = {} /\ from'[p] = from[p] /\ at'[p] = at[p] /\ todo'[p] = todo[p]
    BY DEF AcquireLease, WriteState, TypeInv, TypeOK
  <2>5. CASE pc' = pc
    BY <1>1, <2>3, <2>4, <2>5, SyncKept
  <2>6. CASE pc'[p] = "locked"
    <3>1. count["outages"]' = 0 => Good(from[p])'
      BY <1>1, <1>7, GoodKept DEF AcquireLease, SyncCover, Forward
    <3> QED
      BY <1>7, <2>3, <2>4, <2>6, <3>1 DEF SyncCover, Good, Due, HasRow
  <2> QED
    BY <2>1, <2>5, <2>6 DEF Goto, TypeInv, TypeOK
<1>11. Poll(p) => SyncCover(p)' /\ DocCover(doc)'
  <2> SUFFICES ASSUME Poll(p) PROVE SyncCover(p)'
    BY <1>5 DEF Poll
  <2>1. pc'[p] = "polled" /\ at'[p] = lastTxn /\ seen'[p] = seen[p]
          /\ from'[p] \in {CursorBefore(p), 0} /\ UNCHANGED <<broker, row, count>>
    BY DEF Poll, Goto, TypeInv, TypeOK
  <2>2. from'[p] <= lastTxn'
    BY <1>7, <2>1 DEF CursorBefore, broker
  <2>3. count["outages"] = 0 => Good(from'[p])
    <3>1. count["outages"] = 0 => CursorBefore(p) = from[p] /\ Good(from[p])
      BY <1>1 DEF Poll, SyncCover, DocCover, CursorBefore
    <3>2. Good(0)
      BY DEF Good
    <3> QED
      BY <2>1, <3>1, <3>2
  <2> QED
    BY <1>6, <1>7, <2>1, <2>2, <2>3 DEF SyncCover, Good, Due, HasRow, broker
<1>12. Collect(p) => SyncCover(p)' /\ DocCover(doc)'
  <2> SUFFICES ASSUME Collect(p) PROVE SyncCover(p)'
    BY <1>5 DEF Collect
  <2>1. pc'[p] = "upsert" /\ at'[p] = at[p] /\ seen'[p] = seen[p] /\ from'[p] = 0
          /\ UNCHANGED <<broker, row, count>>
    BY DEF Collect, Goto, TypeInv, TypeOK
  <2>2. \A t \in Trades : openTxn[t] \in 1..at[p] /\ Due(t) =>
               HasRow(t) \/ \E st \in LotStates : <<t, st>> \in todo'[p]
    BY <1>1, CollectCovers
  <2>3. (\A t \in Trades : openTxn[t] \in 1..at[p] /\ Due(t) =>
               HasRow(t) \/ \E st \in LotStates : <<t, st>> \in todo[p])'
    BY <2>1, <2>2 DEF Due, HasRow, broker
  <2> QED
    BY <1>6, <1>7, <2>1, <2>3 DEF SyncCover
<1>13. ReadRow(p) => SyncCover(p)' /\ DocCover(doc)'
  BY <1>1, <1>5, <1>6, SyncKept DEF ReadRow
<1>14. ASSUME pc[p] \in {"upsert", "enrich"}, NEW x \in tx[p], NEW new,
              WriteRow(p, x.lot[1], new), Finished(p, x), new.state # "none",
              UNCHANGED <<broker, count, pc, from, at, seen>>
       PROVE  SyncCover(p)'
  <2>1. todo'[p] = todo[p] \ {x.lot} /\ x.lot[1] \in Trades
    BY <1>14, TxTyped DEF Finished, TypeInv, TypeOK
  <2>2. row'[x.lot[1]] = new
    BY <1>14, <2>1 DEF WriteRow, TypeInv, TypeOK
  <2>3. CASE pc[p] = "enrich"
    <3>1. Good(at[p])'
      BY <1>1, <1>7, <1>14, <2>3, GoodKept DEF SyncCover
    <3> QED
      BY <1>6, <1>7, <1>14, <2>3, <3>1 DEF SyncCover, Good, Due, HasRow
  <2>4. CASE pc[p] = "upsert"
    <3>1. ASSUME NEW t \in Trades, openTxn[t] \in 1..at[p], Due(t)
          PROVE  HasRow(t)' \/ \E st \in LotStates : <<t, st>> \in todo'[p]
      <4>1. CASE HasRow(t)
        BY <1>1, <4>1 DEF RowsKept
      <4>2. CASE \E st \in LotStates : <<t, st>> \in todo[p]
        <5>1. PICK st \in LotStates : <<t, st>> \in todo[p]
          BY <4>2
        <5>2. CASE x.lot = <<t, st>>
          BY <1>14, <2>2, <5>2 DEF HasRow
        <5>3. CASE x.lot # <<t, st>>
          BY <2>1, <5>1, <5>3
        <5> QED
          BY <5>2, <5>3
      <4> QED
        BY <1>1, <2>4, <3>1, <4>1, <4>2 DEF SyncCover
    <3> QED
      BY <1>6, <1>7, <1>14, <2>4, <3>1 DEF SyncCover, Due, broker
  <2> QED
    BY <1>14, <2>3, <2>4
<1>15. UpsertLot(p) => SyncCover(p)' /\ DocCover(doc)'
  <2> SUFFICES ASSUME UpsertLot(p) PROVE SyncCover(p)'
    BY <1>5 DEF UpsertLot
  <2> DEFINE why(x) == IF pc[p] = "upsert" THEN "" ELSE Inferred(x.lot[2])
  <2>1. PICK x \in tx[p] : WriteRow(p, x.lot[1], Merged(x.was, x.lot[2], why(x)))
                             /\ Finished(p, x)
    BY DEF UpsertLot
  <2>2. x.was \in Rows /\ x.lot[2] \in LotStates /\ why(x) \in Reasons
    BY TxTyped DEF TypeInv, Reasons, Inferred
  <2>3. Merged(x.was, x.lot[2], why(x)).state # "none"
    BY <2>2, RowsTyped DEF LotStates
  <2> HIDE DEF why
  <2> QED
    BY <1>14, <2>1, <2>3 DEF UpsertLot
<1>16. ASSUME pc'[p] \in {"idle", "release", "error"}, from'[p] \in {0, from[p]},
              at'[p] \in {0, at[p]}, \A d \in seen'[p] : DocCover(d)'
       PROVE  SyncCover(p)'
  BY <1>7, <1>16 DEF SyncCover
<1>17. UpsertConflict(p) \/ SyncFail(p) \/ SkipLockHeld(p) => SyncCover(p)' /\ DocCover(doc)'
  BY <1>5, <1>6, <1>16 DEF UpsertConflict, SyncFail, SkipLockHeld, Goto, Forget, TypeInv, TypeOK
<1>18. ASSUME pc'[p] \in {"enrich", "drop", "dups", "commit"}, Good(at[p]),
              UNCHANGED <<from, at, seen>>
       PROVE  SyncCover(p)'
  <2>1. Good(at[p])'
    BY <1>1, <1>7, <1>18, GoodKept
  <2> QED
    BY <1>6, <1>7, <1>18, <2>1 DEF SyncCover, Good, Due, HasRow
<1>19. PersistEvents(p) => SyncCover(p)' /\ DocCover(doc)'
  <2> SUFFICES ASSUME PersistEvents(p) PROVE SyncCover(p)'
    BY <1>5 DEF PersistEvents
  <2>1. Good(at[p])
    BY <1>1 DEF SyncCover, PersistEvents, Good
  <2> QED
    BY <1>18, <2>1 DEF PersistEvents, Goto, TypeInv, TypeOK
<1>20. ListDrifted(p) \/ Relist(p) \/ Reconciled(p) \/ CloseDrifted(p)
          => SyncCover(p)' /\ DocCover(doc)'
  <2> SUFFICES ASSUME ListDrifted(p) \/ Relist(p) \/ Reconciled(p) \/ CloseDrifted(p)
               PROVE  SyncCover(p)'
    BY <1>5 DEF ListDrifted, Relist, Reconciled, CloseDrifted
  <2>1. Good(at[p])
    BY <1>1 DEF SyncCover, ListDrifted, Relist, Reconciled, CloseDrifted
  <2>2. pc'[p] \in {"enrich", "drop", "dups", "commit"} /\ UNCHANGED <<from, at, seen>>
    BY DEF ListDrifted, Relist, Reconciled, CloseDrifted, ListExtras, Goto, TypeInv, TypeOK
  <2> QED
    BY <1>18, <2>1, <2>2
<1>21. Commit(p) => SyncCover(p)' /\ DocCover(doc)'
  <2> SUFFICES ASSUME Commit(p) PROVE SyncCover(p)' /\ DocCover(doc)'
    OBVIOUS
  <2>1. PICK d \in seen[p] : doc' = Moved(d, at[p])
    BY DEF Commit, WriteState, NewCursor
  <2>2. Good(at[p])
    BY <1>1 DEF SyncCover, Commit
  <2>3. DocCover(Moved(d, at[p])) /\ Moved(d, at[p]) \in Docs
    BY <1>6, <1>7, <2>2, DocMade, DocsTyped
  <2>4. DocCover(doc)'
    BY <1>4, <2>1, <2>3
  <2> QED
    BY <1>16, <2>4 DEF Commit, WriteState, Goto, Forget, TypeInv, TypeOK
<1>22. NoteError(p) \/ Release(p) => SyncCover(p)' /\ DocCover(doc)'
  <2> SUFFICES ASSUME NoteError(p) \/ Release(p) PROVE SyncCover(p)' /\ DocCover(doc)'
    OBVIOUS
  <2>1. \/ \E d \in seen[p] : doc' = Noted(d) \/ doc' = Freed(d)
        \/ UNCHANGED doc
    BY DEF NoteError, Release, WriteState
  <2>2. \A d \in seen[p] : /\ DocCover(Noted(d)) /\ Noted(d) \in Docs
                           /\ DocCover(Freed(d)) /\ Freed(d) \in Docs
    BY <1>3, <1>6, DocMade, DocsTyped
  <2>3. DocCover(doc)'
    BY <1>4, <1>5, <2>1, <2>2
  <2>4. seen'[p] = {} \/ seen'[p] = seen[p]
    BY DEF NoteError, Release, WriteState, TypeInv, TypeOK
  <2> QED
    BY <1>6, <1>16, <2>3, <2>4 DEF NoteError, Release, Goto, TypeInv, TypeOK
<1> QED
  BY <1>8, <1>9, <1>10, <1>11, <1>12, <1>13, <1>15, <1>17, <1>19, <1>20, <1>21, <1>22
     DEF SyncStep

\* A step of a sync touches the variables of its own process alone.
LEMMA SyncLocal ==
    ASSUME TypeInv, NEW p \in Procs, NEW q \in Procs, q # p,
           SyncStart(p) \/ SyncStep(p) \/ SyncFail(p)
    PROVE  /\ pc'[q] = pc[q] /\ from'[q] = from[q] /\ at'[q] = at[q]
           /\ todo'[q] = todo[q] /\ seen'[q] = seen[q] /\ live'[q] = live[q]
<1> DEFINE Same == /\ pc'[q] = pc[q] /\ from'[q] = from[q] /\ at'[q] = at[q]
                   /\ todo'[q] = todo[q] /\ seen'[q] = seen[q] /\ live'[q] = live[q]
<1> SUFFICES Same
  OBVIOUS
<1>0. /\ pc \in [Procs -> PCs] /\ from \in [Procs -> Nat] /\ at \in [Procs -> Nat]
      /\ todo \in [Procs -> SUBSET Lots] /\ seen \in [Procs -> SUBSET Docs]
      /\ live \in [Procs -> SUBSET Trades]
  BY DEF TypeInv, TypeOK
<1>1. Forget(p) => /\ from'[q] = from[q] /\ at'[q] = at[q]
                   /\ todo'[q] = todo[q] /\ live'[q] = live[q]
  BY <1>0 DEF Forget
<1>2. ASSUME NEW l, Goto(p, l) PROVE pc'[q] = pc[q]
  BY <1>0, <1>2 DEF Goto
<1>3. SyncStart(p) \/ ReadState(p) \/ Poll(p) => Same
  BY <1>0 DEF SyncStart, ReadState, Poll, Goto
<1>4. AcquireLease(p) => Same
  BY <1>0 DEF AcquireLease, WriteState, Goto
<1>5. SkipLockHeld(p) \/ UpsertConflict(p) => Same
  BY <1>1, <1>2 DEF SkipLockHeld, UpsertConflict
<1>6. Collect(p) => Same
  BY <1>0, <1>2 DEF Collect
<1>7. ReadRow(p) \/ PersistEvents(p) \/ Reconciled(p) => Same
  BY <1>0, <1>2 DEF ReadRow, PersistEvents, Reconciled
<1>8. UpsertLot(p) \/ CloseDrifted(p) => Same
  BY <1>0 DEF UpsertLot, CloseDrifted, Finished
<1>9. ListExtras(p) => pc'[q] = pc[q] /\ todo'[q] = todo[q]
  BY <1>0, <1>2 DEF ListExtras
<1>10. ListDrifted(p) \/ Relist(p) => Same
  BY <1>0, <1>2, <1>9 DEF ListDrifted, Relist
<1>11. Commit(p) => Same
  BY <1>0, <1>1, <1>2 DEF Commit, WriteState
<1>12. NoteError(p) \/ Release(p) => Same
  BY <1>0, <1>2 DEF NoteError, Release, WriteState
<1>13. SyncFail(p) => Same
  BY <1>0, <1>1, <1>2 DEF SyncFail
<1> HIDE DEF Same
<1> QED
  BY <1>3, <1>4, <1>5, <1>6, <1>7, <1>8, <1>10, <1>11, <1>12, <1>13 DEF SyncStep

\* A sync never brings an operation to its annotation, and leaves alone the
\* one that is there.
LEMMA SyncKeepsAnnotate ==
    ASSUME TypeInv, NEW p \in Procs, NEW q \in Procs,
           SyncStart(p) \/ SyncStep(p) \/ SyncFail(p)
    PROVE  opPc'[q] = "annotate" =>
             opPc[q] = "annotate" /\ opTrade'[q] = opTrade[q] /\ opSeen'[q] = opSeen[q]
<1> DEFINE Keeps ==
      opPc'[q] = "annotate" =>
        opPc[q] = "annotate" /\ opTrade'[q] = opTrade[q] /\ opSeen'[q] = opSeen[q]
<1> SUFFICES Keeps
  OBVIOUS
<1>0. /\ opPc \in [Procs -> OpPCs] /\ opTrade \in [Procs -> Trades \cup {NoTrade}]
      /\ opSeen \in [Procs -> SUBSET Rows]
  BY DEF TypeInv, TypeOK
<1>1. UNCHANGED ops => Keeps
  BY DEF ops
<1>2. SyncReturns(p) => Keeps
  <2>1. OpDone(p) => Keeps
    BY <1>0 DEF OpDone
  <2> QED
    BY <1>1, <2>1 DEF SyncReturns
<1>3. SyncStart(p) => Keeps
  BY <1>0 DEF SyncStart
<1>4. SkipLockHeld(p) \/ Release(p) => Keeps
  BY <1>2 DEF SkipLockHeld, Release
<1> HIDE DEF Keeps
<1>5. ReadState(p) \/ AcquireLease(p) \/ Poll(p) \/ Collect(p) \/ ReadRow(p) => Keeps
  BY <1>1 DEF ReadState, AcquireLease, Poll, Collect, ReadRow
<1>6. UpsertLot(p) \/ UpsertConflict(p) \/ PersistEvents(p) \/ ListDrifted(p) => Keeps
  BY <1>1 DEF UpsertLot, UpsertConflict, PersistEvents, ListDrifted
<1>7. CloseDrifted(p) \/ Relist(p) \/ Reconciled(p) \/ Commit(p) \/ NoteError(p) => Keeps
  BY <1>1 DEF CloseDrifted, Relist, Reconciled, Commit, NoteError
<1>8. SyncFail(p) => Keeps
  BY <1>1 DEF SyncFail
<1> QED
  BY <1>3, <1>4, <1>5, <1>6, <1>7, <1>8 DEF SyncStep

\* A step of an operation touches the variables of its own process alone.
LEMMA OpLocal ==
    ASSUME TypeInv, NEW p \in Procs, NEW q \in Procs, q # p, OpStep(p)
    PROVE  opPc'[q] = opPc[q] /\ opTrade'[q] = opTrade[q] /\ opSeen'[q] = opSeen[q]
<1> DEFINE Same ==
      opPc'[q] = opPc[q] /\ opTrade'[q] = opTrade[q] /\ opSeen'[q] = opSeen[q]
<1> SUFFICES Same
  OBVIOUS
<1>0. /\ opPc \in [Procs -> OpPCs] /\ opTrade \in [Procs -> Trades \cup {NoTrade}]
      /\ opSeen \in [Procs -> SUBSET Rows]
  BY DEF TypeInv, TypeOK
<1>1. OpDone(p) => Same
  BY <1>0 DEF OpDone
<1>2. ASSUME NEW l, OpGoto(p, l) PROVE opPc'[q] = opPc[q]
  BY <1>0, <1>2 DEF OpGoto
<1>3. PlaceOrder(p) \/ FetchPlaced(p) \/ PickLot(p) => Same
  BY <1>0, <1>2 DEF PlaceOrder, FetchPlaced, PickLot
<1>4. ReadLot(p) \/ CloseTrade(p) => Same
  BY <1>1, <1>2 DEF ReadLot, CloseTrade
<1>5. OpReadRow(p) => Same
  BY <1>0 DEF OpReadRow
<1>6. UpsertPlaced(p) \/ UpsertClosed(p) \/ Annotate(p) => Same
  BY <1>0, <1>2 DEF UpsertPlaced, UpsertClosed, Annotate, OpWriteRow
<1>7. Relabel(p) \/ OpFail(p) => Same
  BY <1>1 DEF Relabel, OpFail
<1> HIDE DEF Same
<1> QED
  BY <1>3, <1>4, <1>5, <1>6, <1>7 DEF OpStep

\* A step of a sync leaves the other syncs and all operations as they are.
LEMMA SyncStepCovers ==
    ASSUME LedgerAssumption, TypeInv, TypeInv', CoverInv, NEW p \in Procs,
           SyncStart(p) \/ SyncStep(p) \/ SyncFail(p)
    PROVE  CoverInv'
<1>1. RowsKept /\ Forward /\ Ordered
  BY SyncFrame DEF CoverInv
<1>2. ASSUME NEW q \in Procs, q # p PROVE SyncCover(q)'
  <2>1. /\ pc'[q] = pc[q] /\ from'[q] = from[q] /\ at'[q] = at[q]
        /\ todo'[q] = todo[q] /\ seen'[q] = seen[q]
    BY <1>2, SyncLocal
  <2>2. \A d \in seen[q] : d \in Docs /\ DocCover(d)
    BY DEF TypeInv, TypeOK, CoverInv, SyncCover
  <2>3. \A d \in seen'[q] : DocCover(d)'
    BY <1>1, <2>1, <2>2, DocKept
  <2> QED
    BY <1>1, <2>1, <2>3, SyncKept DEF CoverInv
<1>3. ASSUME NEW q \in Procs PROVE OpCover(q)'
  <2>1. opPc'[q] = "annotate" =>
          opPc[q] = "annotate" /\ opTrade'[q] = opTrade[q] /\ opSeen'[q] = opSeen[q]
    BY SyncKeepsAnnotate
  <2>2. opPc[q] = "annotate" => opTrade[q] \in Trades
    BY DEF TypeInv, OpTyped
  <2> QED
    BY <1>1, <2>1, <2>2 DEF CoverInv, OpCover, RowsKept, HasRow
<1> QED
  BY <1>1, <1>2, <1>3, SyncCovers DEF CoverInv, Forward

LEMMA OpStepCovers ==
    ASSUME LedgerAssumption, TypeInv, TypeInv', CoverInv, NEW p \in Procs, OpStep(p)
    PROVE  CoverInv'
<1>1. RowsKept /\ Forward /\ Ordered
  BY OpFrame DEF CoverInv
<1>2. UNCHANGED <<doc, syncs>>
  BY DEF OpStep, PlaceOrder, FetchPlaced, PickLot, ReadLot, CloseTrade, OpReadRow,
     UpsertPlaced, UpsertClosed, Annotate, Relabel, OpFail, OpWriteRow
<1>3. DocCover(doc)'
  <2>1. \A d \in Docs : DocCover(d) => DocCover(d)'
    BY <1>1, DocKept
  <2>2. doc \in Docs /\ DocCover(doc)
    BY DEF TypeInv, TypeOK, CoverInv
  <2> QED
    BY <1>2, <2>1, <2>2 DEF DocCover, Good, Due, HasRow
<1>4. ASSUME NEW q \in Procs PROVE SyncCover(q)'
  <2>1. \A d \in seen'[q] : d \in Docs /\ DocCover(d)
    BY <1>2 DEF TypeInv, TypeOK, CoverInv, SyncCover, syncs
  <2>2. \A d \in seen'[q] : DocCover(d)'
    BY <1>1, <2>1, DocKept
  <2> QED
    BY <1>1, <1>2, <2>2, SyncKept DEF CoverInv, syncs
<1>5. ASSUME NEW q \in Procs, q # p PROVE OpCover(q)'
  <2>1. opPc'[q] = opPc[q] /\ opTrade'[q] = opTrade[q] /\ opSeen'[q] = opSeen[q]
    BY <1>5, OpLocal
  <2>2. opPc[q] = "annotate" => opTrade[q] \in Trades
    BY DEF TypeInv, OpTyped
  <2> QED
    BY <1>1, <2>1, <2>2 DEF CoverInv, OpCover, RowsKept, HasRow
<1>6. OpCover(p)'
  <2> SUFFICES ASSUME opPc'[p] = "annotate" PROVE OpCover(p)'
    BY DEF OpCover
  <2>1. CASE OpReadRow(p)
    <3>1. opPc[p] = "annotate" /\ opTrade'[p] = opTrade[p] /\ opTrade[p] \in Trades
            /\ opSeen'[p] = {row[opTrade[p]]} /\ row' = row
      BY <2>1 DEF OpReadRow, TypeInv, TypeOK, OpTyped
    <3> QED
      BY <3>1 DEF CoverInv, OpCover, HasRow
  <2>2. CASE UpsertClosed(p)
    <3>1. PICK was \in opSeen[p] : OpWriteRow(p, ClosedRow(p, was))
      BY <2>2 DEF UpsertClosed
    <3>2. was \in Rows /\ opTrade[p] \in Trades
      BY <2>2 DEF UpsertClosed, TypeInv, TypeOK, OpTyped
    <3>3. ClosedRow(p, was).state # "none"
      BY DEF ClosedRow
    <3>4. opSeen'[p] = {} /\ opTrade' = opTrade
            /\ row'[opTrade[p]] = ClosedRow(p, was)
      BY <3>1, <3>2 DEF OpWriteRow, TypeInv, TypeOK
    <3> QED
      BY <3>3, <3>4 DEF OpCover, HasRow
  <2>3. CASE OpStep(p) /\ ~OpReadRow(p) /\ ~UpsertClosed(p)
    BY <2>3 DEF TypeInv, TypeOK, OpStep, PlaceOrder, FetchPlaced, PickLot, ReadLot,
       CloseTrade, UpsertPlaced, Annotate, Relabel, OpFail, OpGoto, OpDone
  <2> QED
    BY <2>1, <2>2, <2>3
<1> QED
  BY <1>1, <1>3, <1>4, <1>5, <1>6 DEF CoverInv, Forward

LEMMA EnvironmentCovers ==
    ASSUME LedgerAssumption, TypeInv, TypeInv', CoverInv, Environment
    PROVE  CoverInv'
<1>1. RowsKept /\ Forward /\ Ordered
  BY EnvironmentFrame DEF CoverInv
<1>2. \A d \in Docs : DocCover(d) => DocCover(d)'
  BY <1>1, DocKept
<1>3. ASSUME NEW q \in Procs PROVE OpCover(q)'
  <2>1. opPc'[q] = "annotate" =>
          opPc[q] = "annotate" /\ opTrade'[q] = opTrade[q] /\ opSeen'[q] = opSeen[q]
    BY DEF Environment, OpenElsewhere, StopFills, Overrun, LeaseExpires, Expire, Crash,
       Restart, Outage, OpDone, ops, TypeInv, TypeOK
  <2>2. opPc[q] = "annotate" => opTrade[q] \in Trades
    BY DEF TypeInv, OpTyped
  <2> QED
    BY <1>1, <2>1, <2>2 DEF CoverInv, OpCover, RowsKept, HasRow
<1>4. doc \in Docs /\ DocCover(doc)
        /\ \A q \in Procs : \A d \in seen[q] : d \in Docs /\ DocCover(d)
  BY DEF TypeInv, TypeOK, CoverInv, SyncCover
<1>5. ASSUME NEW d \in Docs, DocCover(d), doc' = d PROVE DocCover(doc)'
  <2>1. DocCover(d)'
    BY <1>2, <1>5
  <2> QED
    BY <1>5, <2>1 DEF DocCover, Good, Due, HasRow
<1>6. ASSUME DocCover(doc)', \A q \in Procs : \A d \in seen'[q] : DocCover(d)',
             UNCHANGED <<pc, from, at, todo>>
      PROVE  CoverInv'
  <2>1. \A q \in Procs : SyncCover(q)'
    BY <1>1, <1>6, SyncKept DEF CoverInv
  <2> QED
    BY <1>1, <1>3, <1>6, <2>1 DEF CoverInv, Forward
<1>7. UNCHANGED <<doc, syncs>> => CoverInv'
  BY <1>2, <1>4, <1>5, <1>6 DEF syncs
<1>8. ASSUME NEW h, Expire(h) PROVE CoverInv'
  <2>1. \A d \in Docs : DocCover(d) => Lapse(d, h) \in Docs /\ DocCover(Lapse(d, h))
    BY DEF Lapse, Docs, DocCover
  <2>2. DocCover(doc)'
    BY <1>4, <1>5, <1>8, <2>1 DEF Expire
  <2>3. \A q \in Procs : \A d \in seen'[q] : DocCover(d)'
    BY <1>2, <1>4, <1>8, <2>1 DEF Expire
  <2> QED
    BY <1>6, <1>8, <2>2, <2>3 DEF Expire
<1>9. ASSUME NEW p \in Procs, Crash(p) PROVE CoverInv'
  <2>1. \A d \in Docs : DocCover(d) => Orphan(d, p) \in Docs /\ DocCover(Orphan(d, p))
    BY DEF Orphan, Docs, DocCover
  <2>2. DocCover(doc)'
    BY <1>4, <1>5, <1>9, <2>1 DEF Crash
  <2>3. \A q \in Procs : \A d \in seen'[q] : DocCover(d)'
    BY <1>2, <1>4, <1>9, <2>1 DEF Crash
  <2>4. ASSUME NEW q \in Procs, q # p PROVE SyncCover(q)'
    <3>1. pc'[q] = pc[q] /\ from'[q] = from[q] /\ at'[q] = at[q] /\ todo'[q] = todo[q]
      BY <1>9, <2>4 DEF Crash, Goto, Forget, TypeInv, TypeOK
    <3> QED
      BY <1>1, <2>3, <3>1, SyncKept DEF CoverInv
  <2>5. SyncCover(p)'
    BY <1>9, <2>3 DEF Crash, Goto, Forget, SyncCover, TypeInv, TypeOK
  <2> QED
    BY <1>1, <1>3, <2>2, <2>4, <2>5 DEF CoverInv, Forward
<1>10. CASE Outage
  <2>1. DocCover(doc)'
    <3>1. count["outages"]' > 0 /\ doc'.cursor = doc.cursor /\ UNCHANGED <<broker, row>>
      BY <1>10 DEF Outage, Counted, Bounded, Docs, TypeInv, TypeOK
    <3> QED
      BY <1>4, <3>1 DEF DocCover, Good, Due, HasRow, broker
  <2>2. \A q \in Procs : \A d \in seen'[q] : DocCover(d)'
    BY <1>2, <1>4, <1>10 DEF Outage, syncs
  <2> QED
    BY <1>6, <1>10, <2>1, <2>2 DEF Outage, syncs
<1> QED
  BY <1>7, <1>8, <1>9, <1>10
     DEF Environment, OpenElsewhere, StopFills, Overrun, LeaseExpires, Restart

LEMMA CoverInit == ASSUME LedgerAssumption, Init PROVE CoverInv
BY DEF Init, CoverInv, Ordered, DocCover, SyncCover, OpCover, Good

LEMMA CoverNext ==
    ASSUME LedgerAssumption, TypeInv, TypeInv', CoverInv, [Next]_vars
    PROVE  CoverInv'
<1>1. CASE UNCHANGED vars
  BY <1>1 DEF vars, broker, syncs, ops, CoverInv, Ordered, DocCover, SyncCover, OpCover,
     Good, Due, HasRow
<1> QED
  BY <1>1, SyncStepCovers, OpStepCovers, EnvironmentCovers DEF Next

LEMMA Covering == Spec => [](TypeInv /\ CoverInv)
<1>1. Init => TypeInv /\ CoverInv
  BY InitType, CoverInit, LedgerAssumption
<1>2. TypeInv /\ CoverInv /\ [Next]_vars => (TypeInv /\ CoverInv)'
  BY NextType, CoverNext, LedgerAssumption
<1> QED
  BY <1>1, <1>2, PTL DEF Spec

\* Without a long outage no trade opened up to the stored cursor is missing.
THEOREM CursorNeverAhead == Spec => []CursorCovered
<1>1. TypeInv /\ CoverInv => CursorCovered
  BY DEF CoverInv, DocCover, CursorCovered, Covered, Good, Due
<1> QED
  BY <1>1, Covering, PTL

\* And none that is still open, outages or not.
THEOREM LiveNeverMissing == Spec => []LiveImported
<1>1. TypeInv /\ CoverInv => LiveImported
  BY DEF CoverInv, DocCover, LiveImported, Good, Due
<1> QED
  BY <1>1, Covering, PTL
-----------------------------------------------------------------------------
(* What reconciliation closes.  DriftJustified speaks of the loops that    *)
(* close rows; the live lots they go by were collected before, by a later  *)
(* call than the poll.  So from then on, a trade that was open at the poll *)
(* and is not among them has been closed, and stays closed.                *)

SyncDrift(p) ==
    /\ pc[p] \in {"upsert", "enrich", "drop", "dups"} =>
         \A t \in LiveAt(at[p]) : t \notin live[p] => closeTxn[t] # 0
    /\ DistinctKeys /\ pc[p] \in {"drop", "dups"} =>
         \A l \in todo[p] : l[1] \in LiveAt(at[p]) => closeTxn[l[1]] # 0

DriftInv == \A p \in Procs : SyncDrift(p)

\* A trade that was open at a past transaction and is open after a step was so
\* before it.
LEMMA LiveBefore ==
    ASSUME TypeInv, TypeInv', Forward, NEW n \in Nat, n <= lastTxn,
           NEW t \in LiveAt(n)', closeTxn'[t] = 0
    PROVE  t \in LiveAt(n) /\ closeTxn[t] = 0
<1>1. lastTxn \in Nat /\ t \in Trades /\ openTxn'[t] \in 1..n
  BY DEF LiveAt, TypeInv, TypeOK
<1>2. openTxn'[t] = openTxn[t]
  BY <1>1 DEF Forward
<1> QED
  BY <1>1, <1>2 DEF LiveAt, Forward

LEMMA DriftKept ==
    ASSUME TypeInv, TypeInv', Forward, NEW q \in Procs, at[q] <= lastTxn,
           SyncDrift(q), pc'[q] = pc[q], at'[q] = at[q], live'[q] = live[q],
           todo'[q] \subseteq todo[q]
    PROVE  SyncDrift(q)'
<1>1. at[q] \in Nat
  BY DEF TypeInv, TypeOK
<1>2. \A t \in LiveAt(at[q])' : closeTxn'[t] = 0 => t \in LiveAt(at[q]) /\ closeTxn[t] = 0
  BY <1>1, LiveBefore
<1> QED
  BY <1>2 DEF SyncDrift, LiveAt, DistinctKeys

\* Whatever the second call of Collect answers: an open trade of the poll that
\* is missing from the answer was closed between the two.
LEMMA CollectDrift ==
    ASSUME TypeInv, Ordered, NEW p \in Procs, at[p] <= lastTxn,
           NEW open, open = FullLive(p) \/ open \in LiveChoices(p)
    PROVE  \A t \in LiveAt(at[p]) : t \notin open => closeTxn[t] # 0
<1> SUFFICES ASSUME NEW t \in LiveAt(at[p]), t \notin open, closeTxn[t] = 0
             PROVE  FALSE
  OBVIOUS
<1>1. t \in LiveAt(lastTxn) /\ t \notin ClosedIn(0, lastTxn)
  BY DEF LiveAt, ClosedIn, TypeInv, TypeOK
<1>2. open # FullLive(p)
  BY <1>1 DEF FullLive
<1>3. open \in {LiveAt(at[p]), LiveAt(lastTxn)}
  BY <1>1, <1>2 DEF LiveChoices
<1> QED
  BY <1>1, <1>3

\* With distinct keys, an open row that is live is alone in its group, and the
\* row of the group that is kept.
LEMMA LiveRowKept ==
    ASSUME DistinctKeys, NEW p \in Procs, NEW ks \in Kept(p), NEW t \in Trades,
           t \in OpenRows, t \in live[p]
    PROVE  t \in ks
<1>1. {u \in OpenRows : Key[u] = Key[t]} = {t}
  BY DEF DistinctKeys, OpenRows
<1>2. Cardinality(ks \cap {t}) = 1
  BY <1>1 DEF Kept
<1>3. ks \cap {t} # {}
  BY <1>2, FS_EmptySet
<1> QED
  BY <1>3

\* The rows a reconciliation lists to be closed.
LEMMA ListDrift ==
    ASSUME TypeInv, NEW p \in Procs,
           \A t \in LiveAt(at[p]) : t \notin live[p] => closeTxn[t] # 0,
           NEW rows, rows = OpenRows \ live[p] \/ \E ks \in Kept(p) : rows = OpenRows \ ks,
           NEW l \in As(rows, "closed"), l[1] \in LiveAt(at[p]), DistinctKeys
    PROVE  closeTxn[l[1]] # 0
<1>1. l[1] \in rows
  BY DEF As
<1>2. l[1] \in Trades
  BY DEF LiveAt
<1> QED
  BY <1>1, <1>2, LiveRowKept

\* A step of a sync keeps its own part of the invariant.
LEMMA SyncDrifts ==
    ASSUME LedgerAssumption, TypeInv, TypeInv', CoverInv, DriftInv, NEW p \in Procs,
           SyncStart(p) \/ SyncStep(p) \/ SyncFail(p)
    PROVE  SyncDrift(p)'
<1>1. Forward /\ UNCHANGED broker
  BY SyncFrame DEF CoverInv
<1>2. SyncDrift(p) /\ at[p] <= lastTxn /\ Ordered
  BY DEF CoverInv, SyncCover, DriftInv
<1>3. \A n : LiveAt(n)' = LiveAt(n) /\ closeTxn' = closeTxn
  BY <1>1 DEF LiveAt, broker
<1>4. pc \in [Procs -> PCs] /\ live \in [Procs -> SUBSET Trades]
        /\ todo \in [Procs -> SUBSET Lots]
  BY DEF TypeInv, TypeOK
<1>5. ASSUME pc'[p] \notin {"upsert", "enrich", "drop", "dups"} PROVE SyncDrift(p)'
  BY <1>5 DEF SyncDrift
<1>6. ASSUME NEW k, Goto(p, k) PROVE pc'[p] = k
  BY <1>4, <1>6 DEF Goto
<1>7. SyncStart(p) \/ SyncFail(p) \/ SkipLockHeld(p) \/ Poll(p) \/ UpsertConflict(p)
        \/ Reconciled(p) \/ Commit(p) \/ NoteError(p) \/ Release(p) \/ AcquireLease(p)
        => SyncDrift(p)'
  BY <1>4, <1>5, <1>6
     DEF SyncStart, SyncFail, SkipLockHeld, Poll, UpsertConflict, Reconciled, Commit,
         NoteError, Release, AcquireLease
<1>8. ReadState(p) \/ ReadRow(p) \/ UpsertLot(p) \/ CloseDrifted(p) => SyncDrift(p)'
  <2>1. ReadState(p) \/ ReadRow(p) \/ UpsertLot(p) \/ CloseDrifted(p) =>
          pc' = pc /\ at' = at /\ live' = live /\ todo'[p] \subseteq todo[p]
    BY <1>4 DEF ReadState, ReadRow, UpsertLot, CloseDrifted, Finished
  <2> QED
    BY <1>1, <1>2, <2>1, DriftKept
<1>9. ASSUME Collect(p) PROVE SyncDrift(p)'
  <2>1. pc'[p] = "upsert" /\ at' = at
    BY <1>6, <1>9 DEF Collect
  <2>2. live'[p] = FullLive(p) \/ live'[p] \in LiveChoices(p)
    BY <1>4, <1>9 DEF Collect
  <2>3. \A t \in LiveAt(at[p]) : t \notin live'[p] => closeTxn[t] # 0
    BY <1>2, <2>2, CollectDrift
  <2> QED
    BY <1>3, <2>1, <2>3 DEF SyncDrift, LiveAt
<1>10. ASSUME PersistEvents(p) PROVE SyncDrift(p)'
  <2>1. pc[p] = "upsert" /\ pc'[p] = "enrich" /\ at' = at /\ live' = live
    BY <1>6, <1>10 DEF PersistEvents
  <2> QED
    BY <1>2, <1>3, <2>1 DEF SyncDrift, LiveAt
<1>11. ASSUME ListDrifted(p) \/ Relist(p) PROVE SyncDrift(p)'
  <2>1. pc[p] \in {"enrich", "drop"} /\ UNCHANGED <<at, live>>
    BY <1>11 DEF ListDrifted, Relist
  <2>2. \A t \in LiveAt(at[p]) : t \notin live[p] => closeTxn[t] # 0
    BY <1>2, <2>1 DEF SyncDrift
  <2>3. \/ pc'[p] = "commit"
        \/ \E rows : /\ todo'[p] = As(rows, "closed")
                     /\ rows = OpenRows \ live[p] \/ \E ks \in Kept(p) : rows = OpenRows \ ks
    BY <1>4, <1>6, <1>11 DEF ListDrifted, Relist, ListExtras
  <2>4. pc'[p] # "commit" /\ DistinctKeys =>
          \A l \in todo'[p] : l[1] \in LiveAt(at[p]) => closeTxn[l[1]] # 0
    BY <2>2, <2>3, ListDrift
  <2> QED
    BY <1>1, <1>5, <2>1, <2>2, <2>4 DEF SyncDrift, LiveAt, broker, DistinctKeys
<1> QED
  BY <1>7, <1>8, <1>9, <1>10, <1>11 DEF SyncStep

LEMMA DriftNext ==
    ASSUME LedgerAssumption, TypeInv, TypeInv', CoverInv, DriftInv, [Next]_vars
    PROVE  DriftInv'
<1>0. \A q \in Procs : at[q] <= lastTxn /\ SyncDrift(q)
  BY DEF CoverInv, SyncCover, DriftInv
<1>1. ASSUME NEW p \in Procs, SyncStart(p) \/ SyncStep(p) \/ SyncFail(p)
      PROVE  DriftInv'
  <2>1. Forward
    BY <1>1, SyncFrame DEF CoverInv
  <2>2. ASSUME NEW q \in Procs, q # p PROVE SyncDrift(q)'
    BY <1>0, <1>1, <2>1, <2>2, SyncLocal, DriftKept
  <2> QED
    BY <1>1, <2>2, SyncDrifts DEF DriftInv
<1>2. ASSUME Forward, UNCHANGED syncs PROVE DriftInv'
  BY <1>0, <1>2, DriftKept DEF DriftInv, syncs
<1>3. ASSUME NEW p \in Procs, OpStep(p) PROVE DriftInv'
  <2>1. Forward
    BY <1>3, OpFrame DEF CoverInv
  <2>2. UNCHANGED syncs
    BY <1>3 DEF OpStep, PlaceOrder, FetchPlaced, PickLot, ReadLot, CloseTrade, OpReadRow,
       UpsertPlaced, UpsertClosed, Annotate, Relabel, OpFail, OpWriteRow
  <2> QED
    BY <1>2, <2>1, <2>2
<1>4. ASSUME Environment PROVE DriftInv'
  <2>1. Forward
    BY <1>4, EnvironmentFrame DEF CoverInv
  <2>2. ASSUME NEW q \in Procs PROVE SyncDrift(q)'
    <3>1. \/ UNCHANGED <<pc, at, live, todo>>
          \/ \E p \in Procs : Crash(p)
      BY <1>4 DEF Environment, OpenElsewhere, StopFills, Overrun, LeaseExpires, Expire,
         Restart, Outage, syncs
    <3>2. CASE UNCHANGED <<pc, at, live, todo>>
      BY <1>0, <2>1, <3>2, DriftKept
    <3>3. ASSUME NEW p \in Procs, Crash(p) PROVE SyncDrift(q)'
      <4>1. CASE q = p
        BY <3>3, <4>1 DEF Crash, Goto, SyncDrift, TypeInv, TypeOK
      <4>2. CASE q # p
        <5>1. pc'[q] = pc[q] /\ at'[q] = at[q] /\ live'[q] = live[q] /\ todo'[q] = todo[q]
          BY <3>3, <4>2 DEF Crash, Goto, Forget, TypeInv, TypeOK
        <5> QED
          BY <1>0, <2>1, <5>1, DriftKept
      <4> QED
        BY <4>1, <4>2
    <3> QED
      BY <3>1, <3>2, <3>3
  <2> QED
    BY <2>2 DEF DriftInv
<1>5. CASE UNCHANGED vars
  BY <1>5 DEF vars, broker, syncs, DriftInv, SyncDrift, LiveAt, DistinctKeys
<1> QED
  BY <1>1, <1>3, <1>4, <1>5 DEF Next

\* With distinct pairs and directions, reconciliation closes no row of a trade
\* that was open at the poll and still is, whatever is opened, closed, failed
\* or overrun between the two calls of a sync.
THEOREM ClosesOnlyDrift == Spec => []DriftJustified
<1>1. Init => DriftInv
  BY DEF Init, DriftInv, SyncDrift
<1>2. TypeInv /\ CoverInv /\ (TypeInv /\ CoverInv)' /\ DriftInv /\ [Next]_vars => DriftInv'
  BY DriftNext, LedgerAssumption
<1>3. DriftInv => DriftJustified
  BY DEF DriftInv, SyncDrift, DriftJustified
<1> QED
  BY <1>1, <1>2, <1>3, Covering, PTL DEF Spec
=============================================================================
