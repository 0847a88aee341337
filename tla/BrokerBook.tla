------------------------------ MODULE BrokerBook ------------------------------
(***************************************************************************)
(* What the ledger knows of an OANDA account: for every trade a row with    *)
(* its units, stop order, close reason and closing transactions; for every  *)
(* transaction an event linked to its trade, order and batch; and the       *)
(* exposure rolled up from the open rows.  Module TradeLedger has the locks *)
(* and the overlapping writers; this one has one sync at a time and what is *)
(* in the answers it reads, which are of different moments.                 *)
(*                                                                          *)
(* The transaction at index i of the log has id i.  A trade's id is the id  *)
(* of the fill that opened it.  Every trade is in a pair of its own while   *)
(* it is open, so rows, and exposures, are one per trade.                   *)
(***************************************************************************)
EXTENDS Integers, FiniteSets, Sequences, SequencesExt, Functions

CONSTANTS
  Strays,       \* whether old rows filed under an order's id may exist
  Retention,    \* broker_events_retention_enabled
  MaxLog,       \* bound: transactions
  MaxTrades,    \* bound: trades
  MaxLulls,     \* bound: times no sync ran for longer than the stale threshold
  MaxFulls,     \* bound: full syncs somebody asked for
  MaxFaults     \* bound: failed requests and answers with a gap

VARIABLES
  log,          \* the account's transactions, in batches
  row,          \* row[t]: broker_lots, by broker_lot_id
  event,        \* event[i]: broker_events; a stripped one has lost its links
  cursor,       \* sync_cursor; 0 before the first sync
  sync,         \* run_broker_sync
  closing,      \* the trade a request is closing; 0 for none
  exposure,     \* instrument_exposure: the units of each open row
  erred,        \* last_sync_error
  stale,        \* whether last_sync_at is older than the threshold
  lulls, fulls, faults

vars == <<log, row, event, cursor, sync, closing, exposure, erred, stale, lulls, fulls, faults>>

-----------------------------------------------------------------------------
\* The account.

Now == Len(log)
Txn(type, order, trade, does, batch) ==
  [type |-> type, order |-> order, trade |-> trade, does |-> does, batch |-> batch]

\* Of the first n transactions.
Trades(n) == {i \in 1..n : log[i].does = "opens"}
Closers(t, n) == {i \in 1..n : log[i].trade = t /\ log[i].does \in {"cuts", "closes"}}
IsOpen(t, n) == \A i \in Closers(t, n) : log[i].does # "closes"
UnitsOf(t, n) == IF IsOpen(t, n) THEN 2 - Cardinality(Closers(t, n)) ELSE 0
Opened(n) == {t \in Trades(n) : IsOpen(t, n)}

\* The stop order is submitted in the batch of the opening fill.
StopId(t) == t + 1
StopAt(n, o) ==
  LET ends == {i \in 1..n : log[i].order = o}
  IN IF ends = {} THEN "PENDING"
     ELSE IF \E i \in ends : log[i].type = "ORDER_CANCEL" THEN "CANCELLED" ELSE "FILLED"
StopFilled(t) == StopAt(Now, StopId(t)) = "FILLED"

NoStop == [order |-> 0, is |-> "none"]
Stop(t, n) == [order |-> StopId(t), is |-> StopAt(n, StopId(t))]

Batch(b) == log' = log \o b
Opens ==
  /\ Now + 3 <= MaxLog /\ Cardinality(Trades(Now)) < MaxTrades
  /\ LET b == Now + 1
     IN Batch(<<Txn("MARKET_ORDER", 0, 0, "none", b), Txn("ORDER_FILL", b, b + 1, "opens", b),
                Txn("STOP_LOSS_ORDER", 0, b + 1, "none", b)>>)

ByOrder(t, does) ==
  LET b == Now + 1
      fill == <<Txn("MARKET_ORDER", 0, 0, "none", b), Txn("ORDER_FILL", b, t, does, b)>>
  IN IF does = "cuts" THEN fill ELSE fill \o <<Txn("ORDER_CANCEL", StopId(t), 0, "none", b)>>

Cuts(t) == Now + 2 <= MaxLog /\ UnitsOf(t, Now) = 2 /\ Batch(ByOrder(t, "cuts"))
Closes(t) == Now + 3 <= MaxLog /\ Batch(ByOrder(t, "closes"))
StopsOut(t) == Now < MaxLog /\ Batch(<<Txn("ORDER_FILL", StopId(t), t, "closes", Now + 1)>>)
Financing == Now < MaxLog /\ Batch(<<Txn("DAILY_FINANCING", 0, 0, "none", Now + 1)>>)

Market ==
  /\ \/ Opens
     \/ \E t \in Opened(Now) : Cuts(t) \/ Closes(t) \/ StopsOut(t)
     \/ Financing
  /\ UNCHANGED <<row, event, cursor, sync, closing, exposure, erred, stale, lulls, fulls, faults>>

-----------------------------------------------------------------------------
\* What the answers are turned into.

\* A fill that opens a trade names it in a field nobody reads.
Linked(i) ==
  [trade |-> IF log[i].does = "opens" THEN 0 ELSE log[i].trade,
   order |-> log[i].order, batch |-> log[i].batch]
Unlinked == [trade |-> 0, order |-> 0, batch |-> 0]

\* The transaction lists are normalised twice, and the second pass finds none
\* of the names under which the first has put the links.
Stripped(i) == Unlinked

Closed(t, n) == IF IsOpen(t, n) THEN {} ELSE Closers(t, n)

\* A trade as the trade endpoints show it.
Full(t, n) ==
  [state |-> IF IsOpen(t, n) THEN "open" ELSE "closed", units |-> UnitsOf(t, n),
   stop |-> Stop(t, n), ids |-> Closed(t, n), details |-> Closed(t, n), reason |-> "none"]

\* A trade as the account changes show it: without its orders, which come
\* beside it when they were created or ended in the window.
Patched(t, since, n) ==
  IF \E i \in (since + 1)..n : i = StopId(t) \/ log[i].order = StopId(t)
  THEN Stop(t, n) ELSE NoStop
Summary(t, since, n) == [Full(t, n) EXCEPT !.stop = Patched(t, since, n)]

Changed(since, n) == {t \in Trades(n) : t > since \/ \E i \in Closers(t, n) : i > since}

-----------------------------------------------------------------------------
\* Reasons, child orders, close details.

\* Events of the lot: by trade, by closing id, by the id of its stop.
About(lot, t, es) ==
  {i \in DOMAIN es : \/ es[i].trade = t
                     \/ i \in lot.ids
                     \/ es[i].order # 0 /\ es[i].order = lot.stop.order}

FillOfStop(lot, i, es) ==
  log[i].type = "ORDER_FILL" /\ lot.stop.order # 0 /\ es[i].order = lot.stop.order

\* A bug: several closing fills are looked at before the stop.
InferredMutant(lot, t, es) ==
  IF lot.state # "closed" THEN "none"
  ELSE IF Cardinality(lot.ids) > 1 THEN "partial_close"
  ELSE IF lot.stop.is = "FILLED" \/ \E i \in lot.ids \cap DOMAIN es : FillOfStop(lot, i, es)
       THEN "stop_loss"
  ELSE "broker_closed"

Inferred(lot, t, es) ==
  IF lot.state # "closed" THEN "none"
  ELSE IF \/ lot.stop.is = "FILLED"
          \/ \E i \in lot.ids \cap DOMAIN es : FillOfStop(lot, i, es)
       THEN "stop_loss"
  ELSE IF Cardinality(lot.ids) > 1 THEN "partial_close"
  ELSE "broker_closed"

Derived(lot, t, es) ==
  LET own == About(lot, t, es)
      made == {i \in own : log[i].type = "STOP_LOSS_ORDER"}
      order == IF lot.stop.order # 0 THEN lot.stop.order
               ELSE IF made # {} THEN CHOOSE i \in made : TRUE ELSE 0
      ended == {i \in own : es[i].order = order /\ log[i].type \in {"ORDER_FILL", "ORDER_CANCEL"}}
  IN IF order = 0 THEN NoStop
     ELSE [order |-> order,
           is |-> IF ended = {} THEN IF lot.stop.order # 0 THEN lot.stop.is ELSE "PENDING"
                  ELSE IF \E i \in ended : log[i].type = "ORDER_FILL" THEN "FILLED" ELSE "CANCELLED"]

StateRank(is) == CASE is \in {"FILLED", "CANCELLED"} -> 2 [] is = "PENDING" -> 1 [] OTHER -> 0

\* The snapshot stands unless the events are further on.
StopReconciled(lot, derived) ==
  IF lot.stop.order = 0 THEN derived
  ELSE IF StateRank(derived.is) > StateRank(lot.stop.is) THEN [lot.stop EXCEPT !.is = derived.is]
  ELSE lot.stop

\* The reason is the lot's, which never has one: the row's is gone already.
Enriched(lot, t, es) ==
  [lot EXCEPT !.reason = Inferred(lot, t, es), !.stop = StopReconciled(lot, Derived(lot, t, es))]

Fills(is) == {i \in is : log[i].type = "ORDER_FILL"}
EventsOf(t) == {i \in DOMAIN event : event[i].trade = t}
Asked(t) == IF t \in Trades(Now) THEN Closed(t, Now) ELSE {}
LastFill(t) == CHOOSE i \in Closers(t, Now) : log[i].does = "closes"

\* Price and P/L of a closed row that has none: from the stored events of the
\* trade; else from the event under the trade's own id, the fill that opened
\* it; else from the broker.
Details(t) ==
  LET r == row[t]
      own == Fills(EventsOf(t))
      seen == IF r.ids # {} THEN own \cap r.ids ELSE own
  IN IF seen # {} THEN seen
     ELSE IF t \in DOMAIN event THEN Fills({t})
     ELSE Asked(t)

-----------------------------------------------------------------------------
\* Rows and events.

\* What is stored under the new keys replaces what was.
Over(new, old) ==
  [k \in DOMAIN new \cup DOMAIN old |-> IF k \in DOMAIN new THEN new[k] ELSE old[k]]
MergedEvents(primary, extra) == Over(primary, extra)
OpenRows == {t \in DOMAIN row : row[t].state = "open"}
Shut(t) == [row[t] EXCEPT !.state = "closed", !.units = 0, !.reason = "broker_closed"]
Withdrawn(t) == [row[t] EXCEPT !.state = "cancelled", !.units = 0]
Missing == {t \in DOMAIN row : row[t].state = "closed" /\ row[t].details = {}}
Filled(t) == [row[t] EXCEPT !.details = Details(t)]
\* What the cooldown after a loss looks for.
StopOuts == {t \in DOMAIN row : row[t].state = "closed" /\ row[t].reason = "stop_loss"}
Rolled == [t \in {u \in OpenRows : row[u].units > 0} |-> row[t].units]

\* upsert_lot writes the whole document; what it keeps is the strategy's.
Upserted(lots) == Over(lots, row)

\* An order's id under which no trade was opened: its cancellation, its
\* rejection, or a cancellation in its batch.
Cancelled(o) ==
  \/ \E i \in DOMAIN event : log[i].type = "ORDER_CANCEL" /\ event[i].order = o
  \/ o \in DOMAIN event /\ log[o].type = "MARKET_ORDER_REJECT"
  \/ /\ o \in DOMAIN event /\ log[o].type = "MARKET_ORDER" /\ event[o].batch # 0
     /\ \E i \in DOMAIN event : log[i].type = "ORDER_CANCEL" /\ event[i].batch = event[o].batch

\* A row that no answer of the broker was ever written to.
Unsynced(t) == log[t].does # "opens"

\* Events a row still needs never expire; nor does one with links.
Protected == UNION {IF row[t].state = "open" \/ row[t].details = {} THEN row[t].ids ELSE {} : t \in DOMAIN row}
Expires(i, e) ==
  Retention /\ i \notin Protected /\ e.trade = 0 /\ e.order = 0 /\ log[i].type = "DAILY_FINANCING"
Expiring(e, expires) ==
  [trade |-> e.trade, order |-> e.order, batch |-> e.batch, expires |-> expires]
Stored(es) == Over([i \in DOMAIN es |-> Expiring(es[i], Expires(i, es[i]))], event)

-----------------------------------------------------------------------------
Idle == [pc |-> "idle", at |-> 0, lots |-> <<>>, events |-> <<>>, live |-> {}, all |-> FALSE, twice |-> FALSE]
Unknown == <<>>

StrayRow == [state |-> "open", units |-> 2, stop |-> NoStop, ids |-> {}, details |-> {}, reason |-> "none"]
StrayLogs ==
  {<<Txn("MARKET_ORDER", 0, 0, "none", 1), Txn("ORDER_CANCEL", 1, 0, "none", 1)>>,
   <<Txn("MARKET_ORDER_REJECT", 0, 0, "none", 1)>>}

Init ==
  /\ \/ log = <<>> /\ row = <<>>
     \/ Strays /\ log \in StrayLogs /\ row = [t \in {1} |-> StrayRow]
  /\ cursor \in {0, Len(log)}
  /\ event = [i \in 1..cursor |-> Expiring(Linked(i), FALSE)]
  /\ sync = Idle /\ closing = 0 /\ exposure = <<>> /\ erred = FALSE /\ stale = FALSE
  /\ lulls = 0 /\ fulls = 0 /\ faults = 0

\* What a row, an event and an exposure hold of what the properties are about.
PositionLot(r) ==
  /\ r.state \in {"open", "closed", "cancelled"} /\ r.units \in 0..2
  /\ r.ids \subseteq 1..Now /\ r.details \subseteq 1..Now
BrokerEvent(e) == {e.trade, e.order, e.batch} \subseteq 0..Now /\ e.expires \in BOOLEAN
InstrumentExposure(units) == units \in 0..2

TypeOK ==
  /\ DOMAIN row \subseteq 1..Now /\ \A t \in DOMAIN row : PositionLot(row[t])
  /\ DOMAIN event \subseteq 1..Now /\ \A i \in DOMAIN event : BrokerEvent(event[i])
  /\ DOMAIN exposure \subseteq DOMAIN row
  /\ \A t \in DOMAIN exposure : InstrumentExposure(exposure[t])
  /\ cursor \in 0..Now /\ closing \in 0..Now
  /\ erred \in BOOLEAN /\ stale \in BOOLEAN
  /\ lulls \in 0..MaxLulls /\ fulls \in 0..MaxFulls /\ faults \in 0..MaxFaults

To(pc) == sync' = [sync EXCEPT !.pc = pc]
On(pc) == sync.pc = pc
Unseen == UNCHANGED <<log, closing, erred, stale, lulls, fulls, faults>>

\* Nobody has synced for longer than the stale threshold.
Lull ==
  /\ On("idle") /\ cursor > 0 /\ lulls < MaxLulls
  /\ lulls' = lulls + 1 /\ stale' = TRUE
  /\ UNCHANGED <<log, row, event, cursor, sync, closing, exposure, erred, fulls, faults>>

\* repair_stale_cursor_if_needed reads every transaction since the cursor and
\* takes the last for the cursor to poll from.
Start ==
  /\ On("idle")
  /\ \E full \in IF fulls < MaxFulls THEN BOOLEAN ELSE {FALSE} :
       LET repaired == IF stale THEN (cursor + 1)..Now ELSE {}
       IN /\ fulls' = IF full THEN fulls + 1 ELSE fulls
          /\ sync' = [Idle EXCEPT !.pc = IF full \/ cursor = 0 THEN "details" ELSE "poll",
                                  !.at = IF stale THEN Now ELSE cursor,
                                  !.events = [i \in repaired |-> Stripped(i)]]
  /\ UNCHANGED <<log, row, event, cursor, closing, exposure, erred, stale, lulls, faults>>

\* A bootstrap: the open trades, later the closed ones, then every
\* transaction up to the account details', stored as it is read.
ReadDetails ==
  /\ On("details") /\ Now > 0
  /\ sync' = [sync EXCEPT !.pc = "history", !.at = Now, !.all = TRUE,
                          !.lots = [t \in Opened(Now) |-> Full(t, Now)]]
  /\ UNCHANGED <<row, event, cursor, exposure>> /\ Unseen
ReadHistory ==
  /\ On("history")
  /\ LET lots == Over([t \in Trades(Now) \ Opened(Now) |-> Full(t, Now)], sync.lots)
     IN sync' = [sync EXCEPT !.pc = "stream", !.lots = lots,
                             !.live = {t \in DOMAIN lots : lots[t].state = "open"}]
  /\ UNCHANGED <<row, event, cursor, exposure>> /\ Unseen
Stream ==
  /\ On("stream") /\ To("lots")
  /\ event' = Stored([i \in 1..sync.at |-> Stripped(i)])
  /\ UNCHANGED <<row, cursor, exposure>> /\ Unseen

\* One call shows what changed since the cursor.  When it begins later than
\* the transaction after the cursor, all of them are fetched and appended.
Poll ==
  /\ On("poll")
  /\ \E gap \in BOOLEAN :
       LET since == sync.at
           lots == [t \in Changed(since, Now) |-> Summary(t, since, Now)]
           polled == [i \in (since + 1)..Now |-> Linked(i)]
       IN /\ gap => faults < MaxFaults /\ Now > since + 1
          /\ faults' = IF gap THEN faults + 1 ELSE faults
          /\ sync' = [sync EXCEPT !.pc = IF Opened(Now) # {} THEN "live" ELSE "lots",
                                  !.at = Now, !.lots = lots, !.twice = gap,
                                  !.events = MergedEvents(polled, sync.events)]
  /\ UNCHANGED <<log, row, event, cursor, closing, exposure, erred, stale, lulls, fulls>>

\* The state of the changes has no instruments: the open trades are fetched,
\* and those the changes left out join the lots.
FetchLive ==
  /\ On("live")
  /\ LET polled == {t \in DOMAIN sync.lots : sync.lots[t].state = "open"}
         live == IF Opened(Now) # {} THEN Opened(Now) ELSE polled
     IN sync' = [sync EXCEPT !.pc = "lots", !.live = live,
                             !.lots = Over(@, [t \in live |-> Full(t, Now)])]
  /\ UNCHANGED <<row, event, cursor, exposure>> /\ Unseen

WriteLots ==
  /\ On("lots") /\ To(IF sync.all THEN "enrich" ELSE "events")
  /\ row' = Upserted(sync.lots)
  /\ UNCHANGED <<event, cursor, exposure>> /\ Unseen

WriteEvents ==
  /\ On("events") /\ ~sync.twice /\ To("enrich")
  /\ event' = Stored(sync.events)
  /\ UNCHANGED <<row, cursor, exposure>> /\ Unseen

\* An insert that meets the same transaction twice is refused; this error is
\* not one that run_broker_sync notes.
Refused ==
  /\ On("events") /\ sync.twice /\ sync' = Idle
  /\ UNCHANGED <<row, event, cursor, exposure>> /\ Unseen

\* After a bootstrap the events come from the store, by trade.
Enrich ==
  /\ On("enrich") /\ To("drift")
  /\ LET For(t) == IF sync.all THEN Restrict(event, EventsOf(t))
                   ELSE Restrict(sync.events, {i \in DOMAIN sync.events : sync.events[i].trade = t})
     IN row' = Upserted([t \in DOMAIN sync.lots |-> Enriched(sync.lots[t], t, For(t))])
  /\ UNCHANGED <<event, cursor, exposure>> /\ Unseen

\* Open rows without units, or that no live trade answers to.
Drifted == {t \in OpenRows : row[t].units = 0 \/ t \notin sync.live}
CloseDrifted ==
  /\ On("drift") /\ To("cancelled")
  /\ row' = IF sync.live = {} THEN row ELSE Upserted([t \in Drifted |-> Shut(t)])
  /\ UNCHANGED <<event, cursor, exposure>> /\ Unseen

MarkCancelled ==
  /\ On("cancelled") /\ To("commit")
  /\ LET found == {t \in DOMAIN row : Unsynced(t) /\ Cancelled(t)}
     IN row' = Upserted([t \in found |-> Withdrawn(t)])
  /\ UNCHANGED <<event, cursor, exposure>> /\ Unseen

\* A bug: the cursor moves to the account's last transaction.
CommitMutant ==
  /\ On("commit") /\ To("backfill")
  /\ cursor' = Now /\ stale' = FALSE /\ erred' = FALSE
  /\ UNCHANGED <<log, row, event, closing, exposure, lulls, fulls, faults>>

Commit ==
  /\ On("commit") /\ To("backfill")
  /\ cursor' = sync.at /\ stale' = FALSE /\ erred' = FALSE
  /\ UNCHANGED <<log, row, event, closing, exposure, lulls, fulls, faults>>

Backfill ==
  /\ On("backfill") /\ To("clear")
  /\ row' = Upserted([t \in Missing |-> Filled(t)])
  /\ UNCHANGED <<event, cursor, exposure>> /\ Unseen

\* The old exposures are deleted in one transaction, the new ones follow.
ClearExposure ==
  /\ On("clear") /\ To("rollup") /\ exposure' = Unknown
  /\ UNCHANGED <<row, event, cursor>> /\ Unseen
Rollup ==
  /\ On("rollup") /\ sync' = Idle
  /\ exposure' = Rolled
  /\ UNCHANGED <<row, event, cursor>> /\ Unseen

\* A request to OANDA fails: noted, and the account counts as seen.
Requests == {"details", "history", "stream", "poll", "live", "backfill"}
Fails ==
  /\ sync.pc \in Requests /\ faults < MaxFaults
  /\ faults' = faults + 1 /\ sync' = Idle /\ erred' = TRUE /\ stale' = FALSE
  /\ UNCHANGED <<log, row, event, cursor, closing, exposure, lulls, fulls>>

Sync ==
  \/ Start \/ ReadDetails \/ ReadHistory \/ Stream \/ Poll \/ FetchLive \/ WriteLots
  \/ WriteEvents \/ Refused \/ Enrich \/ CloseDrifted \/ MarkCancelled \/ Commit
  \/ Backfill \/ ClearExposure \/ Rollup \/ Fails

\* A request closes a trade and then writes its row, with the price and P/L of
\* the fill in the answer.
CloseTrade ==
  /\ closing = 0
  /\ \E t \in OpenRows \cap Opened(Now) : Closes(t) /\ closing' = t
  /\ UNCHANGED <<row, event, cursor, sync, exposure, erred, stale, lulls, fulls, faults>>
SaveClose ==
  /\ closing # 0 /\ closing' = 0
  /\ row' = [row EXCEPT ![closing] = [Full(closing, Now) EXCEPT !.details = {LastFill(closing)},
                                                                !.reason = "manual_close"]]
  /\ UNCHANGED <<log, event, cursor, sync, exposure, erred, stale, lulls, fulls, faults>>

Next == Market \/ Lull \/ Sync \/ CloseTrade \/ SaveClose

Spec == Init /\ [][Next]_vars

-----------------------------------------------------------------------------
Settled == On("idle") /\ cursor = Now /\ closing = 0 /\ lulls = 0
Own(t) == row[t].reason = "manual_close"

\* Only a trade whose stop has filled is taken for a stop-out, whichever answer
\* came last; the cooldown after a loss counts on it.  When the account was
\* never left alone for long and the sync has caught up with it, every
\* stop-out is known for one, with its stop order filled, and nothing that
\* traded is taken for cancelled (close_reason.py infer_close_reason,
\* child_orders.py, cancelled_orders.py).
ReasonTrue ==
  /\ \A t \in StopOuts : StopFilled(t)
  /\ \A t \in DOMAIN row : row[t].state = "cancelled" => t \notin Trades(Now)
  /\ Settled => \A t \in DOMAIN row \cap Trades(Now) :
       StopFilled(t) => t \in StopOuts /\ row[t].stop.is = "FILLED"

\* No event below the cursor is missing.  Caught up, every trade has its row,
\* open with its units or closed with the price and P/L of all its closing
\* fills, unless a request of ours wrote it; and after a sync that went
\* through the exposures are the broker's (sync.py run_broker_sync).
BookBalanced ==
  /\ On("idle") => 1..cursor \subseteq DOMAIN event
  /\ Settled => \A t \in Trades(Now) :
       /\ t \in DOMAIN row
       /\ row[t].state = Full(t, Now).state /\ row[t].units = UnitsOf(t, Now)
       /\ ~IsOpen(t, Now) /\ ~Own(t) => row[t].details = Closers(t, Now)
  /\ Settled /\ ~erred =>
       Restrict(exposure, DOMAIN exposure \cap Trades(Now)) = [t \in Opened(Now) |-> UnitsOf(t, Now)]

\* The price and P/L of a closed trade, once known and the sync has caught up,
\* are those of its closing fills.
DetailsTrue ==
  On("idle") /\ cursor = Now /\ closing = 0 => \A t \in DOMAIN row \cap Trades(Now) :
    row[t].state = "closed" /\ ~Own(t) /\ row[t].details # {} => row[t].details = Closers(t, Now)

\* The reason somebody gave for a close is kept.
ManualKept ==
  [][\A t \in DOMAIN row : row[t].reason = "manual_close" => row'[t].reason = "manual_close"]_vars
=============================================================================
