---------------------------- MODULE CandleCache ----------------------------
(***************************************************************************)
(* The Data Manager's candle cache of one pair and timeframe.               *)
(*                                                                          *)
(* Bars are numbered in the order they open; bar b is closed once now >= b. *)
(* The broker (external) quotes some bars, the calendar of the program      *)
(* expects some, and they need not agree.  Workers of the Secretary, web    *)
(* requests and the CLI fill one table at the same time, each by a sequence *)
(* of queries and HTTP requests with nothing locked between them.           *)
(***************************************************************************)
EXTENDS Naturals, FiniteSets, FiniteSetsExt

CONSTANTS
  Workers,    \* pipelines, which call CandleCache.sync
  Readers,    \* web requests and the CLI
  MaxBar,     \* bound: bars in the model
  Opened,     \* the bars closed when the program starts
  Quoted,     \* the bars the broker has
  Calendar,   \* the bars market_calendar expects
  Need,       \* bar_count of every request
  ChunkSize,  \* candle_sync_chunk_size
  Cap,        \* the 5000 bars OANDA returns at most
  Extra,      \* the 10 bars a backward fetch adds
  Lookback,   \* the 500 bars among which the newest expected one is looked for
  Windows,    \* the <<since, until>> that are backfilled
  Drift,      \* bound: bars that close while one operation runs
  MaxFaults   \* bound: requests that fail

Procs == Workers \cup Readers
Bars == 1..MaxBar

ASSUME CacheAssumption ==
  /\ Quoted \subseteq Bars /\ Calendar \subseteq Bars /\ MaxBar \in Nat /\ Opened \in 1..MaxBar
  /\ Need \in Nat \ {0} /\ ChunkSize \in Nat \ {0, 1} /\ Cap \in Nat \ {0, 1}
  /\ ChunkSize <= Cap /\ Extra \in Nat /\ Lookback \in Nat /\ Drift \in Nat /\ MaxFaults \in Nat
  /\ Windows \subseteq Bars \X Bars

VARIABLES
  now,      \* the last bar that has closed
  marked,   \* the last bar the broker marks complete when asked from a time
  stored,   \* market_candles: the bars of the series
  high,     \* candle_sync_state.high_water_time
  op,       \* op[p]: the call p is carrying out
  faults

vars == <<now, marked, stored, high, op, faults>>

Fetching == {"from", "last3", "count", "to", "pages"}
Querying == {"counted", "sync", "boot", "earliest", "inc", "upsert", "check",
             "latest", "mark", "keep"}

OpType ==
  [kind : {"none", "step", "warm", "ensure", "window", "repair"},
   pc : {"idle"} \cup Fetching \cup Querying,
   count : 0..2 * MaxBar, mark : 0..MaxBar, got : SUBSET Bars,
   from : 0..MaxBar, to : 0..MaxBar, cursor : 0..MaxBar + 1,
   owed : SUBSET Bars, ask : 0..MaxBar, due : 0..MaxBar,
   complete : BOOLEAN, ans : {"none", "yes", "no"}]

TypeOK ==
  /\ now \in 0..MaxBar /\ marked \in {now, now - 1} /\ stored \subseteq Bars
  /\ high \in 0..MaxBar
  /\ op \in [Procs -> OpType] /\ faults \in 0..MaxFaults

Blank ==
  [kind |-> "none", pc |-> "idle", count |-> 0, mark |-> 0, got |-> {},
   from |-> 0, to |-> 0, cursor |-> 0, owed |-> {}, ask |-> 0, due |-> 0,
   complete |-> FALSE, ans |-> "none"]

\* The table is empty or holds the bars an earlier run of the program left.
Init ==
  /\ now = Opened /\ marked = now
  /\ stored \in {{}, {b \in Quoted : b <= now /\ b >= now - 1}}
  /\ high = 0 /\ faults = 0
  /\ op = [p \in Procs |-> Blank]

----------------------------------------------------------------------------
(* The broker and the calendar.                                             *)

Smaller(a, b) == IF a < b THEN a ELSE b
Larger(a, b) == IF a > b THEN a ELSE b
Latest(S) == IF S = {} THEN 0 ELSE Max(S)
Oldest(S) == IF S = {} THEN 0 ELSE Min(S)
LastN(S, n) == {b \in S : Cardinality({c \in S : c > b}) < n}
FirstN(S, n) == {b \in S : Cardinality({c \in S : c < b}) < n}

\* A bug: the bar more is asked for beyond the broker's limit as well.
RequestCountMutant(n) == n + 1

\* A request asks for one bar more than is wanted, since the newest may still
\* be forming; what comes back is cut to the last n closed bars.
RequestCount(n) == Smaller(n + 1, Cap)
Closed(S, n, done) == LastN({b \in S : b <= done}, n)

\* The bars a request can return, the forming one included.  A request from a
\* time may not find the bar that has just closed marked complete yet; one for
\* a number of bars may find it so (done).
Offered == {b \in Quoted : b <= now + 1}

FetchCount(n, done) == Closed(LastN(Offered, RequestCount(n)), n, done)
FetchTo(t, n) ==
  Closed(LastN({b \in Offered : b < t}, RequestCount(n)), n, marked)
FetchFrom(t, n) ==
  Closed(FirstN({b \in Offered : b >= t}, RequestCount(n)), n, marked)

\* The calendar's newest bar that is over, none (0) while the market has been
\* closed for as long as it looks back; and the bars missing up to now.
Expected == Latest({b \in Calendar : b <= now /\ b + Lookback > now})
Missing == {b \in Calendar \ stored : b <= now + 1}

\* A bug: a cache that is one bar behind passes for complete.
IsCompleteMutant == stored # {} /\ Latest(stored) + 1 >= Expected

IsComplete == stored # {} /\ (Expected = 0 \/ Latest(stored) = Expected)

----------------------------------------------------------------------------
(* The operations.                                                          *)

Idle(p) == op[p].pc = "idle"
Put(p, r) == op' = [op EXCEPT ![p] = r]
Goto(p, where) == Put(p, [op[p] EXCEPT !.pc = where])
Only(p) == UNCHANGED <<now, marked, stored, high, faults>>

\* What is kept of a reader's call that has returned: its answer, and the bars
\* it promised.
Ended(o, ans) ==
  [Blank EXCEPT !.kind = o.kind, !.due = o.due, !.ans = ans,
                !.owed = {b \in o.owed \cap Quoted : b < o.ask}]
Answer(p, o, ans) == Put(p, IF p \in Workers THEN Blank ELSE Ended(o, ans))

Begin(p, kind, where) ==
  /\ Idle(p)
  /\ Put(p, [Blank EXCEPT !.kind = kind, !.pc = where, !.ask = now])
  /\ Only(p)

\* DataManagerWorker.run: one incremental sync, or one of Need bars.
Step(p) == Begin(p, "step", "sync")
Warm(p) == Begin(p, "warm", "sync")

\* ensure_coverage counts, then compares the latest bar with the calendar.
Ensure(p) ==
  /\ Idle(p)
  /\ Put(p, [Blank EXCEPT !.kind = "ensure", !.pc = "counted", !.ask = now,
                          !.count = Cardinality(stored)])
  /\ Only(p)

EnsureComplete(p) ==
  /\ op[p].pc = "counted"
  /\ LET o == [op[p] EXCEPT !.complete = IsComplete, !.due = Expected] IN
       IF o.count >= Need /\ o.complete
       THEN Answer(p, o, "yes")
       ELSE Put(p, [o EXCEPT !.pc = IF o.count < Need THEN "sync" ELSE "inc"])
  /\ Only(p)

\* CandleCache.sync counts again before it chooses how to fetch.
Sync(p) ==
  /\ op[p].pc = "sync"
  /\ Goto(p, IF op[p].kind # "step" /\ Cardinality(stored) < Need
             THEN "boot" ELSE "inc")
  /\ Only(p)

Bootstrap(p) ==
  /\ op[p].pc = "boot"
  /\ Put(p, IF stored = {}
            THEN [op[p] EXCEPT !.pc = "count"]
            ELSE [op[p] EXCEPT !.pc = "earliest", !.cursor = Cardinality(stored)])
  /\ Only(p)

Earliest(p) ==
  /\ op[p].pc = "earliest"
  /\ Put(p, [op[p] EXCEPT !.pc = "to", !.mark = Oldest(stored)])
  /\ Only(p)

FillEmpty(p) ==
  /\ op[p].pc = "count"
  /\ \E done \in {marked, now} :
       Put(p, [op[p] EXCEPT !.pc = "upsert", !.got = FetchCount(Need, done)])
  /\ Only(p)

\* The missing number and ten more, at most a chunk, all before the earliest.
FillBackward(p) ==
  /\ op[p].pc = "to"
  /\ LET missing == IF op[p].cursor < Need THEN Need - op[p].cursor ELSE 0
         chunk == Smaller(Larger(missing + Extra, Need), ChunkSize)
     IN Put(p, [op[p] EXCEPT
                  !.pc = "upsert", !.cursor = 0,
                  !.got = {b \in FetchTo(op[p].mark, chunk) : b < op[p].mark}])
  /\ Only(p)

Incremental(p) ==
  /\ op[p].pc = "inc"
  /\ Put(p, [op[p] EXCEPT !.pc = IF stored = {} THEN "upsert" ELSE "from",
                          !.mark = Latest(stored)])
  /\ Only(p)

\* A bug: the newest bars are fetched by their number, not from the latest.
FetchNewMutant(p) ==
  /\ op[p].pc = "from"
  /\ Put(p, [op[p] EXCEPT !.got = {b \in FetchCount(1, marked) : b > op[p].mark},
                          !.pc = "upsert"])
  /\ Only(p)

\* Two bars from the latest on; when none is new although the calendar expects
\* one, the last three bars instead.
FetchNew(p) ==
  /\ op[p].pc = "from"
  /\ LET new == {b \in FetchFrom(op[p].mark, 2) : b > op[p].mark} IN
       Put(p, [op[p] EXCEPT
                 !.got = new,
                 !.pc = IF new # {} \/ Expected \in {0, op[p].mark}
                        THEN "upsert" ELSE "last3"])
  /\ Only(p)

FetchLast(p) ==
  /\ op[p].pc = "last3"
  /\ \E done \in {marked, now} :
       Put(p, [op[p] EXCEPT
                 !.pc = "upsert",
                 !.got = {b \in FetchCount(3, done) : b > op[p].mark}])
  /\ Only(p)

\* Backfill of a window, and repair of what the calendar misses up to now.
Backfill(p) ==
  /\ Idle(p)
  /\ \E w \in Windows :
       Put(p, [Blank EXCEPT
                 !.kind = "window", !.ask = now,
                 !.pc = "pages", !.from = w[1], !.to = w[2], !.cursor = w[1],
                 !.owed = {b \in w[1]..w[2] : b <= now}])
  /\ Only(p)

Repair(p) ==
  /\ Idle(p)
  /\ Put(p, IF Missing = {}
            THEN [Blank EXCEPT !.kind = "repair", !.ans = "yes"]
            ELSE [Blank EXCEPT
                    !.kind = "repair", !.pc = "pages", !.ask = now,
                    !.owed = Missing, !.from = Min(Missing),
                    !.to = Max(Missing), !.cursor = Min(Missing)])
  /\ Only(p)

\* One page of fetch_candles_range.
Page(p) ==
  /\ op[p].pc = "pages"
  /\ LET o == op[p]
         batch == FetchFrom(o.cursor, ChunkSize)
         last == \/ batch = {}
                 \/ Max(batch) >= o.to
                 \/ Cardinality(batch) < ChunkSize
     IN Put(p, [o EXCEPT
                  !.got = @ \cup {b \in batch : b \in o.from..o.to},
                  !.cursor = IF last THEN 0 ELSE Max(batch) + 1,
                  !.pc = IF last THEN "keep" ELSE "pages"])
  /\ Only(p)

\* Repair stores what was missing when it began, and is done.
KeepMissing(p) ==
  /\ op[p].pc = "keep" /\ op[p].kind = "repair"
  /\ stored' = stored \cup (op[p].got \cap op[p].owed)
  /\ Put(p, Ended(op[p], "yes"))
  /\ UNCHANGED <<now, marked, high, faults>>

\* Backfill stores all it was given, and asks again from the last bar while a
\* full chunk came.
KeepWindow(p) ==
  /\ op[p].pc = "keep" /\ op[p].kind = "window"
  /\ stored' = stored \cup op[p].got
  /\ LET o == op[p]
         more == /\ o.got # {}
                 /\ Max(o.got) < o.to /\ Cardinality(o.got) >= ChunkSize
     IN Put(p, IF more
               THEN [o EXCEPT !.pc = "pages", !.got = {}, !.from = Max(o.got),
                              !.cursor = Max(o.got)]
               ELSE Ended(o, "yes"))
  /\ UNCHANGED <<now, marked, high, faults>>

\* The rest of sync: store, compare, and write the series' high-water mark.
Upsert(p) ==
  /\ op[p].pc = "upsert"
  /\ stored' = stored \cup op[p].got
  /\ Put(p, [op[p] EXCEPT !.pc = "check", !.got = {}, !.mark = 0,
                          !.count = @ + Cardinality(op[p].got)])
  /\ UNCHANGED <<now, marked, high, faults>>

Check(p) ==
  /\ op[p].pc = "check"
  /\ Put(p, [op[p] EXCEPT !.pc = "latest", !.complete = IsComplete, !.due = Expected])
  /\ Only(p)

ReadLatest(p) ==
  /\ op[p].pc = "latest"
  /\ Put(p, [op[p] EXCEPT !.pc = "mark", !.mark = Latest(stored)])
  /\ Only(p)

\* A bug: a mark once written is not moved any more.
MarkMutant(p) ==
  /\ op[p].pc = "mark"
  /\ high' = IF high = 0 THEN op[p].mark ELSE high
  /\ Answer(p, op[p], IF op[p].complete \/ op[p].count >= Need THEN "yes" ELSE "no")
  /\ UNCHANGED <<now, marked, stored, faults>>

Mark(p) ==
  /\ op[p].pc = "mark"
  /\ LET o == op[p] IN
       /\ high' = IF o.mark = 0 THEN high ELSE o.mark
       /\ Answer(p, o, IF o.complete \/ o.count >= Need
                       THEN "yes" ELSE "no")
  /\ UNCHANGED <<now, marked, stored, faults>>

\* A request fails after its retries, or the credentials are missing.
FetchFails(p) ==
  /\ op[p].pc \in Fetching /\ faults < MaxFaults
  /\ faults' = faults + 1
  /\ Answer(p, op[p], "no")
  /\ UNCHANGED <<now, marked, stored, high>>

----------------------------------------------------------------------------
\* A bar closes.  An operation is over before Drift more have closed.
Tick ==
  /\ now < MaxBar
  /\ \A p \in Procs : Idle(p) \/ now < op[p].ask + Drift
  /\ marked = now
  /\ now' = now + 1
  /\ UNCHANGED <<marked, stored, high, op, faults>>

\* External: the broker marks the bar complete.
Complete ==
  /\ marked < now
  /\ marked' = now
  /\ UNCHANGED <<now, stored, high, op, faults>>

Start(p) ==
  \/ p \in Workers /\ (Step(p) \/ Warm(p))
  \/ p \in Readers /\ (Ensure(p) \/ Backfill(p) \/ Repair(p))
Continue(p) ==
  \/ EnsureComplete(p) \/ Sync(p) \/ Bootstrap(p) \/ Earliest(p)
  \/ FillEmpty(p) \/ FillBackward(p) \/ Incremental(p)
  \/ FetchNew(p) \/ FetchLast(p) \/ Page(p) \/ KeepMissing(p) \/ KeepWindow(p)
  \/ Upsert(p) \/ Check(p) \/ ReadLatest(p) \/ Mark(p)

Next ==
  \/ \E p \in Procs : Start(p) \/ Continue(p) \/ FetchFails(p)
  \/ Tick \/ Complete

Spec == Init /\ [][Next]_vars

\* Pipelines run again and again, to warm up and with every candle; a
\* call that has begun goes on.
Fairness ==
  /\ WF_vars(Tick) /\ WF_vars(Complete)
  /\ \A p \in Procs : WF_vars(Continue(p))
  /\ \A p \in Workers : SF_vars(Step(p)) /\ SF_vars(Warm(p))

FairSpec == Spec /\ Fairness

----------------------------------------------------------------------------
(* Properties.                                                              *)

\* A caller of ensure_coverage that is told yes has the bars it asked for, or
\* the newest bar the calendar expected at the moment it was compared (it may
\* expect none), however the other callers' fetches fall between its own counts
\* and upserts.
AnswerHonest ==
  \A p \in Readers :
    op[p].kind = "ensure" /\ op[p].ans = "yes" =>
      \/ Cardinality(stored) >= Need
      \/ op[p].due \in stored \cup {0}

\* A backfill or a repair that ended without an error has stored every bar it
\* was to store that the broker has and had marked complete when it began.
Delivered ==
  \A p \in Readers :
    Idle(p) /\ op[p].kind \in {"window", "repair"} /\ op[p].ans = "yes" =>
      op[p].owed \subseteq stored

Holes == {b \in Quoted \ stored : (\E c \in stored : c < b) /\ b < Latest(stored)}

\* The syncs of any number of callers never tear the series: what a sync adds
\* meets the bars it found, whatever others stored since it looked.  Only a sync
\* that found the table empty may come too late, when a backfill of old bars
\* overtook it; and backfills and repairs themselves leave holes.
NotTorn ==
  [][(\E p \in Procs : Upsert(p) /\ (op[p].mark # 0 \/ stored = {}))
        => Holes' \subseteq Holes]_vars

\* The cache catches up with the broker, and the high-water mark the charts'
\* streams announce with the cache, although marks are written out of order.
CatchesUp ==
  <>[](Latest(stored) = Latest(Quoted) /\ high = Latest(stored))
=============================================================================
