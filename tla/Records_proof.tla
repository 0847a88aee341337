---------------------------- MODULE Records_proof ----------------------------
(***************************************************************************)
(* Proofs about the services that keep records: the broker's transactions,  *)
(* the backups of the settings, and the daily report; for any account,      *)
(* requests, sources, outages, failures and overlaps.                       *)
(***************************************************************************)
EXTENDS Records, FiniteSetTheorems, FunctionTheorems, WellFoundedInduction, TLAPS

\* A step is a step of the part that runs.
LEMMA RecordStep ==
  ASSUME [Next]_all
  PROVE  /\ part' = part
         /\ part = "book" => [K!Next]_K!vars
<1>1. CASE UNCHANGED all
  BY <1>1 DEF all, bookVars, K!vars
<1>2. CASE Next
  BY <1>2 DEF Next, AccountStep, ResearchStep, SimulationStep, StrategiesStep, SourcesStep,
       FeedbackStep, BrokerBookStep, AnalysisRunsStep, UpdaterStep, OandaClientStep
<1> QED
  BY <1>1, <1>2

-----------------------------------------------------------------------------
(* BrokerBook                                                              *)

\* The transactions, and what rows and lots hold.
BookTxns ==
  [type : {"MARKET_ORDER", "MARKET_ORDER_REJECT", "ORDER_FILL", "STOP_LOSS_ORDER", "ORDER_CANCEL",
           "DAILY_FINANCING"},
   order : Nat, trade : Nat, does : {"none", "opens", "cuts", "closes"}, batch : Nat]
Ends == {"none", "PENDING", "CANCELLED", "FILLED"}
StopSet == [order : Nat, is : Ends]
Reasons == {"none", "stop_loss", "partial_close", "broker_closed", "manual_close"}
LotSet(n) ==
  [state : {"open", "closed", "cancelled"}, units : 0..2, stop : StopSet,
   ids : SUBSET (1..n), details : SUBSET (1..n), reason : Reasons]

\* The stop order of a trade ends once, filled or cancelled, and then the trade
\* is closed; a trade is cut once at most, and nothing follows its close.
OneEnd(t) ==
  /\ t + 1 <= K!Now
  /\ \A i \in 1..K!Now : log[i].order = K!StopId(t) =>
       /\ ~K!IsOpen(t, K!Now)
       /\ log[i].type # "ORDER_CANCEL" =>
            log[i].type = "ORDER_FILL" /\ log[i].trade = t /\ log[i].does = "closes"
  /\ \A i, j \in 1..K!Now : log[i].order = K!StopId(t) /\ log[j].order = K!StopId(t) =>
       log[i].type = log[j].type
  /\ \A i, j \in K!Closers(t, K!Now) :
       /\ log[i].does = "closes" => j <= i
       /\ log[i].does = "cuts" /\ log[j].does = "cuts" => i = j
\* A transaction names earlier orders, trades and batches only.
LogInv ==
  /\ log \in Seq(BookTxns)
  /\ \A i \in 1..K!Now : log[i].order <= K!Now /\ log[i].trade <= K!Now /\ log[i].batch <= K!Now
  /\ \A t \in K!Trades(K!Now) : OneEnd(t)

\* A row taken for a stop-out, or for cancelled, is one.
RowsOK ==
  /\ DOMAIN row \subseteq 1..K!Now
  /\ \A t \in DOMAIN row :
       /\ row[t] \in LotSet(K!Now)
       /\ row[t].state = "cancelled" => t \notin K!Trades(K!Now)
       /\ row[t].reason = "stop_loss" => t \in K!Trades(K!Now) /\ K!StopFilled(t)

\* An event has the links of its transaction, or has lost them.
LinksOK(e, i) ==
  e.trade \in {0, log[i].trade} /\ e.order \in {0, log[i].order} /\ e.batch \in {0, log[i].batch}
EventsOK ==
  /\ DOMAIN event \subseteq 1..K!Now /\ 1..cursor \subseteq DOMAIN event
  /\ \A i \in DOMAIN event : LinksOK(event[i], i) /\ event[i].expires \in BOOLEAN

\* A trade that a request is closing is closed already, and by no stop.
BoundsOK ==
  /\ cursor \in 0..K!Now /\ erred \in BOOLEAN /\ stale \in BOOLEAN
  /\ lulls \in 0..MaxLulls /\ fulls \in 0..MaxFulls /\ faults \in 0..MaxFaults["book"]
  /\ lulls = 0 => ~stale
  /\ closing # 0 =>
       /\ closing \in DOMAIN row /\ closing \in K!Trades(K!Now)
       /\ ~K!IsOpen(closing, K!Now) /\ ~K!StopFilled(closing)
  /\ closing \in 0..K!Now

\* A lot is a trade as it was after n transactions, its stop order left out only
\* when it has not filled.
ShownAt(lot, t, n) ==
  /\ t \in K!Trades(n)
  /\ lot.state = (IF K!IsOpen(t, n) THEN "open" ELSE "closed") /\ lot.units = K!UnitsOf(t, n)
  /\ lot.ids = K!Closed(t, n) /\ lot.details = K!Closed(t, n) /\ lot.reason = "none"
  /\ \/ lot.stop = K!Stop(t, n)
     \/ lot.stop = K!NoStop /\ K!StopAt(n, K!StopId(t)) # "FILLED"

\* Nothing happened to the trade after c transactions.
Still(t, c) == t <= c /\ \A i \in K!Closers(t, K!Now) : i <= c

Places == {"idle", "details", "history", "stream", "poll", "live", "lots", "events", "enrich",
           "drift", "cancelled", "commit", "backfill", "clear", "rollup"}
SyncOK ==
  /\ sync = [pc |-> sync.pc, at |-> sync.at, lots |-> sync.lots, events |-> sync.events,
             live |-> sync.live, all |-> sync.all, twice |-> sync.twice]
  /\ sync.pc \in Places /\ sync.at \in 0..K!Now /\ sync.all \in BOOLEAN /\ sync.twice \in BOOLEAN
  /\ sync.pc \in {"history", "stream"} => sync.all
  /\ sync.pc \in {"idle", "details", "poll", "live", "events"} => ~sync.all
  /\ sync.pc \in {"idle", "details", "history", "poll"} => sync.live = {}
  /\ sync.pc # "idle" => cursor <= sync.at
  /\ sync.pc = "poll" /\ lulls = 0 => sync.at = cursor
  /\ sync.pc \in {"backfill", "clear", "rollup"} => sync.at = cursor

\* A lot is of a moment not before the position the cursor will take.  While no
\* sync was missed, a trade among the lots of a poll changed since the cursor
\* unless it is open, and one that is not among them did not change.
LotsOK ==
  /\ \A t \in DOMAIN sync.lots :
       sync.lots[t] \in LotSet(K!Now) /\ \E n \in sync.at..K!Now : ShownAt(sync.lots[t], t, n)
  /\ sync.live # {} => \A t \in K!Opened(K!Now) : t <= sync.at => t \in sync.live
  /\ sync.pc \in {"live", "lots", "events", "enrich"} /\ ~sync.all /\ lulls = 0 =>
       /\ \A t \in DOMAIN sync.lots : Still(t, cursor) => sync.lots[t].state = "open"
       /\ \A t \in K!Trades(K!Now) : Still(t, sync.at) /\ t \notin DOMAIN sync.lots => Still(t, cursor)
  /\ sync.pc = "history" => \A t \in K!Opened(K!Now) : t <= sync.at => t \in DOMAIN sync.lots
  /\ sync.pc \in {"stream", "lots", "enrich"} /\ sync.all =>
       \A t \in K!Trades(K!Now) : t <= sync.at => t \in DOMAIN sync.lots

\* Every event up to the position is read, or stored, before the cursor moves.
NewsOK ==
  /\ DOMAIN sync.events \subseteq 1..K!Now
  /\ \A i \in DOMAIN sync.events : LinksOK(sync.events[i], i)
  /\ sync.pc \in {"poll", "live", "lots", "events"} /\ ~sync.all =>
       (cursor + 1)..sync.at \subseteq DOMAIN sync.events
  /\ (sync.pc = "lots" /\ sync.all) \/ sync.pc \in {"enrich", "drift", "cancelled", "commit"} =>
       1..sync.at \subseteq DOMAIN event

\* The row says of the trade what the account does.
RowTrue(t) ==
  /\ t \in DOMAIN row
  /\ row[t].state = (IF K!IsOpen(t, K!Now) THEN "open" ELSE "closed") /\ row[t].units = K!UnitsOf(t, K!Now)
  /\ ~K!IsOpen(t, K!Now) /\ row[t].reason # "manual_close" => row[t].details = K!Closers(t, K!Now)
  /\ K!StopFilled(t) => row[t].reason = "stop_loss" /\ row[t].stop.is = "FILLED"

\* The rows are true of every trade that did not change after this position;
\* between the lots and their reasons of a bootstrap, of none.
Base == IF sync.pc \in {"drift", "cancelled", "commit"} THEN sync.at ELSE cursor
RowsTrue ==
  lulls = 0 /\ ~(sync.pc = "enrich" /\ sync.all) =>
    \A t \in K!Trades(K!Now) : Still(t, Base) => RowTrue(t)

ExposureOK ==
  /\ DOMAIN exposure \subseteq DOMAIN row /\ \A t \in DOMAIN exposure : exposure[t] \in 0..2
  /\ lulls = 0 /\ ~erred /\ sync.pc \notin {"backfill", "clear", "rollup"} =>
       \A t \in K!Trades(K!Now) : Still(t, cursor) =>
         /\ t \in DOMAIN exposure <=> K!IsOpen(t, K!Now)
         /\ K!IsOpen(t, K!Now) => exposure[t] = K!UnitsOf(t, K!Now)

BookInv ==
  /\ LogInv /\ RowsOK /\ EventsOK /\ BoundsOK /\ SyncOK /\ LotsOK /\ NewsOK /\ RowsTrue
  /\ ExposureOK

-----------------------------------------------------------------------------
\* The account's transactions: none is ever changed.

Grows ==
  /\ log \in Seq(BookTxns) /\ log' \in Seq(BookTxns) /\ K!Now <= K!Now'
  /\ \A i \in 1..K!Now : log'[i] = log[i]

LEMMA LogIs ==
  ASSUME log \in Seq(BookTxns)
  PROVE  K!Now \in Nat /\ \A i \in 1..K!Now : log[i] \in BookTxns
BY DEF K!Now

LEMMA GrowsIs ==
  ASSUME Grows
  PROVE  /\ log \in Seq(BookTxns) /\ log' \in Seq(BookTxns)
         /\ K!Now \in Nat /\ K!Now' \in Nat /\ K!Now <= K!Now'
         /\ \A i \in 1..K!Now : log'[i] = log[i]
         /\ \A i \in 1..K!Now' : log'[i] \in BookTxns
<1>1. log' \in Seq(BookTxns) /\ K!Now' = Len(log')
  BY DEF Grows, K!Now
<1>2. K!Now' \in Nat /\ \A i \in 1..K!Now' : log'[i] \in BookTxns
  BY <1>1
<1> QED
  BY <1>1, <1>2, LogIs DEF Grows

LEMMA BatchIs ==
  ASSUME log \in Seq(BookTxns), NEW b \in Seq(BookTxns), K!Batch(b)
  PROVE  /\ Grows /\ K!Now' = K!Now + Len(b) /\ K!Now' \in Nat
         /\ \A i \in 1..Len(b) : log'[K!Now + i] = b[i]
BY DEF K!Batch, K!Now, Grows

\* What was to be seen of the first transactions stays.
LEMMA PastIs ==
  ASSUME Grows, NEW n \in 0..K!Now
  PROVE  /\ K!Trades(n)' = K!Trades(n)
         /\ \A t : K!Closers(t, n)' = K!Closers(t, n)
         /\ \A t : K!IsOpen(t, n)' <=> K!IsOpen(t, n)
         /\ \A t : K!UnitsOf(t, n)' = K!UnitsOf(t, n)
         /\ K!Opened(n)' = K!Opened(n)
         /\ \A o : K!StopAt(n, o)' = K!StopAt(n, o)
         /\ \A t : K!Stop(t, n)' = K!Stop(t, n)
         /\ \A t : K!Closed(t, n)' = K!Closed(t, n)
<1>1. K!Now \in Nat /\ \A i \in 1..n : log'[i] = log[i]
  BY LogIs DEF Grows
<1>2. K!Trades(n)' = K!Trades(n)
  BY <1>1 DEF K!Trades
<1>3. \A t : K!Closers(t, n)' = K!Closers(t, n)
  BY <1>1 DEF K!Closers
<1>4. \A t : K!IsOpen(t, n)' <=> K!IsOpen(t, n)
  BY <1>1, <1>3 DEF K!IsOpen, K!Closers
<1>5. \A t : K!UnitsOf(t, n)' = K!UnitsOf(t, n)
  BY <1>3, <1>4 DEF K!UnitsOf
<1>6. K!Opened(n)' = K!Opened(n)
  BY <1>2, <1>4 DEF K!Opened
<1>7. \A o : K!StopAt(n, o)' = K!StopAt(n, o)
  <2>1. ASSUME NEW o PROVE {i \in 1..n : log'[i].order = o} = {i \in 1..n : log[i].order = o}
    BY <1>1
  <2>2. ASSUME NEW o
        PROVE (\E i \in {j \in 1..n : log'[j].order = o} : log'[i].type = "ORDER_CANCEL")
                <=> (\E i \in {j \in 1..n : log[j].order = o} : log[i].type = "ORDER_CANCEL")
    BY <1>1
  <2> QED
    BY <2>1, <2>2 DEF K!StopAt
<1>8. \A t : K!Stop(t, n)' = K!Stop(t, n)
  BY <1>7 DEF K!Stop, K!StopId
<1>9. \A t : K!Closed(t, n)' = K!Closed(t, n)
  BY <1>3, <1>4 DEF K!Closed
<1> QED
  BY <1>2, <1>3, <1>4, <1>5, <1>6, <1>7, <1>8, <1>9

\* More transactions show no fewer trades and closes.
LEMMA LaterIs ==
  ASSUME log \in Seq(BookTxns), NEW n \in 0..K!Now, NEW m \in n..K!Now, NEW t
  PROVE  /\ K!Trades(n) \subseteq K!Trades(m) /\ K!Closers(t, n) \subseteq K!Closers(t, m)
         /\ K!IsOpen(t, m) => K!IsOpen(t, n)
         /\ K!Closers(t, n) \subseteq 1..n /\ K!Trades(n) \subseteq 1..n
         /\ IsFiniteSet(K!Closers(t, n))
         /\ ~K!IsOpen(t, n) => K!Closers(t, n) # {}
<1>1. K!Now \in Nat /\ m \in Nat /\ n \in Nat /\ 1..n \subseteq 1..m
  BY LogIs
<1>2. K!Trades(n) \subseteq K!Trades(m) /\ K!Closers(t, n) \subseteq K!Closers(t, m)
  BY <1>1 DEF K!Trades, K!Closers
<1>3. K!IsOpen(t, m) => K!IsOpen(t, n)
  BY <1>2 DEF K!IsOpen
<1>4. K!Closers(t, n) \subseteq 1..n /\ K!Trades(n) \subseteq 1..n
  BY DEF K!Trades, K!Closers
<1>5. IsFiniteSet(K!Closers(t, n))
  BY <1>1, <1>4, FS_Interval, FS_Subset
<1>6. ~K!IsOpen(t, n) => K!Closers(t, n) # {}
  BY DEF K!IsOpen
<1> QED
  BY <1>2, <1>3, <1>4, <1>5, <1>6

\* The stop order of a trade has filled if one of its fills is among the
\* transactions: it ends once.
LEMMA StopIs ==
  ASSUME LogInv, NEW t \in K!Trades(K!Now), NEW n \in 0..K!Now
  PROVE  /\ K!StopAt(n, K!StopId(t)) = "FILLED" <=>
              \E i \in 1..n : log[i].order = K!StopId(t) /\ log[i].type = "ORDER_FILL"
         /\ K!StopAt(n, K!StopId(t)) \in Ends
<1>1. OneEnd(t) /\ n \in Nat /\ K!Now \in Nat /\ 1..n \subseteq 1..K!Now
  BY LogIs DEF LogInv
<1> DEFINE ends == {i \in 1..n : log[i].order = K!StopId(t)}
<1>2. K!StopAt(n, K!StopId(t)) =
        IF ends = {} THEN "PENDING"
        ELSE IF \E i \in ends : log[i].type = "ORDER_CANCEL" THEN "CANCELLED" ELSE "FILLED"
  BY DEF K!StopAt
<1>3. \A i \in ends : i \in 1..K!Now /\ log[i].order = K!StopId(t) /\ i \in 1..n
  BY <1>1
<1>4. \A i, j \in ends : log[i].type = log[j].type
  BY <1>1, <1>3 DEF OneEnd
<1>5. \A i \in ends : log[i].type # "ORDER_CANCEL" => log[i].type = "ORDER_FILL"
  BY <1>1, <1>3 DEF OneEnd
<1>6. (\E i \in ends : log[i].type = "ORDER_FILL") <=>
        \E i \in 1..n : log[i].order = K!StopId(t) /\ log[i].type = "ORDER_FILL"
  OBVIOUS
<1> HIDE DEF ends
<1>7. CASE ends = {}
  BY <1>2, <1>6, <1>7 DEF Ends
<1>8. CASE \E i \in ends : log[i].type = "ORDER_CANCEL"
  BY <1>2, <1>4, <1>6, <1>8 DEF Ends
<1>9. CASE ends # {} /\ \A i \in ends : log[i].type # "ORDER_CANCEL"
  BY <1>2, <1>5, <1>6, <1>9 DEF Ends
<1> QED
  BY <1>7, <1>8, <1>9

LEMMA SizeIs == \A set : K!Cardinality(set) = Cardinality(set)
BY DEF K!Cardinality, Cardinality

LEMMA UnitsIs ==
  ASSUME LogInv, NEW t \in K!Trades(K!Now), NEW n \in 0..K!Now
  PROVE  /\ K!UnitsOf(t, n) \in 0..2
         /\ K!IsOpen(t, n) => K!UnitsOf(t, n) # 0
         /\ ~K!IsOpen(t, n) => K!UnitsOf(t, n) = 0
         /\ K!IsOpen(t, n) /\ K!UnitsOf(t, n) = 2 => K!Closers(t, n) = {}
<1>1. OneEnd(t) /\ K!Now \in Nat /\ log \in Seq(BookTxns)
  BY LogIs DEF LogInv
<1>2. IsFiniteSet(K!Closers(t, n)) /\ K!Closers(t, n) \subseteq K!Closers(t, K!Now)
  BY <1>1, LaterIs
<1>3. ASSUME K!IsOpen(t, n), K!Closers(t, n) # {}
      PROVE  Cardinality(K!Closers(t, n)) = 1
  <2>1. PICK i \in K!Closers(t, n) : TRUE
    BY <1>3
  <2>2. ASSUME NEW j \in K!Closers(t, n) PROVE j = i
    <3>1. log[i].does = "cuts" /\ log[j].does = "cuts"
      BY <1>3 DEF K!IsOpen, K!Closers
    <3> QED
      BY <3>1, <1>1, <1>2 DEF OneEnd
  <2>3. K!Closers(t, n) = {i}
    BY <2>1, <2>2
  <2> QED
    BY <2>3, FS_Singleton
<1>4. K!Closers(t, n) = {} => Cardinality(K!Closers(t, n)) = 0
  BY FS_EmptySet
<1>5. K!UnitsOf(t, n) = IF K!IsOpen(t, n) THEN 2 - Cardinality(K!Closers(t, n)) ELSE 0
  BY SizeIs DEF K!UnitsOf
<1>6. CASE ~K!IsOpen(t, n)
  BY <1>5, <1>6
<1>7. CASE K!IsOpen(t, n) /\ K!Closers(t, n) = {}
  BY <1>4, <1>5, <1>7
<1>8. CASE K!IsOpen(t, n) /\ K!Closers(t, n) # {}
  <2>1. K!UnitsOf(t, n) = 1
    BY <1>3, <1>5, <1>8
  <2> QED
    BY <2>1, <1>8
<1> QED
  BY <1>6, <1>7, <1>8

\* A trade that nothing touched since looks as it did.
LEMMA StillIs ==
  ASSUME LogInv, NEW c \in 0..K!Now, NEW n \in c..K!Now, NEW t \in K!Trades(K!Now), Still(t, c)
  PROVE  /\ t \in K!Trades(n) /\ K!Closers(t, n) = K!Closers(t, K!Now)
         /\ K!IsOpen(t, n) <=> K!IsOpen(t, K!Now)
         /\ K!UnitsOf(t, n) = K!UnitsOf(t, K!Now)
         /\ K!StopFilled(t) <=> K!StopAt(n, K!StopId(t)) = "FILLED"
<1>1. OneEnd(t) /\ K!Now \in Nat /\ log \in Seq(BookTxns) /\ n \in 0..K!Now /\ c \in Nat
  BY LogIs DEF LogInv
<1>2. t \in K!Trades(n)
  BY <1>1 DEF Still, K!Trades
<1>3. K!Closers(t, n) = K!Closers(t, K!Now)
  BY <1>1 DEF Still, K!Closers
<1>4. K!IsOpen(t, n) <=> K!IsOpen(t, K!Now)
  BY <1>3 DEF K!IsOpen
<1>5. K!UnitsOf(t, n) = K!UnitsOf(t, K!Now)
  BY <1>3, <1>4 DEF K!UnitsOf
<1>6. ASSUME NEW i \in 1..K!Now, log[i].order = K!StopId(t), log[i].type = "ORDER_FILL"
      PROVE  i \in 1..n
  <2>1. i \in K!Closers(t, K!Now)
    BY <1>1, <1>6 DEF OneEnd, K!Closers
  <2> QED
    BY <1>1, <1>3, <2>1 DEF K!Closers
<1>7. K!StopFilled(t) <=> K!StopAt(n, K!StopId(t)) = "FILLED"
  BY <1>1, <1>6, StopIs DEF K!StopFilled
<1> QED
  BY <1>2, <1>3, <1>4, <1>5, <1>7

\* A stop that has filled has closed its trade, for good.
LEMMA FilledIs ==
  ASSUME LogInv, NEW t \in K!Trades(K!Now), NEW n \in 0..K!Now,
         K!StopAt(n, K!StopId(t)) = "FILLED"
  PROVE  K!StopFilled(t) /\ ~K!IsOpen(t, K!Now)
<1>1. OneEnd(t) /\ K!Now \in Nat /\ K!Now \in 0..K!Now /\ 1..n \subseteq 1..K!Now
  BY LogIs DEF LogInv
<1>2. PICK i \in 1..n : log[i].order = K!StopId(t) /\ log[i].type = "ORDER_FILL"
  BY StopIs
<1>3. ~K!IsOpen(t, K!Now)
  BY <1>1, <1>2 DEF OneEnd
<1> QED
  BY <1>1, <1>2, <1>3, StopIs DEF K!StopFilled

\* A trade that no new transaction is about.
LEMMA QuietIs ==
  ASSUME LogInv, Grows, NEW t, t \in K!Trades(K!Now)', t + 1 <= K!Now',
         \A i \in K!Now + 1..K!Now' : log'[i].order # t + 1,
         \A i \in K!Now + 1..K!Now' : log'[i].trade # t \/ log'[i].does \notin {"cuts", "closes"}
  PROVE  OneEnd(t)'
<1> DEFINE n == K!Now
           m == K!Now'
<1>0. n \in Nat /\ m \in Nat /\ n <= m
  BY GrowsIs
<1> HIDE DEF n, m
<1>1. t \in 1..m /\ log'[t].does = "opens"
  BY DEF K!Trades, m
<1>2. K!Closers(t, K!Now)' = K!Closers(t, K!Now)
  BY <1>0, <1>1, GrowsIs DEF K!Closers, n, m
<1>3. K!IsOpen(t, K!Now)' <=> K!IsOpen(t, K!Now)
  BY <1>2, GrowsIs DEF K!IsOpen, K!Closers
<1>4. ASSUME NEW i \in 1..K!Now', log'[i].order = t + 1
      PROVE  i \in 1..K!Now /\ log'[i] = log[i]
  BY <1>0, <1>4, GrowsIs DEF n, m
<1>5. CASE t \in 1..K!Now
  <2>1. t \in K!Trades(K!Now)
    BY <1>1, <1>5 DEF K!Trades, Grows
  <2>2. OneEnd(t)
    BY <2>1 DEF LogInv
  <2>3. \A i \in K!Closers(t, K!Now) : log'[i] = log[i]
    BY DEF Grows, K!Closers
  <2>4. \A i, j \in K!Closers(t, K!Now)' :
          /\ log'[i].does = "closes" => j <= i
          /\ log'[i].does = "cuts" /\ log'[j].does = "cuts" => i = j
    BY <2>2, <2>3, <1>2 DEF OneEnd
  <2>5. \A i \in 1..K!Now' : log'[i].order = t + 1 =>
          /\ ~K!IsOpen(t, K!Now)'
          /\ log'[i].type # "ORDER_CANCEL" =>
               log'[i].type = "ORDER_FILL" /\ log'[i].trade = t /\ log'[i].does = "closes"
    BY <2>2, <1>3, <1>4 DEF OneEnd, K!StopId
  <2>6. \A i, j \in 1..K!Now' : log'[i].order = t + 1 /\ log'[j].order = t + 1 =>
          log'[i].type = log'[j].type
    BY <2>2, <1>4 DEF OneEnd, K!StopId
  <2> QED
    BY <2>4, <2>5, <2>6 DEF OneEnd, K!StopId
<1>6. CASE t \notin 1..K!Now
  <2>1. \A i \in 1..K!Now : log[i].order <= K!Now /\ log[i].trade <= K!Now
    BY DEF LogInv
  <2>2. K!Closers(t, K!Now)' = {}
    BY <2>1, <1>0, <1>1, <1>2, <1>6 DEF K!Closers, n, m
  <2>3. \A i \in 1..K!Now' : log'[i].order # t + 1
    BY <2>1, <1>0, <1>1, <1>4, <1>6 DEF n, m
  <2> QED
    BY <2>2, <2>3 DEF OneEnd, K!StopId
<1> QED
  BY <1>5, <1>6

\* A trade that was open and that one new transaction closes.
LEMMA ShutIs ==
  ASSUME LogInv, Grows, NEW t \in K!Opened(K!Now), NEW c \in K!Now + 1..K!Now',
         log'[c].type = "ORDER_FILL", log'[c].trade = t, log'[c].does = "closes",
         \A i \in K!Now + 1..K!Now' : log'[i].trade = t => i = c,
         \A i, j \in K!Now + 1..K!Now' : log'[i].order = t + 1 /\ log'[j].order = t + 1 => i = j,
         \A i \in K!Now + 1..K!Now' : log'[i].order = t + 1 => i = c \/ log'[i].type = "ORDER_CANCEL"
  PROVE  OneEnd(t)'
<1> DEFINE n == K!Now
           m == K!Now'
<1>0. n \in Nat /\ m \in Nat /\ n <= m
  BY GrowsIs
<1>1. t \in K!Trades(n) /\ OneEnd(t) /\ K!IsOpen(t, n) /\ t + 1 <= n
  BY DEF LogInv, K!Opened, n, OneEnd
<1> HIDE DEF n, m
<1>2. K!Closers(t, K!Now)' = K!Closers(t, n) \cup {c}
  BY <1>0, GrowsIs DEF K!Closers, n, m
<1>3. c \in m..m \/ c < m
  BY <1>0 DEF n, m
<1>4. ~K!IsOpen(t, K!Now)'
  BY <1>2 DEF K!IsOpen
<1>5. \A i \in K!Closers(t, n) : i \in 1..n /\ log'[i] = log[i] /\ log[i].does = "cuts"
  BY <1>0, <1>1, GrowsIs DEF K!Closers, K!IsOpen, n
<1>6. \A i, j \in K!Closers(t, n) : log[i].does = "cuts" /\ log[j].does = "cuts" => i = j
  BY <1>1 DEF OneEnd, n
<1>7. \A i, j \in K!Closers(t, K!Now)' :
        /\ log'[i].does = "closes" => j <= i
        /\ log'[i].does = "cuts" /\ log'[j].does = "cuts" => i = j
  BY <1>0, <1>2, <1>5, <1>6 DEF n, m
<1>8. \A i \in 1..n : log'[i].order # t + 1
  BY <1>0, <1>1, GrowsIs DEF OneEnd, K!StopId, n
<1>9. \A i \in 1..m : log'[i].order = t + 1 => i \in n + 1..m
  BY <1>0, <1>8
<1>10. \A i \in 1..K!Now' : log'[i].order = t + 1 /\ log'[i].type # "ORDER_CANCEL" =>
         log'[i].type = "ORDER_FILL" /\ log'[i].trade = t /\ log'[i].does = "closes"
  BY <1>9 DEF n, m
<1>11. \A i, j \in 1..K!Now' : log'[i].order = t + 1 /\ log'[j].order = t + 1 =>
         log'[i].type = log'[j].type
  BY <1>9 DEF n, m
<1>12. t + 1 <= K!Now'
  BY <1>0, <1>1 DEF m, K!Trades
<1> QED
  BY <1>4, <1>7, <1>10, <1>11, <1>12 DEF OneEnd, K!StopId

\* A trade that was whole and that one new transaction cuts.
LEMMA CutIs ==
  ASSUME LogInv, Grows, NEW t \in K!Opened(K!Now), K!Closers(t, K!Now) = {},
         NEW c \in K!Now + 1..K!Now', log'[c].does = "cuts",
         \A i \in K!Now + 1..K!Now' : log'[i].trade = t => i = c,
         \A i \in K!Now + 1..K!Now' : log'[i].order # t + 1
  PROVE  OneEnd(t)'
<1> DEFINE n == K!Now
           m == K!Now'
<1>0. n \in Nat /\ m \in Nat /\ n <= m
  BY GrowsIs
<1>1. t \in K!Trades(n) /\ OneEnd(t) /\ K!IsOpen(t, n) /\ t + 1 <= n
  BY DEF LogInv, K!Opened, n, OneEnd
<1> HIDE DEF n, m
<1>2. \A i \in K!Closers(t, K!Now)' : i = c
  <2>1. \A i \in 1..n : ~(log[i].trade = t /\ log[i].does \in {"cuts", "closes"})
    BY DEF K!Closers, n
  <2>2. \A i \in 1..n : log'[i] = log[i]
    BY GrowsIs DEF n
  <2>3. \A i \in 1..m : i \in 1..n \/ i \in n + 1..m
    BY <1>0
  <2>4. ASSUME NEW i \in K!Closers(t, K!Now)' PROVE i = c
    <3>1. i \in 1..m /\ log'[i].trade = t /\ log'[i].does \in {"cuts", "closes"}
      BY <2>4 DEF K!Closers, m
    <3>2. i \in n + 1..m
      BY <3>1, <2>1, <2>2, <2>3
    <3> QED
      BY <3>1, <3>2 DEF n, m
  <2> QED
    BY <2>4
<1>3. \A i, j \in K!Closers(t, K!Now)' :
        /\ log'[i].does = "closes" => j <= i
        /\ log'[i].does = "cuts" /\ log'[j].does = "cuts" => i = j
  BY <1>0, <1>2 DEF n, m
<1>4. \A i \in 1..K!Now' : log'[i].order # t + 1
  BY <1>0, <1>1, GrowsIs DEF OneEnd, K!StopId, n, m
<1>5. t + 1 <= K!Now'
  BY <1>0, <1>1 DEF m, K!Trades
<1> QED
  BY <1>3, <1>4, <1>5 DEF OneEnd, K!StopId

\* A batch whose trades end as they should.
LEMMA BatchKeeps ==
  ASSUME LogInv, Grows, NEW n \in Nat, NEW m \in Nat, n = K!Now, m = K!Now',
         \A i \in n + 1..m : log'[i].order <= m,
         \A i \in n + 1..m : log'[i].trade <= m,
         \A i \in n + 1..m : log'[i].batch <= m,
         \A t \in K!Trades(m)' : OneEnd(t)'
  PROVE  LogInv'
<1>1. n <= m /\ \A i \in 1..n : log'[i] = log[i] /\ log'[i] \in BookTxns
  BY GrowsIs
<1>2. \A i \in 1..n : log[i].order <= n /\ log[i].trade <= n /\ log[i].batch <= n
  BY DEF LogInv
<1>3. \A i \in 1..m : i \in 1..n \/ i \in n + 1..m
  BY <1>1
<1>4. \A x \in BookTxns : x.order \in Nat /\ x.trade \in Nat /\ x.batch \in Nat
  BY DEF BookTxns
<1>5. \A i \in 1..m : log'[i].order <= m
  BY <1>1, <1>2, <1>3, <1>4
<1>6. \A i \in 1..m : log'[i].trade <= m
  BY <1>1, <1>2, <1>3, <1>4
<1>7. \A i \in 1..m : log'[i].batch <= m
  BY <1>1, <1>2, <1>3, <1>4
<1> QED
  BY <1>5, <1>6, <1>7, GrowsIs DEF LogInv

LEMMA OpensIs ==
  ASSUME LogInv, K!Opens
  PROVE  LogInv' /\ Grows
<1>1. PICK n \in Nat : n = K!Now
  BY LogIs DEF LogInv
<1> DEFINE b == <<K!Txn("MARKET_ORDER", 0, 0, "none", n + 1), K!Txn("ORDER_FILL", n + 1, n + 1 + 1, "opens", n + 1),
                  K!Txn("STOP_LOSS_ORDER", 0, n + 1 + 1, "none", n + 1)>>
<1>2. K!Batch(b)
  BY <1>1 DEF K!Opens
<1>3. b \in Seq(BookTxns) /\ Len(b) = 3
  <2>1. \A o, t, i \in Nat : K!Txn("MARKET_ORDER", o, t, "none", i) \in BookTxns
    BY DEF K!Txn, BookTxns
  <2>2. \A o, t, i \in Nat : K!Txn("ORDER_FILL", o, t, "opens", i) \in BookTxns
    BY DEF K!Txn, BookTxns
  <2>3. \A o, t, i \in Nat : K!Txn("STOP_LOSS_ORDER", o, t, "none", i) \in BookTxns
    BY DEF K!Txn, BookTxns
  <2> QED
    BY <1>1, <2>1, <2>2, <2>3
<1>4. /\ b[1].order = 0 /\ b[1].trade = 0 /\ b[1].batch = n + 1 /\ b[1].does = "none"
      /\ b[2].order = n + 1 /\ b[2].trade = n + 2 /\ b[2].batch = n + 1 /\ b[2].does = "opens"
      /\ b[3].order = 0 /\ b[3].trade = n + 2 /\ b[3].batch = n + 1 /\ b[3].does = "none"
  BY <1>1 DEF K!Txn
<1> HIDE DEF b
<1>5. PICK m \in Nat : m = K!Now' /\ m = n + 3
  BY <1>1, <1>2, <1>3, BatchIs DEF LogInv
<1>6. Grows /\ log'[n + 1] = b[1] /\ log'[n + 2] = b[2] /\ log'[n + 3] = b[3]
  <2>1. Grows /\ \A i \in 1..Len(b) : log'[n + i] = b[i]
    BY <1>1, <1>2, <1>3, BatchIs DEF LogInv
  <2> QED
    BY <2>1, <1>3
<1>7. \A i \in n + 1..m : i = n + 1 \/ i = n + 2 \/ i = n + 3
  BY <1>1, <1>5
<1>8. \A i \in n + 1..m : log'[i].order <= m
  BY <1>1, <1>4, <1>5, <1>6, <1>7
<1>9. \A i \in n + 1..m : log'[i].trade <= m
  BY <1>1, <1>4, <1>5, <1>6, <1>7
<1>10. \A i \in n + 1..m : log'[i].batch <= m
  BY <1>1, <1>4, <1>5, <1>6, <1>7
<1>11. ASSUME NEW t, t \in K!Trades(m)' PROVE OneEnd(t)'
  <2>1. t \in 1..m /\ log'[t].does = "opens"
    BY <1>11 DEF K!Trades
  <2>2. t \in K!Trades(n) \/ t = n + 2
    <3>1. CASE t \in 1..n
      BY <2>1, <3>1, <1>1, <1>6, GrowsIs DEF K!Trades
    <3>2. CASE t \in n + 1..m
      BY <2>1, <3>2, <1>4, <1>6, <1>7
    <3> QED
      BY <2>1, <3>1, <3>2, <1>1, <1>5
  <2>3. t + 1 <= n \/ t = n + 2
    BY <2>2, <1>1 DEF LogInv, OneEnd
  <2>4. t + 1 <= m
    BY <2>1, <2>3, <1>1, <1>5
  <2>5. \A i \in n + 1..m : log'[i].order # t + 1
    BY <2>1, <2>3, <1>1, <1>4, <1>5, <1>6, <1>7
  <2>6. \A i \in n + 1..m : log'[i].trade # t \/ log'[i].does \notin {"cuts", "closes"}
    BY <1>4, <1>6, <1>7
  <2> QED
    BY <2>4, <2>5, <2>6, <1>1, <1>5, <1>6, <1>11, QuietIs
<1> QED
  BY <1>1, <1>5, <1>6, <1>8, <1>9, <1>10, <1>11, BatchKeeps

\* A trade that a batch says nothing of.
LEMMA OthersQuiet ==
  ASSUME LogInv, Grows, NEW n \in Nat, NEW m \in Nat, n = K!Now, m = K!Now',
         NEW t \in K!Trades(n),
         \A i \in n + 1..m : log'[i].does # "opens",
         \A i \in n + 1..m : log'[i].order \in {0, n + 1, t + 1},
         \A i \in n + 1..m : log'[i].trade \in {0, t},
         NEW u, u \in K!Trades(m)', u # t
  PROVE  OneEnd(u)'
<1>1. u \in 1..m /\ log'[u].does = "opens" /\ t \in Nat
  BY DEF K!Trades
<1>2. n <= m
  BY GrowsIs
<1>3. u \in K!Trades(n)
  BY <1>1, <1>2, GrowsIs DEF K!Trades
<1>4. u + 1 <= n
  BY <1>3 DEF LogInv, OneEnd
<1>5. u + 1 <= m
  BY <1>1, <1>2, <1>4
<1>6. \A i \in n + 1..m : log'[i].order # u + 1
  BY <1>1, <1>4
<1>7. \A i \in n + 1..m : log'[i].trade # u \/ log'[i].does \notin {"cuts", "closes"}
  BY <1>1
<1> QED
  BY <1>5, <1>6, <1>7, QuietIs

LEMMA CutsIs ==
  ASSUME LogInv, NEW t \in K!Opened(K!Now), K!Cuts(t)
  PROVE  LogInv' /\ Grows
<1>1. PICK n \in Nat : n = K!Now
  BY LogIs DEF LogInv
<1>2. t \in K!Trades(n) /\ t \in Nat /\ t <= n /\ K!Closers(t, K!Now) = {}
  BY <1>1, UnitsIs DEF K!Opened, K!Cuts, K!Trades
<1> DEFINE b == <<K!Txn("MARKET_ORDER", 0, 0, "none", n + 1), K!Txn("ORDER_FILL", n + 1, t, "cuts", n + 1)>>
<1>3. K!Batch(b)
  BY <1>1 DEF K!Cuts, K!ByOrder
<1>4. b \in Seq(BookTxns) /\ Len(b) = 2
  <2>1. \A o, u, i \in Nat : K!Txn("MARKET_ORDER", o, u, "none", i) \in BookTxns
    BY DEF K!Txn, BookTxns
  <2>2. \A o, u, i \in Nat : K!Txn("ORDER_FILL", o, u, "cuts", i) \in BookTxns
    BY DEF K!Txn, BookTxns
  <2> QED
    BY <1>1, <1>2, <2>1, <2>2
<1>5. /\ b[1].order = 0 /\ b[1].trade = 0 /\ b[1].batch = n + 1 /\ b[1].does = "none"
      /\ b[2].order = n + 1 /\ b[2].trade = t /\ b[2].batch = n + 1 /\ b[2].does = "cuts"
  BY <1>1 DEF K!Txn
<1> HIDE DEF b
<1>6. PICK m \in Nat : m = K!Now' /\ m = n + 2
  BY <1>1, <1>3, <1>4, BatchIs DEF LogInv
<1>7. Grows /\ log'[n + 1] = b[1] /\ log'[n + 2] = b[2]
  <2>1. Grows /\ \A i \in 1..Len(b) : log'[n + i] = b[i]
    BY <1>1, <1>3, <1>4, BatchIs DEF LogInv
  <2> QED
    BY <2>1, <1>4
<1>8. \A i \in n + 1..m : i = n + 1 \/ i = n + 2
  BY <1>1, <1>6
<1>9. \A i \in n + 1..m : log'[i].order <= m
  BY <1>1, <1>5, <1>6, <1>7, <1>8
<1>10. \A i \in n + 1..m : log'[i].trade <= m
  BY <1>1, <1>2, <1>5, <1>6, <1>7, <1>8
<1>11. \A i \in n + 1..m : log'[i].batch <= m
  BY <1>1, <1>5, <1>6, <1>7, <1>8
<1>12. t + 1 <= n
  BY <1>1, <1>2 DEF LogInv, OneEnd
<1>13. OneEnd(t)'
  <2>1. \A i \in n + 1..m : log'[i].trade = t => i = n + 2
    BY <1>2, <1>5, <1>7, <1>8 DEF K!Trades
  <2>2. \A i \in n + 1..m : log'[i].order # t + 1
    BY <1>1, <1>2, <1>5, <1>7, <1>8, <1>12
  <2>3. n + 2 \in n + 1..m /\ log'[n + 2].does = "cuts"
    BY <1>1, <1>5, <1>6, <1>7
  <2> QED
    BY <2>1, <2>2, <2>3, <1>1, <1>2, <1>6, <1>7, CutIs
<1>14. ASSUME NEW u, u \in K!Trades(m)' PROVE OneEnd(u)'
  <2>1. \A i \in n + 1..m : log'[i].does # "opens"
    BY <1>5, <1>7, <1>8
  <2>2. \A i \in n + 1..m : log'[i].order \in {0, n + 1, t + 1}
    BY <1>5, <1>7, <1>8
  <2>3. \A i \in n + 1..m : log'[i].trade \in {0, t}
    BY <1>5, <1>7, <1>8
  <2>4. CASE u # t
    BY <2>1, <2>2, <2>3, <2>4, <1>1, <1>2, <1>6, <1>7, <1>14, OthersQuiet
  <2> QED
    BY <2>4, <1>13
<1> QED
  BY <1>1, <1>6, <1>7, <1>9, <1>10, <1>11, <1>14, BatchKeeps

LEMMA ClosesIs ==
  ASSUME LogInv, NEW t \in K!Opened(K!Now), K!Closes(t)
  PROVE  /\ LogInv' /\ Grows
         /\ t \in K!Trades(K!Now)' /\ ~K!IsOpen(t, K!Now)' /\ ~K!StopFilled(t)'
<1>1. PICK n \in Nat : n = K!Now
  BY LogIs DEF LogInv
<1>2. t \in K!Trades(n) /\ t \in Nat /\ t # 0 /\ t <= n
  BY <1>1 DEF K!Opened, K!Trades
<1> DEFINE b == <<K!Txn("MARKET_ORDER", 0, 0, "none", n + 1),
                  K!Txn("ORDER_FILL", n + 1, t, "closes", n + 1)>>
                  \o <<K!Txn("ORDER_CANCEL", t + 1, 0, "none", n + 1)>>
<1>3. K!Batch(b)
  BY <1>1 DEF K!Closes, K!ByOrder, K!StopId
<1>4. b \in Seq(BookTxns) /\ Len(b) = 3
  <2>1. \A o, u, i \in Nat : K!Txn("MARKET_ORDER", o, u, "none", i) \in BookTxns
    BY DEF K!Txn, BookTxns
  <2>2. \A o, u, i \in Nat : K!Txn("ORDER_FILL", o, u, "closes", i) \in BookTxns
    BY DEF K!Txn, BookTxns
  <2>3. \A o, u, i \in Nat : K!Txn("ORDER_CANCEL", o, u, "none", i) \in BookTxns
    BY DEF K!Txn, BookTxns
  <2> QED
    BY <1>1, <1>2, <2>1, <2>2, <2>3
<1>5. /\ b[1].order = 0 /\ b[1].trade = 0 /\ b[1].batch = n + 1 /\ b[1].does = "none"
      /\ b[1].type = "MARKET_ORDER"
      /\ b[2].order = n + 1 /\ b[2].trade = t /\ b[2].batch = n + 1 /\ b[2].does = "closes"
      /\ b[2].type = "ORDER_FILL"
      /\ b[3].order = t + 1 /\ b[3].trade = 0 /\ b[3].batch = n + 1 /\ b[3].does = "none"
      /\ b[3].type = "ORDER_CANCEL"
  BY <1>1 DEF K!Txn
<1> HIDE DEF b
<1>6. PICK m \in Nat : m = K!Now' /\ m = n + 3
  BY <1>1, <1>3, <1>4, BatchIs DEF LogInv
<1>7. Grows /\ log'[n + 1] = b[1] /\ log'[n + 2] = b[2] /\ log'[n + 3] = b[3]
  <2>1. Grows /\ \A i \in 1..Len(b) : log'[n + i] = b[i]
    BY <1>1, <1>3, <1>4, BatchIs DEF LogInv
  <2> QED
    BY <2>1, <1>4
<1>8. \A i \in n + 1..m : i = n + 1 \/ i = n + 2 \/ i = n + 3
  BY <1>1, <1>6
<1>9. t + 1 <= n
  BY <1>1, <1>2 DEF LogInv, OneEnd
<1>10. \A i \in n + 1..m : log'[i].order <= m
  BY <1>1, <1>2, <1>5, <1>6, <1>7, <1>8, <1>9
<1>11. \A i \in n + 1..m : log'[i].trade <= m
  BY <1>1, <1>2, <1>5, <1>6, <1>7, <1>8
<1>12. \A i \in n + 1..m : log'[i].batch <= m
  BY <1>1, <1>5, <1>6, <1>7, <1>8
<1>13. n + 2 \in n + 1..m /\ log'[n + 2].type = "ORDER_FILL" /\ log'[n + 2].trade = t
         /\ log'[n + 2].does = "closes"
  BY <1>1, <1>5, <1>6, <1>7
<1>14. OneEnd(t)'
  <2>1. \A i \in n + 1..m : log'[i].trade = t => i = n + 2
    BY <1>2, <1>5, <1>7, <1>8
  <2>2. \A i, j \in n + 1..m : log'[i].order = t + 1 /\ log'[j].order = t + 1 => i = j
    BY <1>1, <1>2, <1>5, <1>7, <1>8, <1>9
  <2>3. \A i \in n + 1..m : log'[i].order = t + 1 =>
          i = n + 2 \/ log'[i].type = "ORDER_CANCEL"
    BY <1>1, <1>2, <1>5, <1>7, <1>8, <1>9
  <2> QED
    BY <2>1, <2>2, <2>3, <1>1, <1>6, <1>7, <1>13, ShutIs
<1>15. ASSUME NEW u, u \in K!Trades(m)' PROVE OneEnd(u)'
  <2>1. \A i \in n + 1..m : log'[i].does # "opens"
    BY <1>5, <1>7, <1>8
  <2>2. \A i \in n + 1..m : log'[i].order \in {0, n + 1, t + 1}
    BY <1>5, <1>7, <1>8
  <2>3. \A i \in n + 1..m : log'[i].trade \in {0, t}
    BY <1>5, <1>7, <1>8
  <2>4. CASE u # t
    BY <2>1, <2>2, <2>3, <2>4, <1>1, <1>2, <1>6, <1>7, <1>15, OthersQuiet
  <2> QED
    BY <2>4, <1>14
<1>16. n + 2 \in K!Closers(t, K!Now)'
  BY <1>1, <1>6, <1>13 DEF K!Closers
<1>17. ~K!IsOpen(t, K!Now)'
  BY <1>13, <1>16 DEF K!IsOpen
<1>18. ~K!StopFilled(t)'
  <2>1. n + 3 \in 1..m /\ log'[n + 3].order = t + 1 /\ log'[n + 3].type = "ORDER_CANCEL"
    BY <1>1, <1>5, <1>6, <1>7
  <2>2. K!StopAt(m, t + 1)' = "CANCELLED"
    BY <2>1 DEF K!StopAt
  <2> QED
    BY <2>2, <1>6 DEF K!StopFilled, K!StopId
<1>19. t \in K!Trades(K!Now)'
  BY <1>1, <1>2, <1>6, <1>7, GrowsIs DEF K!Trades
<1> QED
  BY <1>1, <1>6, <1>7, <1>10, <1>11, <1>12, <1>15, <1>17, <1>18, <1>19, BatchKeeps


LEMMA StopsOutIs ==
  ASSUME LogInv, NEW t \in K!Opened(K!Now), K!StopsOut(t)
  PROVE  LogInv' /\ Grows /\ ~K!IsOpen(t, K!Now)'
<1>1. PICK n \in Nat : n = K!Now
  BY LogIs DEF LogInv
<1>2. t \in K!Trades(n) /\ t \in Nat /\ t # 0 /\ t <= n
  BY <1>1 DEF K!Opened, K!Trades
<1> DEFINE b == <<K!Txn("ORDER_FILL", t + 1, t, "closes", n + 1)>>
<1>3. K!Batch(b)
  BY <1>1 DEF K!StopsOut, K!ByOrder, K!StopId
<1>4. b \in Seq(BookTxns) /\ Len(b) = 1
  <2>1. \A o, u, i \in Nat : K!Txn("ORDER_FILL", o, u, "closes", i) \in BookTxns
    BY DEF K!Txn, BookTxns
  <2> QED
    BY <1>1, <1>2, <2>1
<1>5. /\ b[1].order = t + 1 /\ b[1].trade = t /\ b[1].batch = n + 1 /\ b[1].does = "closes"
      /\ b[1].type = "ORDER_FILL"
  BY <1>1 DEF K!Txn
<1> HIDE DEF b
<1>6. PICK m \in Nat : m = K!Now' /\ m = n + 1
  BY <1>1, <1>3, <1>4, BatchIs DEF LogInv
<1>7. Grows /\ log'[n + 1] = b[1]
  <2>1. Grows /\ \A i \in 1..Len(b) : log'[n + i] = b[i]
    BY <1>1, <1>3, <1>4, BatchIs DEF LogInv
  <2> QED
    BY <2>1, <1>4
<1>8. \A i \in n + 1..m : i = n + 1
  BY <1>1, <1>6
<1>9. t + 1 <= n
  BY <1>1, <1>2 DEF LogInv, OneEnd
<1>10. \A i \in n + 1..m : log'[i].order <= m
  BY <1>1, <1>2, <1>5, <1>6, <1>7, <1>8, <1>9
<1>11. \A i \in n + 1..m : log'[i].trade <= m
  BY <1>1, <1>2, <1>5, <1>6, <1>7, <1>8
<1>12. \A i \in n + 1..m : log'[i].batch <= m
  BY <1>1, <1>5, <1>6, <1>7, <1>8
<1>13. n + 1 \in n + 1..m /\ log'[n + 1].type = "ORDER_FILL" /\ log'[n + 1].trade = t
         /\ log'[n + 1].does = "closes"
  BY <1>1, <1>5, <1>6, <1>7
<1>14. OneEnd(t)'
  <2>1. \A i \in n + 1..m : log'[i].trade = t => i = n + 1
    BY <1>2, <1>5, <1>7, <1>8
  <2>2. \A i, j \in n + 1..m : log'[i].order = t + 1 /\ log'[j].order = t + 1 => i = j
    BY <1>1, <1>2, <1>5, <1>7, <1>8, <1>9
  <2>3. \A i \in n + 1..m : log'[i].order = t + 1 =>
          i = n + 1 \/ log'[i].type = "ORDER_CANCEL"
    BY <1>1, <1>2, <1>5, <1>7, <1>8, <1>9
  <2> QED
    BY <2>1, <2>2, <2>3, <1>1, <1>6, <1>7, <1>13, ShutIs
<1>15. ASSUME NEW u, u \in K!Trades(m)' PROVE OneEnd(u)'
  <2>1. \A i \in n + 1..m : log'[i].does # "opens"
    BY <1>5, <1>7, <1>8
  <2>2. \A i \in n + 1..m : log'[i].order \in {0, n + 1, t + 1}
    BY <1>5, <1>7, <1>8
  <2>3. \A i \in n + 1..m : log'[i].trade \in {0, t}
    BY <1>5, <1>7, <1>8
  <2>4. CASE u # t
    BY <2>1, <2>2, <2>3, <2>4, <1>1, <1>2, <1>6, <1>7, <1>15, OthersQuiet
  <2> QED
    BY <2>4, <1>14
<1>16. n + 1 \in K!Closers(t, K!Now)'
  BY <1>1, <1>6, <1>13 DEF K!Closers
<1>17. ~K!IsOpen(t, K!Now)'
  BY <1>13, <1>16 DEF K!IsOpen
<1> QED
  BY <1>1, <1>6, <1>7, <1>10, <1>11, <1>12, <1>15, <1>17, BatchKeeps

LEMMA FinancingIs ==
  ASSUME LogInv, K!Financing
  PROVE  LogInv' /\ Grows
<1>1. PICK n \in Nat : n = K!Now
  BY LogIs DEF LogInv
<1> DEFINE b == <<K!Txn("DAILY_FINANCING", 0, 0, "none", n + 1)>>
<1>2. K!Batch(b)
  BY <1>1 DEF K!Financing
<1>3. b \in Seq(BookTxns) /\ Len(b) = 1
  <2>1. \A o, u, i \in Nat : K!Txn("DAILY_FINANCING", o, u, "none", i) \in BookTxns
    BY DEF K!Txn, BookTxns
  <2> QED
    BY <1>1, <2>1
<1>4. b[1].order = 0 /\ b[1].trade = 0 /\ b[1].batch = n + 1 /\ b[1].does = "none"
  BY <1>1 DEF K!Txn
<1> HIDE DEF b
<1>5. PICK m \in Nat : m = K!Now' /\ m = n + 1
  BY <1>1, <1>2, <1>3, BatchIs DEF LogInv
<1>6. Grows /\ log'[n + 1] = b[1]
  <2>1. Grows /\ \A i \in 1..Len(b) : log'[n + i] = b[i]
    BY <1>1, <1>2, <1>3, BatchIs DEF LogInv
  <2> QED
    BY <2>1, <1>3
<1>7. \A i \in n + 1..m : i = n + 1
  BY <1>1, <1>5
<1>8. \A i \in n + 1..m : log'[i].order <= m /\ log'[i].trade <= m /\ log'[i].batch <= m
  BY <1>1, <1>4, <1>5, <1>6, <1>7
<1>9. ASSUME NEW t, t \in K!Trades(m)' PROVE OneEnd(t)'
  <2>1. t \in 1..m /\ log'[t].does = "opens"
    BY <1>9 DEF K!Trades
  <2>2. t \in K!Trades(n)
    BY <2>1, <1>1, <1>4, <1>5, <1>6, <1>7, GrowsIs DEF K!Trades
  <2>3. t + 1 <= m
    BY <2>1, <2>2, <1>1, <1>5 DEF LogInv, OneEnd
  <2>4. \A i \in n + 1..m : log'[i].order # t + 1
    BY <2>1, <1>4, <1>6, <1>7
  <2>5. \A i \in n + 1..m : log'[i].trade # t \/ log'[i].does \notin {"cuts", "closes"}
    BY <1>4, <1>6, <1>7
  <2> QED
    BY <2>3, <2>4, <2>5, <1>1, <1>5, <1>6, <1>9, QuietIs
<1> QED
  BY <1>1, <1>5, <1>6, <1>8, <1>9, BatchKeeps

\* What is true of the stops of every account.
StopsTrue ==
  \A t \in K!Trades(K!Now) : \A n \in 0..K!Now :
    /\ K!StopAt(n, K!StopId(t)) = "FILLED" <=>
         \E i \in 1..n : log[i].order = K!StopId(t) /\ log[i].type = "ORDER_FILL"
    /\ K!UnitsOf(t, n) \in 0..2 /\ OneEnd(t)

LEMMA StopsAre == LogInv => StopsTrue
BY StopIs, UnitsIs DEF StopsTrue, LogInv

LEMMA StopsStay ==
  ASSUME LogInv' PROVE StopsTrue'
BY StopsAre, PTL

\* What new transactions leave as it was.
LEMMA GrownIs ==
  ASSUME LogInv, LogInv', Grows, NEW n \in Nat, NEW m \in Nat, n = K!Now, m = K!Now',
         NEW t \in K!Trades(n)
  PROVE  /\ t \in K!Trades(m)'
         /\ K!IsOpen(t, m)' => K!IsOpen(t, n)
         /\ K!StopFilled(t) => K!StopFilled(t)'
         /\ ~K!IsOpen(t, n) /\ ~K!StopFilled(t) => ~K!StopFilled(t)'
<1>1. n <= m /\ \A i \in 1..n : log'[i] = log[i] /\ i \in 1..m
  BY GrowsIs
<1>2. t \in K!Trades(m)'
  BY <1>1 DEF K!Trades
<1>3. \A i \in K!Closers(t, n) : i \in K!Closers(t, m)' /\ log'[i] = log[i]
  BY <1>1 DEF K!Closers
<1>4. K!IsOpen(t, m)' => K!IsOpen(t, n)
  BY <1>3 DEF K!IsOpen
<1>5. StopsTrue /\ StopsTrue'
  BY StopsAre, StopsStay
<1>6. K!StopFilled(t) <=> \E i \in 1..n : log[i].order = K!StopId(t) /\ log[i].type = "ORDER_FILL"
  BY <1>5 DEF StopsTrue, K!StopFilled
<1>7. K!StopFilled(t)' <=>
        \E i \in 1..m : log'[i].order = K!StopId(t) /\ log'[i].type = "ORDER_FILL"
  BY <1>2, <1>5 DEF StopsTrue, K!StopFilled, K!StopId
<1>8. K!StopFilled(t) => K!StopFilled(t)'
  BY <1>1, <1>6, <1>7
<1>9. ASSUME ~K!IsOpen(t, n), K!StopFilled(t)' PROVE K!StopFilled(t)
  <2>1. PICK i \in 1..m : log'[i].order = K!StopId(t) /\ log'[i].type = "ORDER_FILL"
    BY <1>7, <1>9
  <2>2. PICK j \in K!Closers(t, n) : log[j].does = "closes"
    BY <1>9 DEF K!IsOpen
  <2>3. OneEnd(t)' /\ j \in K!Closers(t, m)' /\ log'[j].does = "closes" /\ j \in 1..n
    BY <2>2, <1>2, <1>3 DEF LogInv, K!Closers
  <2>4. i \in K!Closers(t, m)'
    BY <2>1, <2>3 DEF OneEnd, K!Closers, K!StopId
  <2>5. i <= j
    BY <2>3, <2>4 DEF OneEnd
  <2>6. i \in 1..n
    BY <2>3, <2>5
  <2> QED
    BY <2>1, <2>6, <1>1, <1>6
<1> QED
  BY <1>2, <1>4, <1>8, <1>9

LEMMA StillGrown ==
  ASSUME LogInv, LogInv', Grows, NEW n \in Nat, NEW m \in Nat, n = K!Now, m = K!Now',
         NEW c \in 0..n, NEW t, t \in K!Trades(m)', Still(t, c)'
  PROVE  /\ t \in K!Trades(n) /\ Still(t, c)
         /\ K!Closers(t, m)' = K!Closers(t, n)
         /\ K!IsOpen(t, m)' <=> K!IsOpen(t, n)
         /\ K!UnitsOf(t, m)' = K!UnitsOf(t, n)
         /\ K!StopFilled(t)' <=> K!StopFilled(t)
<1>1. n <= m /\ \A i \in 1..n : log'[i] = log[i] /\ i \in 1..m
  BY GrowsIs
<1>2. t \in 1..m /\ log'[t].does = "opens" /\ t <= c /\ \A i \in K!Closers(t, m)' : i <= c
  BY DEF K!Trades, Still
<1>3. t \in K!Trades(n)
  BY <1>1, <1>2 DEF K!Trades
<1>4. K!Closers(t, m)' = K!Closers(t, n)
  BY <1>1, <1>2 DEF K!Closers
<1>5. Still(t, c)
  BY <1>2, <1>4 DEF Still
<1>6. \A i \in K!Closers(t, n) : log'[i] = log[i]
  BY <1>1 DEF K!Closers
<1>7. K!IsOpen(t, m)' <=> K!IsOpen(t, n)
  BY <1>4, <1>6 DEF K!IsOpen
<1>8. K!UnitsOf(t, m)' = K!UnitsOf(t, n)
  BY <1>4, <1>7 DEF K!UnitsOf
<1>9. K!StopFilled(t)' => K!StopFilled(t)
  <2>1. CASE ~K!IsOpen(t, n)
    BY <2>1, <1>3, GrownIs
  <2>2. CASE K!IsOpen(t, n)
    <3>1. StopsTrue' /\ K!IsOpen(t, m)'
      BY <1>7, <2>2, StopsStay
    <3>2. OneEnd(t)'
      BY DEF LogInv
    <3>3. \A i \in 1..m : log'[i].order # K!StopId(t)
      BY <3>1, <3>2 DEF OneEnd, K!StopId
    <3> QED
      BY <3>1, <3>3 DEF StopsTrue, K!StopFilled, K!StopId
  <2> QED
    BY <2>1, <2>2
<1> QED
  BY <1>3, <1>4, <1>5, <1>7, <1>8, <1>9, GrownIs

\* While the account trades, what the ledger knows of it stays true.
LEMMA GrownBook ==
  ASSUME BookInv, LogInv', Grows,
         UNCHANGED <<row, event, cursor, sync, exposure, erred, stale, lulls, fulls, faults>>,
         \/ closing' = closing
         \/ /\ closing' \in DOMAIN row /\ closing' \in K!Trades(K!Now)'
            /\ ~K!IsOpen(closing, K!Now)' /\ ~K!StopFilled(closing)'
  PROVE  BookInv'
<1>1. PICK n \in Nat : n = K!Now
  BY GrowsIs
<1>2. PICK m \in Nat : m = K!Now'
  BY GrowsIs
<1>3. LogInv /\ n <= m /\ \A i \in 1..n : log'[i] = log[i] /\ i \in 1..m
  BY <1>1, <1>2, GrowsIs DEF BookInv
<1>4. \A t \in K!Trades(n) : /\ t \in K!Trades(m)'
                             /\ K!IsOpen(t, m)' => K!IsOpen(t, n)
                             /\ K!StopFilled(t) => K!StopFilled(t)'
                             /\ ~K!IsOpen(t, n) /\ ~K!StopFilled(t) => ~K!StopFilled(t)'
  BY <1>1, <1>2, <1>3, GrownIs
<1>5. \A t \in 1..n : t \in K!Trades(m)' <=> t \in K!Trades(n)
  BY <1>3 DEF K!Trades
<1>6. LotSet(K!Now) \subseteq LotSet(K!Now)'
  <2>1. SUBSET (1..n) \subseteq SUBSET (1..m)
    BY <1>3
  <2> QED
    BY <2>1, <1>1, <1>2 DEF LotSet
<1>7. RowsOK'
  <2>1. RowsOK
    BY DEF BookInv
  <2>2. DOMAIN row' \subseteq 1..m
    BY <1>1, <1>3, <2>1 DEF RowsOK
  <2>3. ASSUME NEW t \in DOMAIN row
        PROVE  /\ row'[t] \in LotSet(K!Now)'
               /\ row'[t].state = "cancelled" => t \notin K!Trades(m)'
               /\ row'[t].reason = "stop_loss" => t \in K!Trades(m)' /\ K!StopFilled(t)'
    BY <1>1, <1>4, <1>5, <1>6, <2>1 DEF RowsOK
  <2> QED
    BY <1>2, <2>2, <2>3 DEF RowsOK
<1>8. EventsOK'
  <2>1. EventsOK
    BY DEF BookInv
  <2>2. DOMAIN event' \subseteq 1..m /\ 1..cursor' \subseteq DOMAIN event'
    BY <1>1, <1>3, <2>1 DEF EventsOK
  <2>3. ASSUME NEW i \in DOMAIN event' PROVE LinksOK(event[i], i)' /\ event'[i].expires \in BOOLEAN
    BY <1>1, <1>3, <2>1 DEF EventsOK, LinksOK
  <2> QED
    BY <1>2, <2>2, <2>3 DEF EventsOK
<1>9. BoundsOK'
  <2>1. BoundsOK
    BY DEF BookInv
  <2>2. cursor' \in 0..m /\ closing' \in 0..m
    BY <1>1, <1>2, <1>3, <2>1 DEF BoundsOK, K!Trades
  <2>3. closing' # 0 =>
          /\ closing' \in DOMAIN row' /\ closing' \in K!Trades(K!Now)'
          /\ ~K!IsOpen(closing, K!Now)' /\ ~K!StopFilled(closing)'
    <3>1. CASE closing' = closing
      BY <1>1, <1>2, <1>4, <2>1, <3>1 DEF BoundsOK
    <3> QED
      BY <3>1
  <2> QED
    BY <1>2, <2>1, <2>2, <2>3 DEF BoundsOK
<1>10. SyncOK'
  BY <1>1, <1>2, <1>3 DEF BookInv, SyncOK
<1>11. sync.at \in 0..n /\ cursor \in 0..n /\ Base \in 0..n
  BY <1>1 DEF BookInv, SyncOK, BoundsOK, Base
<1>12. \A c \in 0..n : \A t : t \in K!Trades(m)' /\ Still(t, c)' =>
         /\ t \in K!Trades(n) /\ Still(t, c)
         /\ K!Closers(t, m)' = K!Closers(t, n)
         /\ K!IsOpen(t, m)' <=> K!IsOpen(t, n)
         /\ K!UnitsOf(t, m)' = K!UnitsOf(t, n)
         /\ K!StopFilled(t)' <=> K!StopFilled(t)
  BY <1>1, <1>2, <1>3, StillGrown
<1>13. LotsOK'
  <2>1. LotsOK
    BY DEF BookInv
  <2>2. ASSUME NEW t \in DOMAIN sync.lots
        PROVE  /\ sync.lots[t] \in LotSet(K!Now)' /\ t \in K!Trades(n)
               /\ \E k \in sync.at..m : ShownAt(sync.lots[t], t, k)'
    <3>1. PICK k \in sync.at..n : ShownAt(sync.lots[t], t, k)
      BY <1>1, <2>1 DEF LotsOK
    <3>2. k \in 0..n
      BY <1>1, <1>11
    <3>3. ShownAt(sync.lots[t], t, k)'
      BY <1>1, <3>1, <3>2, PastIs DEF ShownAt, K!StopId
    <3>4. t \in K!Trades(n)
      BY <3>1, <3>2 DEF ShownAt, K!Trades
    <3> QED
      BY <1>3, <1>6, <1>11, <2>1, <3>1, <3>3, <3>4 DEF LotsOK
  <2>3. \A t \in K!Opened(m)' : t <= sync.at => t \in K!Opened(n)
    <3>1. ASSUME NEW t, t \in K!Opened(m)', t <= sync.at PROVE t \in K!Opened(n)
      <4>1. t \in K!Trades(m)' /\ K!IsOpen(t, m)' /\ t \in 1..m
        BY <3>1 DEF K!Opened, K!Trades
      <4>2. t \in 1..n
        BY <4>1, <3>1, <1>11
      <4> QED
        BY <4>1, <4>2, <1>4, <1>5 DEF K!Opened
    <3> QED
      BY <3>1
  <2>4. sync'.live # {} => \A t \in K!Opened(m)' : t <= sync'.at => t \in sync'.live
    BY <1>1, <2>1, <2>3 DEF LotsOK
  <2>5. sync'.pc \in {"live", "lots", "events", "enrich"} /\ ~sync'.all /\ lulls' = 0 =>
          /\ \A t \in DOMAIN sync'.lots : Still(t, cursor)' => sync'.lots[t].state = "open"
          /\ \A t \in K!Trades(m)' :
               Still(t, sync.at)' /\ t \notin DOMAIN sync'.lots => Still(t, cursor)'
    <3>1. SUFFICES ASSUME sync.pc \in {"live", "lots", "events", "enrich"}, ~sync.all, lulls = 0
                   PROVE  /\ \A t \in DOMAIN sync.lots : Still(t, cursor)' => sync.lots[t].state = "open"
                          /\ \A t \in K!Trades(m)' :
                               Still(t, sync.at)' /\ t \notin DOMAIN sync.lots => Still(t, cursor)'
      OBVIOUS
    <3>2. ASSUME NEW t \in DOMAIN sync.lots, Still(t, cursor)' PROVE sync.lots[t].state = "open"
      <4>1. t \in K!Trades(m)'
        BY <2>2, <1>4
      <4>2. Still(t, cursor)
        BY <4>1, <3>2, <1>11, <1>12
      <4> QED
        BY <4>2, <3>1, <2>1 DEF LotsOK
    <3>3. ASSUME NEW t, t \in K!Trades(m)', Still(t, sync.at)', t \notin DOMAIN sync.lots
          PROVE  Still(t, cursor)'
      <4>1. t \in K!Trades(n) /\ Still(t, sync.at) /\ K!Closers(t, m)' = K!Closers(t, n)
        BY <3>3, <1>11, <1>12
      <4>2. Still(t, cursor)
        BY <4>1, <3>1, <3>3, <1>1, <2>1 DEF LotsOK
      <4> QED
        BY <4>1, <4>2, <1>1, <1>2 DEF Still
    <3> QED
      BY <3>2, <3>3
  <2>6. sync'.pc = "history" => \A t \in K!Opened(m)' : t <= sync'.at => t \in DOMAIN sync'.lots
    BY <1>1, <2>1, <2>3 DEF LotsOK
  <2>7. sync'.pc \in {"stream", "lots", "enrich"} /\ sync'.all =>
          \A t \in K!Trades(m)' : t <= sync'.at => t \in DOMAIN sync'.lots
    BY <1>1, <1>3, <1>5, <1>11, <2>1 DEF LotsOK, K!Trades
  <2> QED
    BY <1>2, <2>2, <2>4, <2>5, <2>6, <2>7 DEF LotsOK
<1>14. NewsOK'
  <2>1. NewsOK
    BY DEF BookInv
  <2>2. DOMAIN sync'.events \subseteq 1..m
    BY <1>1, <1>3, <2>1 DEF NewsOK
  <2>3. ASSUME NEW i \in DOMAIN sync'.events PROVE LinksOK(sync.events[i], i)'
    BY <1>1, <1>3, <2>1 DEF NewsOK, LinksOK
  <2> QED
    BY <1>2, <2>1, <2>2, <2>3 DEF NewsOK
<1>15. RowsTrue'
  <2>1. SUFFICES ASSUME lulls = 0, ~(sync.pc = "enrich" /\ sync.all),
                        NEW t, t \in K!Trades(m)', Still(t, Base)'
                 PROVE  RowTrue(t)'
    BY <1>2 DEF RowsTrue
  <2>2. Base' = Base
    BY DEF Base
  <2>3. /\ t \in K!Trades(n) /\ Still(t, Base)
        /\ K!Closers(t, m)' = K!Closers(t, n)
        /\ K!IsOpen(t, m)' <=> K!IsOpen(t, n)
        /\ K!UnitsOf(t, m)' = K!UnitsOf(t, n)
        /\ K!StopFilled(t)' <=> K!StopFilled(t)
    BY <2>1, <2>2, <1>11, <1>12 DEF Still
  <2>4. RowTrue(t)
    BY <2>1, <2>3, <1>1 DEF BookInv, RowsTrue
  <2> QED
    BY <2>3, <2>4, <1>1, <1>2 DEF RowTrue
<1>16. ExposureOK'
  <2>1. ExposureOK
    BY DEF BookInv
  <2>2. ASSUME lulls = 0, ~erred, sync.pc \notin {"backfill", "clear", "rollup"},
               NEW t, t \in K!Trades(m)', Still(t, cursor)'
        PROVE  /\ t \in DOMAIN exposure <=> K!IsOpen(t, m)'
               /\ K!IsOpen(t, m)' => exposure[t] = K!UnitsOf(t, m)'
    <3>1. /\ t \in K!Trades(n) /\ Still(t, cursor)
          /\ K!IsOpen(t, m)' <=> K!IsOpen(t, n)
          /\ K!UnitsOf(t, m)' = K!UnitsOf(t, n)
      BY <2>2, <1>11, <1>12
    <3> QED
      BY <3>1, <2>1, <2>2, <1>1 DEF ExposureOK
  <2> QED
    BY <1>2, <2>1, <2>2 DEF ExposureOK
<1> QED
  BY <1>7, <1>8, <1>9, <1>10, <1>13, <1>14, <1>15, <1>16 DEF BookInv

-----------------------------------------------------------------------------
\* While the account rests, what is to be seen of it is the same.

LEMMA RestIs ==
  ASSUME UNCHANGED log
  PROVE  /\ K!Now' = K!Now
         /\ \A n : K!Trades(n)' = K!Trades(n) /\ K!Opened(n)' = K!Opened(n)
         /\ \A t, n : /\ K!Closers(t, n)' = K!Closers(t, n)
                      /\ K!IsOpen(t, n)' <=> K!IsOpen(t, n)
                      /\ K!UnitsOf(t, n)' = K!UnitsOf(t, n)
         /\ \A t : K!StopFilled(t)' <=> K!StopFilled(t)
         /\ \A t, c : Still(t, c)' <=> Still(t, c)
         /\ \A e, i : LinksOK(e, i)' <=> LinksOK(e, i)
         /\ \A lot, t, n : ShownAt(lot, t, n)' <=> ShownAt(lot, t, n)
         /\ \A n : LotSet(n)' = LotSet(n)
<1>1. K!Now' = K!Now
  BY DEF K!Now
<1>2. \A t, n : K!Closers(t, n)' = K!Closers(t, n)
  BY DEF K!Closers
<1>3. \A t, n : K!IsOpen(t, n)' <=> K!IsOpen(t, n)
  BY <1>2 DEF K!IsOpen
<1>4. \A n : K!Trades(n)' = K!Trades(n)
  BY DEF K!Trades
<1>5. \A n : K!Opened(n)' = K!Opened(n)
  BY <1>3, <1>4 DEF K!Opened
<1>6. \A t, n : K!UnitsOf(t, n)' = K!UnitsOf(t, n)
  BY <1>2, <1>3 DEF K!UnitsOf
<1>7. \A n, o : K!StopAt(n, o)' = K!StopAt(n, o)
  BY DEF K!StopAt
<1>8. \A t : K!StopFilled(t)' <=> K!StopFilled(t)
  BY <1>1, <1>7 DEF K!StopFilled, K!StopId
<1>9. \A t, c : Still(t, c)' <=> Still(t, c)
  BY <1>1, <1>2 DEF Still
<1>10. \A e, i : LinksOK(e, i)' <=> LinksOK(e, i)
  BY DEF LinksOK
<1>11. \A lot, t, n : ShownAt(lot, t, n)' <=> ShownAt(lot, t, n)
  BY <1>2, <1>3, <1>4, <1>6, <1>7 DEF ShownAt, K!Closed, K!Stop, K!StopId
<1>12. \A n : LotSet(n)' = LotSet(n)
  BY DEF LotSet
<1> QED
  BY <1>1, <1>2, <1>3, <1>4, <1>5, <1>6, <1>8, <1>9, <1>10, <1>11, <1>12

\* What a step does not touch is as it was.
LEMMA RestKeeps ==
  ASSUME BookInv, UNCHANGED log
  PROVE  /\ LogInv'
         /\ UNCHANGED row => RowsOK'
         /\ UNCHANGED <<event, cursor>> => EventsOK'
         /\ UNCHANGED <<row, cursor, closing, erred, stale, lulls, fulls, faults>> => BoundsOK'
<1>1. LogInv'
  BY RestIs DEF BookInv, LogInv, OneEnd, K!StopId
<1>2. UNCHANGED row => RowsOK'
  BY RestIs DEF BookInv, RowsOK
<1>3. UNCHANGED <<event, cursor>> => EventsOK'
  BY RestIs DEF BookInv, EventsOK
<1>4. UNCHANGED <<row, cursor, closing, erred, stale, lulls, fulls, faults>> => BoundsOK'
  BY RestIs DEF BookInv, BoundsOK
<1> QED
  BY <1>1, <1>2, <1>3, <1>4

LEMMA StutterIs ==
  ASSUME BookInv, UNCHANGED K!vars
  PROVE  BookInv'
<1>1. UNCHANGED <<log, row, event, cursor, sync, closing, exposure, erred, stale, lulls, fulls, faults>>
  BY DEF K!vars
<1>2. LogInv' /\ RowsOK' /\ EventsOK' /\ BoundsOK'
  BY <1>1, RestKeeps
<1>3. SyncOK'
  BY <1>1, RestIs DEF BookInv, SyncOK
<1>4. LotsOK'
  BY <1>1, RestIs DEF BookInv, LotsOK
<1>5. NewsOK'
  BY <1>1, RestIs DEF BookInv, NewsOK
<1>6. RowsTrue'
  BY <1>1, RestIs DEF BookInv, RowsTrue, RowTrue, Base
<1>7. ExposureOK'
  BY <1>1, RestIs DEF BookInv, ExposureOK
<1> QED
  BY <1>2, <1>3, <1>4, <1>5, <1>6, <1>7 DEF BookInv

LEMMA LullIs ==
  ASSUME BookInv, K!Lull
  PROVE  BookInv'
<1>1. UNCHANGED <<log, row, event, cursor, sync, closing, exposure, erred, fulls, faults>>
        /\ lulls < MaxLulls /\ lulls' = lulls + 1 /\ stale' = TRUE
  BY DEF K!Lull
<1>2. LogInv' /\ RowsOK' /\ EventsOK'
  BY <1>1, RestKeeps
<1>3. lulls \in Nat /\ lulls' # 0 /\ lulls' \in 0..MaxLulls
  BY <1>1, ServicesAssumption DEF BookInv, BoundsOK
<1>4. BoundsOK'
  BY <1>1, <1>3, RestIs DEF BookInv, BoundsOK
<1>5. SyncOK'
  BY <1>1, <1>3, RestIs DEF BookInv, SyncOK
<1>6. LotsOK'
  BY <1>1, <1>3, RestIs DEF BookInv, LotsOK
<1>7. NewsOK'
  BY <1>1, RestIs DEF BookInv, NewsOK
<1>8. RowsTrue'
  BY <1>3 DEF RowsTrue
<1>9. ExposureOK'
  BY <1>1, <1>3, RestIs DEF BookInv, ExposureOK
<1> QED
  BY <1>2, <1>4, <1>5, <1>6, <1>7, <1>8, <1>9 DEF BookInv

LEMMA StartIs ==
  ASSUME BookInv, K!Start
  PROVE  BookInv'
<1>1. PICK full \in BOOLEAN :
        /\ full => fulls < MaxFulls
        /\ fulls' = IF full THEN fulls + 1 ELSE fulls
        /\ sync' = [K!Idle EXCEPT !.pc = IF full \/ cursor = 0 THEN "details" ELSE "poll",
                                  !.at = IF stale THEN K!Now ELSE cursor,
                                  !.events = [i \in IF stale THEN (cursor + 1)..K!Now ELSE {} |-> K!Stripped(i)]]
  BY DEF K!Start
<1>2. sync.pc = "idle" /\ UNCHANGED <<log, row, event, cursor, closing, exposure, erred, stale, lulls, faults>>
  BY DEF K!Start, K!On
<1>3. /\ sync' = [pc |-> sync'.pc, at |-> sync'.at, lots |-> sync'.lots, events |-> sync'.events,
                  live |-> sync'.live, all |-> sync'.all, twice |-> sync'.twice]
      /\ sync'.pc \in {"details", "poll"} /\ sync'.live = {} /\ sync'.all = FALSE
      /\ sync'.twice = FALSE /\ sync'.at = (IF stale THEN K!Now ELSE cursor)
      /\ sync'.lots = <<>>
      /\ sync'.events = [i \in IF stale THEN (cursor + 1)..K!Now ELSE {} |-> K!Stripped(i)]
  BY <1>1 DEF K!Idle
<1>4. BoundsOK /\ K!Now \in Nat /\ fulls \in Nat
  BY LogIs, ServicesAssumption DEF BookInv, LogInv, BoundsOK
<1>5. LogInv' /\ RowsOK' /\ EventsOK'
  BY <1>2, RestKeeps
<1>6. fulls' \in 0..MaxFulls
  BY <1>1, <1>4, ServicesAssumption DEF BoundsOK
<1>7. BoundsOK'
  BY <1>2, <1>4, <1>6, RestIs DEF BoundsOK
<1>8. SyncOK'
  <2>1. sync'.at \in 0..K!Now
    BY <1>3, <1>4 DEF BoundsOK
  <2>2. lulls' = 0 => sync'.at = cursor'
    BY <1>2, <1>3, <1>4 DEF BoundsOK
  <2>3. cursor' <= sync'.at
    BY <1>2, <1>3, <1>4 DEF BoundsOK
  <2> QED
    BY <1>3, <2>1, <2>2, <2>3, <1>2, RestIs DEF SyncOK, Places
<1>9. LotsOK'
  <2>1. DOMAIN sync'.lots = {}
    BY <1>3
  <2> QED
    BY <1>3, <2>1 DEF LotsOK
<1>10. NewsOK'
  <2>1. DOMAIN sync'.events = IF stale THEN (cursor + 1)..K!Now ELSE {}
    BY <1>3
  <2>2. DOMAIN sync'.events \subseteq 1..K!Now
    BY <2>1, <1>4 DEF BoundsOK
  <2>3. \A i \in DOMAIN sync'.events : LinksOK(sync'.events[i], i)
    BY <1>3, <2>1 DEF LinksOK, K!Stripped, K!Unlinked
  <2>4. (cursor + 1)..sync'.at \subseteq DOMAIN sync'.events
    BY <1>3, <1>4, <2>1 DEF BoundsOK
  <2> QED
    BY <1>2, <1>3, <2>2, <2>3, <2>4, RestIs DEF NewsOK
<1>11. RowsTrue'
  BY <1>2, <1>3, RestIs DEF BookInv, RowsTrue, RowTrue, Base
<1>12. ExposureOK'
  BY <1>2, <1>3, RestIs DEF BookInv, ExposureOK
<1> QED
  BY <1>5, <1>7, <1>8, <1>9, <1>10, <1>11, <1>12 DEF BookInv

\* What the account shows of a trade.
LEMMA FullIs ==
  ASSUME LogInv, NEW n \in Nat, n = K!Now, NEW t \in K!Trades(n)
  PROVE  K!Full(t, n) \in LotSet(n) /\ ShownAt(K!Full(t, n), t, n)
<1>1. K!UnitsOf(t, n) \in 0..2
  BY UnitsIs
<1>2. K!Stop(t, n) \in StopSet
  <2>1. K!StopAt(n, K!StopId(t)) \in Ends
    BY StopIs
  <2> QED
    BY <2>1 DEF K!Stop, StopSet, K!StopId, K!Trades
<1>3. K!Closed(t, n) \in SUBSET (1..n)
  BY DEF K!Closed, K!Closers
<1>4. K!Full(t, n) \in LotSet(n)
  BY <1>1, <1>2, <1>3 DEF K!Full, LotSet, Reasons
<1>5. ShownAt(K!Full(t, n), t, n)
  BY DEF K!Full, ShownAt
<1> QED
  BY <1>4, <1>5

LEMMA ReadDetailsIs ==
  ASSUME BookInv, K!ReadDetails
  PROVE  BookInv'
<1>1. PICK n \in Nat : n = K!Now
  BY LogIs DEF BookInv, LogInv
<1>2. sync.pc = "details" /\ UNCHANGED <<log, row, event, cursor, exposure, closing, erred, stale, lulls, fulls, faults>>
  BY DEF K!ReadDetails, K!On, K!Unseen
<1>3. /\ sync' = [pc |-> sync'.pc, at |-> sync'.at, lots |-> sync'.lots, events |-> sync'.events,
                  live |-> sync'.live, all |-> sync'.all, twice |-> sync'.twice]
      /\ sync'.pc = "history" /\ sync'.at = n /\ sync'.all = TRUE
      /\ sync'.lots = [t \in K!Opened(n) |-> K!Full(t, n)]
      /\ sync'.events = sync.events /\ sync'.live = sync.live /\ sync'.twice = sync.twice
  BY <1>1 DEF K!ReadDetails, BookInv, SyncOK
<1>4. LogInv' /\ RowsOK' /\ EventsOK' /\ BoundsOK' /\ K!Now' = n
  BY <1>1, <1>2, RestKeeps, RestIs
<1>5. SyncOK'
  <2>1. sync.live = {} /\ sync.twice \in BOOLEAN
    BY <1>2 DEF BookInv, SyncOK
  <2>2. sync'.at \in 0..K!Now' /\ cursor' <= sync'.at
    BY <1>1, <1>2, <1>3, <1>4 DEF BookInv, BoundsOK
  <2> QED
    BY <1>3, <2>1, <2>2 DEF SyncOK, Places
<1>6. LotsOK'
  <2>1. ASSUME NEW t \in DOMAIN sync'.lots
        PROVE sync'.lots[t] \in LotSet(n) /\ ShownAt(sync'.lots[t], t, n)
    BY <1>1, <1>3, FullIs DEF BookInv, K!Opened
  <2>2. n \in sync'.at..n /\ sync'.live = {}
    BY <1>2, <1>3 DEF BookInv, SyncOK
  <2> QED
    BY <1>2, <1>3, <1>4, <2>1, <2>2, RestIs DEF LotsOK
<1>7. NewsOK'
  BY <1>2, <1>3, RestIs DEF BookInv, NewsOK
<1>8. RowsTrue'
  BY <1>2, <1>3, RestIs DEF BookInv, RowsTrue, RowTrue, Base
<1>9. ExposureOK'
  BY <1>2, <1>3, RestIs DEF BookInv, ExposureOK
<1> QED
  BY <1>4, <1>5, <1>6, <1>7, <1>8, <1>9 DEF BookInv

LEMMA ReadHistoryIs ==
  ASSUME BookInv, K!ReadHistory
  PROVE  BookInv'
<1>1. PICK n \in Nat : n = K!Now
  BY LogIs DEF BookInv, LogInv
<1>2. sync.pc = "history" /\ UNCHANGED <<log, row, event, cursor, exposure, closing, erred, stale, lulls, fulls, faults>>
  BY DEF K!ReadHistory, K!On, K!Unseen
<1> DEFINE ended == [t \in K!Trades(n) \ K!Opened(n) |-> K!Full(t, n)]
           lots == K!Over(ended, sync.lots)
<1>3. sync' = [sync EXCEPT !.pc = "stream", !.lots = lots,
                           !.live = {t \in DOMAIN lots : lots[t].state = "open"}]
  BY <1>1 DEF K!ReadHistory
<1>4. /\ DOMAIN lots = (K!Trades(n) \ K!Opened(n)) \cup DOMAIN sync.lots
      /\ \A t \in K!Trades(n) \ K!Opened(n) : lots[t] = K!Full(t, n)
      /\ \A t \in DOMAIN sync.lots : t \notin K!Trades(n) \ K!Opened(n) => lots[t] = sync.lots[t]
  <2>1. DOMAIN ended = K!Trades(n) \ K!Opened(n)
          /\ \A t \in K!Trades(n) \ K!Opened(n) : ended[t] = K!Full(t, n)
    OBVIOUS
  <2> HIDE DEF ended
  <2> QED
    BY <2>1 DEF K!Over
<1> HIDE DEF ended, lots
<1>5. SyncOK /\ LotsOK /\ LogInv /\ sync.at \in 0..n
  BY <1>1 DEF BookInv, SyncOK
<1>6. /\ sync' = [pc |-> sync'.pc, at |-> sync'.at, lots |-> sync'.lots, events |-> sync'.events,
                  live |-> sync'.live, all |-> sync'.all, twice |-> sync'.twice]
      /\ sync'.pc = "stream" /\ sync'.at = sync.at /\ sync'.lots = lots /\ sync'.all = sync.all
      /\ sync'.live = {t \in DOMAIN lots : lots[t].state = "open"}
      /\ sync'.events = sync.events /\ sync'.twice = sync.twice
  BY <1>3, <1>5 DEF SyncOK
<1>7. LogInv' /\ RowsOK' /\ EventsOK' /\ BoundsOK' /\ K!Now' = n
  BY <1>1, <1>2, RestKeeps, RestIs
<1>8. SyncOK'
  BY <1>1, <1>2, <1>5, <1>6, <1>7 DEF SyncOK, Places
<1>9. LotsOK'
  <2>1. ASSUME NEW t \in DOMAIN lots
        PROVE  lots[t] \in LotSet(n) /\ \E k \in sync.at..n : ShownAt(lots[t], t, k)
    <3>1. CASE t \in K!Trades(n) \ K!Opened(n)
      <4>1. n \in sync.at..n
        BY <1>5
      <4> QED
        BY <3>1, <4>1, <1>1, <1>4, <1>5, FullIs
    <3>2. CASE t \notin K!Trades(n) \ K!Opened(n)
      <4>1. t \in DOMAIN sync.lots /\ lots[t] = sync.lots[t]
        BY <3>2, <1>4
      <4> QED
        BY <4>1, <1>1, <1>5 DEF LotsOK
    <3> QED
      BY <3>1, <3>2
  <2>2. ASSUME NEW t \in K!Opened(n), t <= sync.at
        PROVE  t \in DOMAIN lots /\ lots[t].state = "open"
    <3>1. t \in DOMAIN sync.lots /\ t \in DOMAIN lots /\ lots[t] = sync.lots[t]
      BY <2>2, <1>1, <1>2, <1>4, <1>5 DEF LotsOK
    <3>2. PICK k \in sync.at..n : ShownAt(sync.lots[t], t, k)
      BY <3>1, <1>1, <1>5 DEF LotsOK
    <3>3. K!IsOpen(t, k)
      <4>1. k \in 0..n /\ n \in k..n
        BY <1>5
      <4> QED
        BY <4>1, <1>1, <1>5, LaterIs DEF LogInv, K!Opened
    <3> QED
      BY <3>1, <3>2, <3>3 DEF ShownAt
  <2>3. \A t \in K!Trades(n) : t <= sync.at => t \in DOMAIN lots
    BY <2>2, <1>4
  <2> QED
    BY <1>1, <1>2, <1>6, <1>7, <2>1, <2>2, <2>3, RestIs DEF LotsOK
<1>10. NewsOK'
  BY <1>2, <1>6, RestIs DEF BookInv, NewsOK
<1>11. RowsTrue'
  BY <1>2, <1>6, RestIs DEF BookInv, RowsTrue, RowTrue, Base
<1>12. ExposureOK'
  BY <1>2, <1>6, RestIs DEF BookInv, ExposureOK
<1> QED
  BY <1>7, <1>8, <1>9, <1>10, <1>11, <1>12 DEF BookInv

\* Events that are stored keep their links.
LEMMA StoredIs ==
  ASSUME NEW n \in Nat, NEW es, DOMAIN es \subseteq 1..n,
         \A i \in DOMAIN es : LinksOK(es[i], i),
         DOMAIN event \subseteq 1..n,
         \A i \in DOMAIN event : LinksOK(event[i], i) /\ event[i].expires \in BOOLEAN
  PROVE  /\ DOMAIN K!Stored(es) = DOMAIN es \cup DOMAIN event
         /\ \A i \in DOMAIN K!Stored(es) :
              LinksOK(K!Stored(es)[i], i) /\ K!Stored(es)[i].expires \in BOOLEAN
<1> DEFINE kept == [i \in DOMAIN es |-> K!Expiring(es[i], K!Expires(i, es[i]))]
<1>1. K!Stored(es) = K!Over(kept, event)
  BY DEF K!Stored
<1>2. ASSUME NEW i \in DOMAIN es PROVE LinksOK(kept[i], i) /\ kept[i].expires \in BOOLEAN
  <2>1. K!Expires(i, es[i]) \in BOOLEAN
    BY DEF K!Expires
  <2>2. kept[i] = K!Expiring(es[i], K!Expires(i, es[i]))
    OBVIOUS
  <2> QED
    BY <2>1, <2>2 DEF LinksOK, K!Expiring
<1>3. DOMAIN kept = DOMAIN es
  OBVIOUS
<1> HIDE DEF kept
<1> DEFINE both == K!Over(kept, event)
<1>4. /\ DOMAIN both = DOMAIN es \cup DOMAIN event
      /\ \A i \in DOMAIN es : both[i] = kept[i]
      /\ \A i \in DOMAIN event : i \notin DOMAIN es => both[i] = event[i]
  BY <1>3 DEF K!Over
<1>5. K!Stored(es) = both
  BY <1>1
<1> HIDE DEF both
<1>6. ASSUME NEW i \in DOMAIN both PROVE LinksOK(both[i], i) /\ both[i].expires \in BOOLEAN
  <2>1. CASE i \in DOMAIN es
    BY <2>1, <1>2, <1>4
  <2>2. CASE i \notin DOMAIN es
    BY <2>2, <1>4
  <2> QED
    BY <2>1, <2>2
<1> QED
  BY <1>4, <1>5, <1>6

LEMMA StreamIs ==
  ASSUME BookInv, K!Stream
  PROVE  BookInv'
<1>1. PICK n \in Nat : n = K!Now
  BY LogIs DEF BookInv, LogInv
<1> DEFINE es == [i \in 1..sync.at |-> K!Stripped(i)]
<1>2. /\ sync.pc = "stream" /\ event' = K!Stored(es)
      /\ UNCHANGED <<log, row, cursor, exposure, closing, erred, stale, lulls, fulls, faults>>
  BY DEF K!Stream, K!On, K!Unseen
<1>3. SyncOK /\ EventsOK /\ sync.at \in 0..n /\ cursor \in 0..n
  BY <1>1 DEF BookInv, SyncOK, BoundsOK
<1>4. /\ sync' = [pc |-> sync'.pc, at |-> sync'.at, lots |-> sync'.lots, events |-> sync'.events,
                  live |-> sync'.live, all |-> sync'.all, twice |-> sync'.twice]
      /\ sync'.pc = "lots" /\ sync'.at = sync.at /\ sync'.lots = sync.lots /\ sync'.all = sync.all
      /\ sync'.live = sync.live /\ sync'.events = sync.events /\ sync'.twice = sync.twice
  BY <1>3 DEF K!Stream, K!To, SyncOK
<1>5. LogInv' /\ RowsOK' /\ BoundsOK' /\ K!Now' = n
  BY <1>1, <1>2, RestKeeps, RestIs
<1>6. DOMAIN es = 1..sync.at /\ \A i \in DOMAIN es : LinksOK(es[i], i)
  BY DEF LinksOK, K!Stripped, K!Unlinked
<1> HIDE DEF es
<1>7. /\ DOMAIN event' = DOMAIN es \cup DOMAIN event
      /\ \A i \in DOMAIN event' : LinksOK(event'[i], i) /\ event'[i].expires \in BOOLEAN
  <2>1. DOMAIN es \subseteq 1..n /\ DOMAIN event \subseteq 1..n
          /\ \A i \in DOMAIN event : LinksOK(event[i], i) /\ event[i].expires \in BOOLEAN
    BY <1>1, <1>3, <1>6 DEF EventsOK
  <2> QED
    BY <1>2, <1>6, <2>1, StoredIs
<1>8. EventsOK'
  BY <1>1, <1>2, <1>3, <1>5, <1>6, <1>7, RestIs DEF EventsOK
<1>9. SyncOK'
  BY <1>1, <1>2, <1>3, <1>4, <1>5 DEF SyncOK, Places
<1>10. LotsOK'
  BY <1>2, <1>3, <1>4, RestIs DEF BookInv, LotsOK, SyncOK
<1>11. NewsOK'
  BY <1>2, <1>3, <1>4, <1>6, <1>7, RestIs DEF BookInv, NewsOK, SyncOK
<1>12. RowsTrue'
  BY <1>2, <1>4, RestIs DEF BookInv, RowsTrue, RowTrue, Base
<1>13. ExposureOK'
  BY <1>2, <1>4, RestIs DEF BookInv, ExposureOK
<1> QED
  BY <1>5, <1>8, <1>9, <1>10, <1>11, <1>12, <1>13 DEF BookInv

\* What the account changes show of a trade: a stop that has filled is among
\* them when the trade is.
LEMMA SummaryIs ==
  ASSUME LogInv, NEW n \in Nat, n = K!Now, NEW since \in 0..n, NEW t \in K!Changed(since, n)
  PROVE  /\ t \in K!Trades(n) /\ ~Still(t, since)
         /\ K!Summary(t, since, n) \in LotSet(n) /\ ShownAt(K!Summary(t, since, n), t, n)
<1>1. t \in K!Trades(n) /\ (t > since \/ \E i \in K!Closers(t, n) : i > since)
  BY DEF K!Changed
<1>2. OneEnd(t) /\ t \in 1..n /\ n \in 0..n
  BY <1>1 DEF LogInv, K!Trades
<1>3. K!Full(t, n) \in LotSet(n) /\ ShownAt(K!Full(t, n), t, n)
  BY <1>1, FullIs
<1>4. ~Still(t, since)
  BY <1>1, <1>2 DEF Still, K!Closers
<1>5. \/ K!Patched(t, since, n) = K!Stop(t, n)
      \/ K!Patched(t, since, n) = K!NoStop /\ K!StopAt(n, K!StopId(t)) # "FILLED"
  <2> DEFINE told == \E i \in (since + 1)..n : i = K!StopId(t) \/ log[i].order = K!StopId(t)
  <2>0. K!Patched(t, since, n) = IF told THEN K!Stop(t, n) ELSE K!NoStop
    BY DEF K!Patched
  <2>1. SUFFICES ASSUME K!StopAt(n, K!StopId(t)) = "FILLED" PROVE told
    <3> HIDE DEF told
    <3> QED
      BY <2>0
  <2>2. PICK i \in 1..n : log[i].order = K!StopId(t) /\ log[i].type = "ORDER_FILL"
    BY <2>1, <1>1, <1>2, StopIs
  <2>3. CASE t > since
    BY <2>3, <1>2 DEF OneEnd, K!StopId
  <2>4. CASE \E j \in K!Closers(t, n) : j > since
    <3>1. PICK j \in K!Closers(t, n) : j > since
      BY <2>4
    <3>2. i \in K!Closers(t, n) /\ log[i].does = "closes"
      BY <2>2, <1>2 DEF OneEnd, K!Closers
    <3>3. j <= i /\ j \in 1..n
      BY <3>1, <3>2, <1>2 DEF OneEnd, K!Closers
    <3> QED
      BY <3>1, <3>3, <2>2
  <2> QED
    BY <2>3, <2>4, <1>1
<1>6. K!Stop(t, n) \in StopSet /\ K!NoStop \in StopSet
  <2>1. K!StopAt(n, K!StopId(t)) \in Ends
    BY <1>1, <1>2, StopIs
  <2> QED
    BY <2>1, <1>2 DEF K!Stop, StopSet, K!StopId, K!NoStop, Ends
<1>7. K!Patched(t, since, n) \in StopSet
  BY <1>5, <1>6
<1>8. K!Summary(t, since, n) = [K!Full(t, n) EXCEPT !.stop = K!Patched(t, since, n)]
  BY DEF K!Summary
<1>9. K!Summary(t, since, n) \in LotSet(n)
  BY <1>3, <1>7, <1>8 DEF LotSet
<1>10. ShownAt(K!Summary(t, since, n), t, n)
  BY <1>3, <1>5, <1>8 DEF LotSet, ShownAt
<1> QED
  BY <1>1, <1>4, <1>9, <1>10

LEMMA PollIs ==
  ASSUME BookInv, K!Poll
  PROVE  BookInv'
<1>1. PICK n \in Nat : n = K!Now
  BY LogIs DEF BookInv, LogInv
<1> DEFINE since == sync.at
           lots == [t \in K!Changed(since, n) |-> K!Summary(t, since, n)]
           polled == [i \in (since + 1)..n |-> K!Linked(i)]
           news == K!Over(polled, sync.events)
<1>2. PICK gap \in BOOLEAN :
        /\ gap => faults < MaxFaults["book"]
        /\ faults' = IF gap THEN faults + 1 ELSE faults
        /\ sync' = [sync EXCEPT !.pc = IF K!Opened(n) # {} THEN "live" ELSE "lots",
                                !.at = n, !.lots = lots, !.twice = gap, !.events = news]
  BY <1>1 DEF K!Poll, K!MergedEvents
<1>3. /\ sync.pc = "poll"
      /\ UNCHANGED <<log, row, event, cursor, closing, exposure, erred, stale, lulls, fulls>>
  BY DEF K!Poll, K!On
<1>4. SyncOK /\ NewsOK /\ LogInv /\ BoundsOK /\ since \in 0..n /\ cursor \in 0..n
  BY <1>1 DEF BookInv, SyncOK, BoundsOK
<1>5. DOMAIN lots = K!Changed(since, n)
        /\ \A t \in K!Changed(since, n) : lots[t] = K!Summary(t, since, n)
  OBVIOUS
<1>6. /\ DOMAIN news = ((since + 1)..n) \cup DOMAIN sync.events
      /\ \A i \in (since + 1)..n : news[i] = K!Linked(i)
      /\ \A i \in DOMAIN sync.events : i \notin (since + 1)..n => news[i] = sync.events[i]
  <2>1. DOMAIN polled = (since + 1)..n /\ \A i \in (since + 1)..n : polled[i] = K!Linked(i)
    OBVIOUS
  <2> HIDE DEF polled
  <2> QED
    BY <2>1 DEF K!Over
<1> HIDE DEF lots, polled, news
<1>7. /\ sync' = [pc |-> sync'.pc, at |-> sync'.at, lots |-> sync'.lots, events |-> sync'.events,
                  live |-> sync'.live, all |-> sync'.all, twice |-> sync'.twice]
      /\ sync'.pc \in {"live", "lots"} /\ sync'.at = n /\ sync'.lots = lots
      /\ sync'.live = sync.live /\ sync'.events = news /\ sync'.all = sync.all
      /\ sync'.twice \in BOOLEAN
  BY <1>2, <1>4 DEF SyncOK
<1>8. sync.live = {} /\ sync.all = FALSE /\ (lulls = 0 => since = cursor)
  BY <1>3, <1>4 DEF SyncOK
<1>9. LogInv' /\ RowsOK' /\ EventsOK' /\ K!Now' = n
  BY <1>1, <1>3, RestKeeps, RestIs
<1>10. BoundsOK'
  <2>0. MaxFaults["book"] \in Nat /\ faults \in Nat
    BY <1>4, ServicesAssumption DEF BoundsOK, Failing
  <2>1. faults' \in 0..MaxFaults["book"]
    BY <1>2, <1>4, <2>0 DEF BoundsOK
  <2> QED
    BY <1>3, <1>4, <2>1, RestIs DEF BoundsOK
<1>11. SyncOK'
  <2>1. sync'.at \in 0..K!Now' /\ cursor' <= sync'.at
    BY <1>3, <1>4, <1>7, <1>9
  <2> QED
    BY <1>7, <1>8, <2>1 DEF SyncOK, Places
<1>12. LotsOK'
  <2>1. ASSUME NEW t \in DOMAIN lots
        PROVE  lots[t] \in LotSet(n) /\ ShownAt(lots[t], t, n) /\ ~Still(t, since)
    BY <2>1, <1>1, <1>4, <1>5, SummaryIs
  <2>2. n \in n..n
    OBVIOUS
  <2>3. ASSUME NEW t \in K!Trades(n), t \notin DOMAIN lots PROVE Still(t, since)
    <3>1. ~(t > since) /\ \A i \in K!Closers(t, n) : ~(i > since)
      BY <2>3, <1>5 DEF K!Changed
    <3>2. t \in 1..n /\ \A i \in K!Closers(t, n) : i \in 1..n
      BY DEF K!Trades, K!Closers
    <3> QED
      BY <3>1, <3>2, <1>1, <1>4 DEF Still
  <2> QED
    BY <1>3, <1>7, <1>8, <1>9, <2>1, <2>2, <2>3, RestIs DEF LotsOK
<1>13. NewsOK'
  <2>1. \A i \in DOMAIN sync.events : i \in 1..n /\ LinksOK(sync.events[i], i)
    BY <1>1, <1>4 DEF NewsOK
  <2>2. \A i : LinksOK(K!Linked(i), i)
    BY DEF LinksOK, K!Linked
  <2>3. \A i \in DOMAIN news : i \in 1..n /\ LinksOK(news[i], i)
    BY <1>4, <1>6, <2>1, <2>2
  <2>4. (cursor + 1)..n \subseteq DOMAIN news
    <3>1. (cursor + 1)..since \subseteq DOMAIN sync.events
      BY <1>3, <1>4, <1>8 DEF NewsOK
    <3> QED
      BY <3>1, <1>4, <1>6
  <2> QED
    BY <1>3, <1>7, <1>8, <1>9, <2>3, <2>4, RestIs DEF NewsOK
<1>14. RowsTrue'
  BY <1>3, <1>7, RestIs DEF BookInv, RowsTrue, RowTrue, Base
<1>15. ExposureOK'
  BY <1>3, <1>7, RestIs DEF BookInv, ExposureOK
<1> QED
  BY <1>9, <1>10, <1>11, <1>12, <1>13, <1>14, <1>15 DEF BookInv

\* The open trades the changes left out join them.
LEMMA FetchLiveIs ==
  ASSUME BookInv, K!FetchLive
  PROVE  BookInv'
<1>1. PICK n \in Nat : n = K!Now
  BY LogIs DEF BookInv, LogInv
<1> DEFINE polled == {t \in DOMAIN sync.lots : sync.lots[t].state = "open"}
           live == IF K!Opened(n) # {} THEN K!Opened(n) ELSE polled
           shown == [t \in live |-> K!Full(t, n)]
           lots == K!Over(sync.lots, shown)
<1>2. /\ sync.pc = "live"
      /\ UNCHANGED <<log, row, event, cursor, exposure, closing, erred, stale, lulls, fulls, faults>>
  BY DEF K!FetchLive, K!On, K!Unseen
<1>3. sync' = [sync EXCEPT !.pc = "lots", !.live = live, !.lots = lots]
  BY <1>1 DEF K!FetchLive
<1>4. SyncOK /\ LotsOK /\ LogInv /\ sync.at \in 0..n /\ sync.all = FALSE
  BY <1>1, <1>2 DEF BookInv, SyncOK
<1>5. /\ DOMAIN lots = DOMAIN sync.lots \cup live
      /\ \A t \in DOMAIN sync.lots : lots[t] = sync.lots[t]
      /\ \A t \in live : t \notin DOMAIN sync.lots => lots[t] = K!Full(t, n)
  <2>1. DOMAIN shown = live /\ \A t \in live : shown[t] = K!Full(t, n)
    OBVIOUS
  <2> HIDE DEF shown, live
  <2> QED
    BY <2>1 DEF K!Over
<1>6. /\ live \subseteq K!Opened(n) \cup DOMAIN sync.lots
      /\ K!Opened(n) \subseteq live
  OBVIOUS
<1> HIDE DEF polled, live, shown, lots
<1>7. /\ sync' = [pc |-> sync'.pc, at |-> sync'.at, lots |-> sync'.lots, events |-> sync'.events,
                  live |-> sync'.live, all |-> sync'.all, twice |-> sync'.twice]
      /\ sync'.pc = "lots" /\ sync'.at = sync.at /\ sync'.lots = lots /\ sync'.live = live
      /\ sync'.all = FALSE /\ sync'.events = sync.events /\ sync'.twice = sync.twice
  BY <1>3, <1>4 DEF SyncOK
<1>8. LogInv' /\ RowsOK' /\ EventsOK' /\ BoundsOK' /\ K!Now' = n
  BY <1>1, <1>2, RestKeeps, RestIs
<1>9. SyncOK'
  BY <1>1, <1>2, <1>4, <1>7, <1>8 DEF SyncOK, Places
<1>10. LotsOK'
  <2>1. ASSUME NEW t \in DOMAIN lots, t \notin DOMAIN sync.lots
        PROVE  /\ lots[t] \in LotSet(n) /\ lots[t].state = "open"
               /\ \E k \in sync.at..n : ShownAt(lots[t], t, k)
    <3>1. t \in K!Opened(n) /\ lots[t] = K!Full(t, n) /\ n \in sync.at..n
      BY <2>1, <1>4, <1>5, <1>6
    <3>2. t \in K!Trades(n) /\ K!IsOpen(t, n)
      BY <3>1 DEF K!Opened
    <3>3. lots[t].state = "open"
      BY <3>1, <3>2 DEF K!Full
    <3> QED
      BY <3>1, <3>2, <3>3, <1>1, <1>4, FullIs
  <2>2. \A t \in DOMAIN lots : lots[t] \in LotSet(n) /\ \E k \in sync.at..n : ShownAt(lots[t], t, k)
    BY <2>1, <1>1, <1>4, <1>5 DEF LotsOK
  <2>3. lulls = 0 =>
          /\ \A t \in DOMAIN lots : Still(t, cursor) => lots[t].state = "open"
          /\ \A t \in K!Trades(n) : Still(t, sync.at) /\ t \notin DOMAIN lots => Still(t, cursor)
    BY <2>1, <1>1, <1>2, <1>4, <1>5 DEF LotsOK
  <2> QED
    BY <1>2, <1>6, <1>7, <1>8, <2>2, <2>3, RestIs DEF LotsOK
<1>11. NewsOK'
  BY <1>2, <1>4, <1>7, RestIs DEF BookInv, NewsOK
<1>12. RowsTrue'
  BY <1>2, <1>7, RestIs DEF BookInv, RowsTrue, RowTrue, Base
<1>13. ExposureOK'
  BY <1>2, <1>7, RestIs DEF BookInv, ExposureOK
<1> QED
  BY <1>8, <1>9, <1>10, <1>11, <1>12, <1>13 DEF BookInv

LEMMA WriteLotsIs ==
  ASSUME BookInv, K!WriteLots
  PROVE  BookInv'
<1>1. PICK n \in Nat : n = K!Now
  BY LogIs DEF BookInv, LogInv
<1>2. /\ sync.pc = "lots" /\ row' = K!Over(sync.lots, row)
      /\ UNCHANGED <<log, event, cursor, exposure, closing, erred, stale, lulls, fulls, faults>>
  BY DEF K!WriteLots, K!On, K!Unseen, K!Upserted
<1>3. SyncOK /\ LotsOK /\ LogInv /\ RowsOK /\ BoundsOK /\ sync.at \in 0..n /\ cursor \in 0..sync.at
  BY <1>1, <1>2 DEF BookInv, SyncOK, BoundsOK
<1>4. /\ sync' = [pc |-> sync'.pc, at |-> sync'.at, lots |-> sync'.lots, events |-> sync'.events,
                  live |-> sync'.live, all |-> sync'.all, twice |-> sync'.twice]
      /\ sync'.pc = (IF sync.all THEN "enrich" ELSE "events")
      /\ sync'.at = sync.at /\ sync'.lots = sync.lots /\ sync'.all = sync.all
      /\ sync'.live = sync.live /\ sync'.events = sync.events /\ sync'.twice = sync.twice
  BY <1>3 DEF K!WriteLots, K!To, SyncOK
<1>5. /\ DOMAIN row' = DOMAIN sync.lots \cup DOMAIN row
      /\ \A t \in DOMAIN sync.lots : row'[t] = sync.lots[t]
      /\ \A t \in DOMAIN row : t \notin DOMAIN sync.lots => row'[t] = row[t]
  BY <1>2 DEF K!Over
<1>6. LogInv' /\ EventsOK' /\ K!Now' = n
  BY <1>1, <1>2, RestKeeps, RestIs
<1>7. ASSUME NEW t \in DOMAIN sync.lots
      PROVE  /\ t \in K!Trades(n) /\ t \in 1..n /\ sync.lots[t] \in LotSet(n)
             /\ sync.lots[t].state # "cancelled" /\ sync.lots[t].reason = "none"
             /\ \E k \in sync.at..n : ShownAt(sync.lots[t], t, k)
  <2>1. PICK k \in sync.at..n : ShownAt(sync.lots[t], t, k)
    BY <1>1, <1>3 DEF LotsOK
  <2>2. t \in K!Trades(n) /\ t \in 1..n
    BY <2>1, <1>3 DEF ShownAt, K!Trades
  <2>3. sync.lots[t].state # "cancelled" /\ sync.lots[t].reason = "none"
    BY <2>1 DEF ShownAt
  <2> QED
    BY <2>1, <2>2, <2>3, <1>1, <1>3 DEF LotsOK
<1>8. RowsOK'
  <2>1. DOMAIN row' \subseteq 1..n
    BY <1>1, <1>3, <1>5, <1>7 DEF RowsOK
  <2>2. ASSUME NEW t \in DOMAIN row'
        PROVE  /\ row'[t] \in LotSet(n)
               /\ row'[t].state = "cancelled" => t \notin K!Trades(n)
               /\ row'[t].reason = "stop_loss" => t \in K!Trades(n) /\ K!StopFilled(t)
    BY <2>2, <1>1, <1>3, <1>5, <1>7 DEF RowsOK
  <2> QED
    BY <1>2, <1>6, <2>1, <2>2, RestIs DEF RowsOK
<1>9. BoundsOK'
  BY <1>1, <1>2, <1>3, <1>5, <1>6, RestIs DEF BoundsOK
<1>10. SyncOK'
  BY <1>1, <1>2, <1>3, <1>4, <1>6 DEF SyncOK, Places
<1>11. LotsOK'
  BY <1>2, <1>3, <1>4, RestIs DEF LotsOK
<1>12. NewsOK'
  BY <1>2, <1>3, <1>4, RestIs DEF BookInv, NewsOK, SyncOK
<1>13. RowsTrue'
  <2>1. SUFFICES ASSUME lulls = 0, ~sync.all, NEW t \in K!Trades(n), Still(t, cursor)
                 PROVE  RowTrue(t)'
    BY <1>1, <1>2, <1>4, <1>6, RestIs DEF RowsTrue, Base
  <2>2. CASE t \notin DOMAIN sync.lots
    <3>1. RowTrue(t)
      BY <2>1, <1>1, <1>2 DEF BookInv, RowsTrue, Base
    <3> QED
      BY <3>1, <2>2, <1>2, <1>5, RestIs DEF RowTrue
  <2>3. CASE t \in DOMAIN sync.lots
    <3>1. sync.lots[t].state = "open"
      BY <2>1, <2>3, <1>1, <1>2, <1>3 DEF LotsOK
    <3>2. PICK k \in sync.at..n : ShownAt(sync.lots[t], t, k)
      BY <2>3, <1>7
    <3>3. K!IsOpen(t, k)
      BY <3>1, <3>2 DEF ShownAt
    <3>4. K!IsOpen(t, n) /\ K!UnitsOf(t, n) = K!UnitsOf(t, k)
      <4>1. cursor \in 0..n /\ k \in cursor..n
        BY <1>3
      <4> QED
        BY <3>3, <4>1, <2>1, <1>1, <1>3, StillIs
    <3>5. ~K!StopFilled(t)
      BY <3>4, <2>1, <1>1, <1>3, FilledIs DEF K!StopFilled
    <3>6. row'[t].state = "open" /\ row'[t].units = K!UnitsOf(t, n) /\ t \in DOMAIN row'
      BY <3>1, <3>2, <3>4, <2>3, <1>5 DEF ShownAt
    <3> QED
      BY <3>4, <3>5, <3>6, <1>1, <1>2, <1>6, RestIs DEF RowTrue
  <2> QED
    BY <2>2, <2>3
<1>14. ExposureOK'
  BY <1>2, <1>4, <1>5, RestIs DEF BookInv, ExposureOK
<1> QED
  BY <1>6, <1>8, <1>9, <1>10, <1>11, <1>12, <1>13, <1>14 DEF BookInv

LEMMA WriteEventsIs ==
  ASSUME BookInv, K!WriteEvents
  PROVE  BookInv'
<1>1. PICK n \in Nat : n = K!Now
  BY LogIs DEF BookInv, LogInv
<1>2. /\ sync.pc = "events" /\ event' = K!Stored(sync.events)
      /\ UNCHANGED <<log, row, cursor, exposure, closing, erred, stale, lulls, fulls, faults>>
  BY DEF K!WriteEvents, K!On, K!Unseen
<1>3. SyncOK /\ EventsOK /\ NewsOK /\ sync.at \in 0..n /\ cursor \in 0..n
  BY <1>1 DEF BookInv, SyncOK, BoundsOK
<1>4. /\ sync' = [pc |-> sync'.pc, at |-> sync'.at, lots |-> sync'.lots, events |-> sync'.events,
                  live |-> sync'.live, all |-> sync'.all, twice |-> sync'.twice]
      /\ sync'.pc = "enrich" /\ sync'.at = sync.at /\ sync'.lots = sync.lots
      /\ sync.all = FALSE /\ sync'.all = FALSE
      /\ sync'.live = sync.live /\ sync'.events = sync.events /\ sync'.twice = sync.twice
  BY <1>2, <1>3 DEF K!WriteEvents, K!To, SyncOK
<1>5. LogInv' /\ RowsOK' /\ BoundsOK' /\ K!Now' = n
  BY <1>1, <1>2, RestKeeps, RestIs
<1>6. /\ DOMAIN event' = DOMAIN sync.events \cup DOMAIN event
      /\ \A i \in DOMAIN event' : LinksOK(event'[i], i) /\ event'[i].expires \in BOOLEAN
  <2>1. /\ DOMAIN event \subseteq 1..n /\ DOMAIN sync.events \subseteq 1..n
        /\ \A i \in DOMAIN event : LinksOK(event[i], i) /\ event[i].expires \in BOOLEAN
        /\ \A i \in DOMAIN sync.events : LinksOK(sync.events[i], i)
    BY <1>1, <1>3 DEF EventsOK, NewsOK
  <2> QED
    BY <1>2, <2>1, StoredIs
<1>7. EventsOK'
  BY <1>1, <1>2, <1>3, <1>5, <1>6, RestIs DEF EventsOK, NewsOK
<1>8. SyncOK'
  BY <1>1, <1>2, <1>3, <1>4, <1>5 DEF SyncOK, Places
<1>9. LotsOK'
  BY <1>2, <1>3, <1>4, RestIs DEF BookInv, LotsOK
<1>10. NewsOK'
  <2>1. 1..sync.at \subseteq DOMAIN event'
    <3>1. 1..cursor \subseteq DOMAIN event /\ (cursor + 1)..sync.at \subseteq DOMAIN sync.events
      BY <1>2, <1>3, <1>4 DEF EventsOK, NewsOK
    <3> QED
      BY <3>1, <1>3, <1>6
  <2> QED
    BY <1>3, <1>4, <2>1, RestIs, <1>2 DEF NewsOK
<1>11. RowsTrue'
  BY <1>2, <1>4, RestIs DEF BookInv, RowsTrue, RowTrue, Base
<1>12. ExposureOK'
  BY <1>2, <1>4, RestIs DEF BookInv, ExposureOK
<1> QED
  BY <1>5, <1>7, <1>8, <1>9, <1>10, <1>11, <1>12 DEF BookInv

\* A sync that ends or fails leaves nothing behind.
LEMMA IdleIs ==
  ASSUME BookInv, UNCHANGED log, sync' = K!Idle
  PROVE  /\ SyncOK' /\ LotsOK' /\ NewsOK'
         /\ sync'.pc = "idle" /\ Base' = cursor'
<1>1. K!Now \in Nat
  BY LogIs DEF BookInv, LogInv
<1>2. /\ sync'.pc = "idle" /\ sync'.at = 0 /\ DOMAIN sync'.lots = {} /\ DOMAIN sync'.events = {}
      /\ sync'.live = {} /\ sync'.all = FALSE /\ sync'.twice = FALSE
  BY DEF K!Idle
<1>3. SyncOK'
  <2>1. sync' = [pc |-> sync'.pc, at |-> sync'.at, lots |-> sync'.lots, events |-> sync'.events,
                 live |-> sync'.live, all |-> sync'.all, twice |-> sync'.twice]
    BY DEF K!Idle
  <2>2. sync'.at \in 0..K!Now'
    BY <1>1, <1>2, RestIs
  <2> QED
    BY <1>2, <2>1, <2>2 DEF SyncOK, Places
<1>4. LotsOK'
  BY <1>2 DEF LotsOK
<1>5. NewsOK'
  BY <1>2 DEF NewsOK
<1> QED
  BY <1>2, <1>3, <1>4, <1>5 DEF Base

LEMMA RefusedIs ==
  ASSUME BookInv, K!Refused
  PROVE  BookInv'
<1>1. /\ sync.pc = "events" /\ sync' = K!Idle
      /\ UNCHANGED <<log, row, event, cursor, exposure, closing, erred, stale, lulls, fulls, faults>>
  BY DEF K!Refused, K!On, K!Unseen
<1>2. SyncOK' /\ LotsOK' /\ NewsOK' /\ sync'.pc = "idle" /\ Base' = cursor'
  BY <1>1, IdleIs
<1>3. LogInv' /\ RowsOK' /\ EventsOK' /\ BoundsOK'
  BY <1>1, RestKeeps
<1>4. RowsTrue'
  BY <1>1, <1>2, RestIs DEF BookInv, RowsTrue, RowTrue, Base
<1>5. ExposureOK'
  BY <1>1, <1>2, RestIs DEF BookInv, ExposureOK
<1> QED
  BY <1>2, <1>3, <1>4, <1>5 DEF BookInv

\* What the events of the stop order add to it.
LEMMA DerivedIs ==
  ASSUME NEW n \in Nat, NEW lot \in LotSet(n), NEW t, NEW es, DOMAIN es \subseteq 1..n
  PROVE  /\ K!Derived(lot, t, es) \in StopSet
         /\ K!StopReconciled(lot, K!Derived(lot, t, es)) \in StopSet
         /\ lot.stop.is = "FILLED" /\ lot.stop.order # 0 =>
              K!StopReconciled(lot, K!Derived(lot, t, es)) = lot.stop
<1> DEFINE own == K!About(lot, t, es)
           placed == {i \in own : log[i].type = "STOP_LOSS_ORDER"}
           order == IF lot.stop.order # 0 THEN lot.stop.order
                    ELSE IF placed # {} THEN CHOOSE i \in placed : TRUE ELSE 0
           ended == {i \in own : es[i].order = order /\ log[i].type \in {"ORDER_FILL", "ORDER_CANCEL"}}
           is == IF ended = {} THEN IF lot.stop.order # 0 THEN lot.stop.is ELSE "PENDING"
                 ELSE IF \E i \in ended : log[i].type = "ORDER_FILL" THEN "FILLED" ELSE "CANCELLED"
           derived == K!Derived(lot, t, es)
<1>1. lot.stop \in StopSet
  BY DEF LotSet
<1>2. derived = IF order = 0 THEN K!NoStop ELSE [order |-> order, is |-> is]
  BY DEF K!Derived
<1>3. is \in Ends
  <2> HIDE DEF ended
  <2> QED
    BY <1>1 DEF StopSet, Ends
<1> HIDE DEF is
<1>4. order \in Nat
  <2>1. own \subseteq 1..n
    BY DEF K!About
  <2>2. placed \subseteq Nat
    BY <2>1
  <2> HIDE DEF placed
  <2>3. placed # {} => (CHOOSE i \in placed : TRUE) \in placed
    OBVIOUS
  <2> QED
    BY <2>2, <2>3, <1>1 DEF StopSet
<1> HIDE DEF order, derived
<1>5. derived \in StopSet
  BY <1>2, <1>3, <1>4 DEF K!NoStop, StopSet, Ends
<1>6. K!StateRank(derived.is) \in 0..2 /\ K!StateRank("FILLED") = 2
  BY DEF K!StateRank
<1>7. K!StopReconciled(lot, derived) =
        IF lot.stop.order = 0 THEN derived
        ELSE IF K!StateRank(derived.is) > K!StateRank(lot.stop.is)
             THEN [lot.stop EXCEPT !.is = derived.is] ELSE lot.stop
  BY DEF K!StopReconciled
<1>8. K!StopReconciled(lot, derived) \in StopSet
  BY <1>1, <1>5, <1>7 DEF StopSet
<1>9. lot.stop.is = "FILLED" /\ lot.stop.order # 0 => K!StopReconciled(lot, derived) = lot.stop
  BY <1>6, <1>7
<1> QED
  BY <1>5, <1>8, <1>9 DEF derived

\* A lot with its reason: a stop-out is one, and is known for one.
LEMMA EnrichedIs ==
  ASSUME LogInv, NEW n \in Nat, n = K!Now, NEW k \in 0..n, NEW t, NEW lot \in LotSet(n),
         ShownAt(lot, t, k), NEW es, DOMAIN es \subseteq 1..n,
         \A i \in DOMAIN es : LinksOK(es[i], i)
  PROVE  /\ K!Enriched(lot, t, es) \in LotSet(n)
         /\ K!Enriched(lot, t, es).state = lot.state /\ K!Enriched(lot, t, es).units = lot.units
         /\ K!Enriched(lot, t, es).details = lot.details
         /\ K!Enriched(lot, t, es).reason # "manual_close"
         /\ K!Enriched(lot, t, es).reason = "stop_loss" => K!StopFilled(t)
         /\ K!StopAt(k, K!StopId(t)) = "FILLED" =>
              /\ K!Enriched(lot, t, es).reason = "stop_loss"
              /\ K!Enriched(lot, t, es).stop.is = "FILLED"
<1> DEFINE reason == K!Inferred(lot, t, es)
           stop == K!StopReconciled(lot, K!Derived(lot, t, es))
           full == K!Enriched(lot, t, es)
           hit == \E i \in lot.ids \cap DOMAIN es : K!FillOfStop(lot, i, es)
<1>1. full = [lot EXCEPT !.reason = reason, !.stop = stop]
  BY DEF K!Enriched
<1>2. t \in K!Trades(k) /\ t \in K!Trades(n) /\ t \in 1..n /\ OneEnd(t)
  <2>1. t \in K!Trades(k) /\ t \in K!Trades(n) /\ t \in 1..n
    BY DEF ShownAt, K!Trades
  <2> QED
    BY <2>1 DEF LogInv
<1>3. reason = IF lot.state # "closed" THEN "none"
               ELSE IF lot.stop.is = "FILLED" \/ hit THEN "stop_loss"
               ELSE IF K!Cardinality(lot.ids) > 1 THEN "partial_close" ELSE "broker_closed"
  BY DEF K!Inferred
<1>4. stop \in StopSet /\ (lot.stop.is = "FILLED" /\ lot.stop.order # 0 => stop = lot.stop)
  BY DerivedIs
<1>5. \/ lot.stop = [order |-> t + 1, is |-> K!StopAt(k, K!StopId(t))]
      \/ lot.stop = [order |-> 0, is |-> "none"] /\ K!StopAt(k, K!StopId(t)) # "FILLED"
  BY DEF ShownAt, K!Stop, K!NoStop, K!StopId
<1>6. hit => K!StopFilled(t)
  <2>1. SUFFICES ASSUME NEW i \in lot.ids \cap DOMAIN es, K!FillOfStop(lot, i, es)
                 PROVE  K!StopFilled(t)
    OBVIOUS
  <2>2. log[i].type = "ORDER_FILL" /\ lot.stop.order # 0 /\ es[i].order = lot.stop.order
    BY <2>1 DEF K!FillOfStop
  <2>3. es[i].order = t + 1
    BY <2>2, <1>5
  <2>4. log[i].order = K!StopId(t) /\ i \in 1..K!Now
    BY <2>1, <2>3, <1>2 DEF LinksOK, K!StopId
  <2>5. K!Now \in 0..K!Now
    OBVIOUS
  <2> QED
    BY <2>2, <2>4, <2>5, <1>2, StopIs DEF K!StopFilled
<1>7. lot.stop.is = "FILLED" <=> K!StopAt(k, K!StopId(t)) = "FILLED"
  BY <1>5
<1>8. K!StopAt(k, K!StopId(t)) = "FILLED" => K!StopFilled(t) /\ lot.state = "closed"
  <2>1. SUFFICES ASSUME K!StopAt(k, K!StopId(t)) = "FILLED"
                 PROVE  K!StopFilled(t) /\ lot.state = "closed"
    OBVIOUS
  <2>2. K!StopFilled(t)
    BY <2>1, <1>2, FilledIs
  <2>3. PICK i \in 1..k : log[i].order = K!StopId(t) /\ log[i].type = "ORDER_FILL"
    BY <2>1, <1>2, StopIs
  <2>4. i \in 1..n /\ log[i].trade = t /\ log[i].does = "closes"
    BY <2>3, <1>2 DEF OneEnd
  <2>5. ~K!IsOpen(t, k)
    BY <2>4 DEF K!IsOpen, K!Closers
  <2> QED
    BY <2>2, <2>5 DEF ShownAt
<1> HIDE DEF reason, stop, full, hit
<1>9. /\ full \in LotSet(n) /\ full.state = lot.state /\ full.units = lot.units
      /\ full.details = lot.details /\ full.reason = reason /\ full.stop = stop
  <2>1. reason \in Reasons
    BY <1>3 DEF Reasons
  <2> QED
    BY <2>1, <1>1, <1>4 DEF LotSet
<1>10. reason # "manual_close" /\ (reason = "stop_loss" => K!StopFilled(t))
  BY <1>3, <1>6, <1>7, <1>8
<1>11. K!StopAt(k, K!StopId(t)) = "FILLED" => reason = "stop_loss" /\ stop.is = "FILLED"
  BY <1>2, <1>3, <1>4, <1>5, <1>7, <1>8
<1> QED
  BY <1>9, <1>10, <1>11 DEF full

LEMMA EnrichIs ==
  ASSUME BookInv, K!Enrich
  PROVE  BookInv'
<1>1. PICK n \in Nat : n = K!Now
  BY LogIs DEF BookInv, LogInv
<1> DEFINE For(t) ==
             IF sync.all THEN K!Restrict(event, K!EventsOf(t))
             ELSE K!Restrict(sync.events, {i \in DOMAIN sync.events : sync.events[i].trade = t})
           told == [t \in DOMAIN sync.lots |-> K!Enriched(sync.lots[t], t, For(t))]
<1>2. /\ sync.pc = "enrich" /\ row' = K!Over(told, row)
      /\ UNCHANGED <<log, event, cursor, exposure, closing, erred, stale, lulls, fulls, faults>>
  BY DEF K!Enrich, K!On, K!Unseen, K!Upserted
<1>3. /\ SyncOK /\ LotsOK /\ LogInv /\ RowsOK /\ EventsOK /\ NewsOK /\ BoundsOK
      /\ sync.at \in 0..n /\ cursor \in 0..n
  BY <1>1 DEF BookInv, SyncOK, BoundsOK
<1>4. /\ sync' = [pc |-> sync'.pc, at |-> sync'.at, lots |-> sync'.lots, events |-> sync'.events,
                  live |-> sync'.live, all |-> sync'.all, twice |-> sync'.twice]
      /\ sync'.pc = "drift"
      /\ sync'.at = sync.at /\ sync'.lots = sync.lots /\ sync'.all = sync.all
      /\ sync'.live = sync.live /\ sync'.events = sync.events /\ sync'.twice = sync.twice
  BY <1>3 DEF K!Enrich, K!To, SyncOK
<1>5. ASSUME NEW t PROVE DOMAIN For(t) \subseteq 1..n /\ \A i \in DOMAIN For(t) : LinksOK(For(t)[i], i)
  <2>1. /\ \A i \in DOMAIN event : i \in 1..n /\ LinksOK(event[i], i)
        /\ \A i \in DOMAIN sync.events : i \in 1..n /\ LinksOK(sync.events[i], i)
    BY <1>1, <1>3 DEF EventsOK, NewsOK
  <2> QED
    BY <2>1 DEF K!Restrict, K!EventsOf
<1>6. /\ DOMAIN told = DOMAIN sync.lots
      /\ \A t \in DOMAIN sync.lots : told[t] = K!Enriched(sync.lots[t], t, For(t))
  OBVIOUS
<1> HIDE DEF told, For
<1>7. /\ DOMAIN row' = DOMAIN sync.lots \cup DOMAIN row
      /\ \A t \in DOMAIN sync.lots : row'[t] = K!Enriched(sync.lots[t], t, For(t))
      /\ \A t \in DOMAIN row : t \notin DOMAIN sync.lots => row'[t] = row[t]
  BY <1>2, <1>6 DEF K!Over
<1>8. ASSUME NEW t \in DOMAIN sync.lots, NEW k \in sync.at..n, ShownAt(sync.lots[t], t, k)
      PROVE  /\ t \in K!Trades(n) /\ t \in 1..n /\ row'[t] \in LotSet(n)
             /\ row'[t].state = sync.lots[t].state /\ row'[t].units = sync.lots[t].units
             /\ row'[t].details = sync.lots[t].details /\ row'[t].reason # "manual_close"
             /\ row'[t].reason = "stop_loss" => K!StopFilled(t)
             /\ K!StopAt(k, K!StopId(t)) = "FILLED" =>
                  row'[t].reason = "stop_loss" /\ row'[t].stop.is = "FILLED"
  <2>1. t \in K!Trades(n) /\ t \in 1..n /\ k \in 0..n
    BY <1>8, <1>3 DEF ShownAt, K!Trades
  <2>2. sync.lots[t] \in LotSet(n)
    BY <1>1, <1>3 DEF LotsOK
  <2> DEFINE es == For(t)
  <2>3. DOMAIN es \subseteq 1..n /\ \A i \in DOMAIN es : LinksOK(es[i], i)
    BY <1>5
  <2>4. row'[t] = K!Enriched(sync.lots[t], t, es)
    BY <1>7
  <2> HIDE DEF es
  <2> QED
    BY <2>1, <2>2, <2>3, <2>4, <1>1, <1>3, <1>8, EnrichedIs
<1>9. ASSUME NEW t \in DOMAIN sync.lots
      PROVE  \E k \in sync.at..n : ShownAt(sync.lots[t], t, k)
  BY <1>1, <1>3 DEF LotsOK
<1>10. LogInv' /\ EventsOK' /\ K!Now' = n
  BY <1>1, <1>2, RestKeeps, RestIs
<1>11. RowsOK'
  <2>1. DOMAIN row' \subseteq 1..n
    BY <1>1, <1>3, <1>7, <1>8, <1>9 DEF RowsOK
  <2>2. ASSUME NEW t \in DOMAIN sync.lots
        PROVE  /\ row'[t] \in LotSet(n) /\ row'[t].state # "cancelled"
               /\ row'[t].reason = "stop_loss" => t \in K!Trades(n) /\ K!StopFilled(t)
    BY <1>8, <1>9 DEF ShownAt
  <2>3. ASSUME NEW t \in DOMAIN row'
        PROVE  /\ row'[t] \in LotSet(n)
               /\ row'[t].state = "cancelled" => t \notin K!Trades(n)
               /\ row'[t].reason = "stop_loss" => t \in K!Trades(n) /\ K!StopFilled(t)
    BY <2>2, <2>3, <1>1, <1>3, <1>7 DEF RowsOK
  <2> QED
    BY <1>2, <1>10, <2>1, <2>3, RestIs DEF RowsOK
<1>12. BoundsOK'
  BY <1>1, <1>2, <1>3, <1>7, <1>10, RestIs DEF BoundsOK
<1>13. SyncOK'
  BY <1>1, <1>2, <1>3, <1>4, <1>10 DEF SyncOK, Places
<1>14. LotsOK'
  BY <1>2, <1>3, <1>4, RestIs DEF LotsOK
<1>15. NewsOK'
  BY <1>2, <1>3, <1>4, RestIs DEF NewsOK
<1>16. RowsTrue'
  <2>1. SUFFICES ASSUME lulls = 0, NEW t \in K!Trades(n), Still(t, sync.at)
                 PROVE  RowTrue(t)'
    BY <1>1, <1>2, <1>4, <1>10, RestIs DEF RowsTrue, Base
  <2>2. CASE t \notin DOMAIN sync.lots
    <3>1. t <= sync.at
      BY <2>1 DEF Still
    <3>2. ~sync.all /\ Still(t, cursor)
      BY <2>1, <2>2, <3>1, <1>1, <1>2, <1>3 DEF LotsOK, SyncOK
    <3>3. RowTrue(t)
      BY <2>1, <3>2, <1>1, <1>2 DEF BookInv, RowsTrue, Base
    <3> QED
      BY <3>3, <2>2, <1>2, <1>7, RestIs DEF RowTrue
  <2>3. CASE t \in DOMAIN sync.lots
    <3>1. PICK k \in sync.at..n : ShownAt(sync.lots[t], t, k)
      BY <2>3, <1>9
    <3>2. /\ K!Closers(t, k) = K!Closers(t, n)
          /\ K!IsOpen(t, k) <=> K!IsOpen(t, n)
          /\ K!UnitsOf(t, k) = K!UnitsOf(t, n)
          /\ K!StopFilled(t) <=> K!StopAt(k, K!StopId(t)) = "FILLED"
      BY <2>1, <1>1, <1>3, StillIs
    <3>3. /\ row'[t].state = (IF K!IsOpen(t, n) THEN "open" ELSE "closed")
          /\ row'[t].units = K!UnitsOf(t, n)
          /\ ~K!IsOpen(t, n) => row'[t].details = K!Closers(t, n)
          /\ K!StopFilled(t) => row'[t].reason = "stop_loss" /\ row'[t].stop.is = "FILLED"
      BY <2>3, <3>1, <3>2, <1>8 DEF ShownAt, K!Closed
    <3> QED
      BY <3>3, <2>3, <1>1, <1>2, <1>7, <1>10, RestIs DEF RowTrue
  <2> QED
    BY <2>2, <2>3
<1>17. ExposureOK'
  BY <1>2, <1>4, <1>7, RestIs DEF BookInv, ExposureOK
<1> QED
  BY <1>10, <1>11, <1>12, <1>13, <1>14, <1>15, <1>16, <1>17 DEF BookInv

\* A row that is true of its trade has not drifted.
LEMMA CloseDriftedIs ==
  ASSUME BookInv, K!CloseDrifted
  PROVE  BookInv'
<1>1. PICK n \in Nat : n = K!Now
  BY LogIs DEF BookInv, LogInv
<1> DEFINE shut == [t \in K!Drifted |-> K!Shut(t)]
<1>2. /\ sync.pc = "drift" /\ row' = (IF sync.live = {} THEN row ELSE K!Over(shut, row))
      /\ UNCHANGED <<log, event, cursor, exposure, closing, erred, stale, lulls, fulls, faults>>
  BY DEF K!CloseDrifted, K!On, K!Unseen, K!Upserted
<1>3. SyncOK /\ LotsOK /\ LogInv /\ RowsOK /\ BoundsOK /\ sync.at \in 0..n /\ cursor \in 0..n
  BY <1>1 DEF BookInv, SyncOK, BoundsOK
<1>4. /\ sync' = [pc |-> sync'.pc, at |-> sync'.at, lots |-> sync'.lots, events |-> sync'.events,
                  live |-> sync'.live, all |-> sync'.all, twice |-> sync'.twice]
      /\ sync'.pc = "cancelled"
      /\ sync'.at = sync.at /\ sync'.lots = sync.lots /\ sync'.all = sync.all
      /\ sync'.live = sync.live /\ sync'.events = sync.events /\ sync'.twice = sync.twice
  BY <1>3 DEF K!CloseDrifted, K!To, SyncOK
<1>5. /\ DOMAIN row' = DOMAIN row
      /\ \A t \in DOMAIN row : \/ row'[t] = row[t]
                               \/ t \in K!Drifted /\ sync.live # {} /\ row'[t] = K!Shut(t)
  <2>1. DOMAIN shut = K!Drifted /\ K!Drifted \subseteq DOMAIN row
    BY DEF K!Drifted, K!OpenRows
  <2>2. \A t \in K!Drifted : shut[t] = K!Shut(t)
    OBVIOUS
  <2> HIDE DEF shut
  <2> QED
    BY <2>1, <2>2, <1>2 DEF K!Over
<1> HIDE DEF shut
<1>6. LogInv' /\ EventsOK' /\ K!Now' = n
  BY <1>1, <1>2, RestKeeps, RestIs
<1>7. ASSUME NEW t \in DOMAIN row
      PROVE  /\ K!Shut(t) \in LotSet(n) /\ K!Shut(t).state = "closed"
             /\ K!Shut(t).reason = "broker_closed"
  <2>1. row[t] \in LotSet(n)
    BY <1>1, <1>3 DEF RowsOK
  <2> DEFINE r == row[t]
             Some == SUBSET (1..n)
             Units == 0..2
  <2>2. r \in [state : {"open", "closed", "cancelled"}, units : Units, stop : StopSet, ids : Some,
               details : Some, reason : Reasons] /\ 0 \in Units
    BY <2>1 DEF LotSet
  <2>3. K!Shut(t) = [r EXCEPT !.state = "closed", !.units = 0, !.reason = "broker_closed"]
    BY DEF K!Shut
  <2> HIDE DEF r, Some, Units
  <2>4. /\ K!Shut(t) \in [state : {"open", "closed", "cancelled"}, units : Units, stop : StopSet,
                         ids : Some, details : Some, reason : Reasons]
        /\ K!Shut(t).state = "closed" /\ K!Shut(t).reason = "broker_closed"
    BY <2>2, <2>3 DEF Reasons
  <2> QED
    BY <2>4 DEF LotSet, r, Some, Units
<1>8. RowsOK'
  <2>1. ASSUME NEW t \in DOMAIN row'
        PROVE  /\ t \in 1..n /\ row'[t] \in LotSet(n)
               /\ row'[t].state = "cancelled" => t \notin K!Trades(n)
               /\ row'[t].reason = "stop_loss" => t \in K!Trades(n) /\ K!StopFilled(t)
    BY <2>1, <1>1, <1>3, <1>5, <1>7 DEF RowsOK
  <2> QED
    BY <1>2, <1>6, <2>1, RestIs DEF RowsOK
<1>9. BoundsOK'
  BY <1>1, <1>2, <1>3, <1>5, <1>6, RestIs DEF BoundsOK
<1>10. SyncOK'
  BY <1>1, <1>2, <1>3, <1>4, <1>6 DEF SyncOK, Places
<1>11. LotsOK'
  BY <1>2, <1>3, <1>4, RestIs DEF LotsOK
<1>12. NewsOK'
  BY <1>2, <1>3, <1>4, RestIs DEF BookInv, NewsOK
<1>13. RowsTrue'
  <2>1. SUFFICES ASSUME lulls = 0, NEW t \in K!Trades(n), Still(t, sync.at)
                 PROVE  RowTrue(t)'
    BY <1>1, <1>2, <1>4, <1>6, RestIs DEF RowsTrue, Base
  <2>2. RowTrue(t)
    BY <2>1, <1>1, <1>2 DEF BookInv, RowsTrue, Base
  <2>3. row'[t] = row[t]
    <3>1. SUFFICES ASSUME t \in K!Drifted, sync.live # {} PROVE FALSE
      BY <2>2, <1>5 DEF RowTrue
    <3>2. row[t].state = "open" /\ (row[t].units = 0 \/ t \notin sync.live)
      BY <3>1 DEF K!Drifted, K!OpenRows
    <3>3. K!IsOpen(t, n)
      BY <3>2, <2>2, <1>1 DEF RowTrue
    <3>4. row[t].units # 0
      BY <3>3, <2>1, <2>2, <1>1, <1>3, UnitsIs DEF RowTrue
    <3>5. t \in sync.live
      BY <3>1, <3>3, <2>1, <1>1, <1>3 DEF LotsOK, K!Opened, Still
    <3> QED
      BY <3>2, <3>4, <3>5
  <2> QED
    BY <2>2, <2>3, <1>2, <1>5, RestIs DEF RowTrue
<1>14. ExposureOK'
  BY <1>2, <1>4, <1>5, RestIs DEF BookInv, ExposureOK
<1> QED
  BY <1>6, <1>8, <1>9, <1>10, <1>11, <1>12, <1>13, <1>14 DEF BookInv

LEMMA MarkCancelledIs ==
  ASSUME BookInv, K!MarkCancelled
  PROVE  BookInv'
<1>1. PICK n \in Nat : n = K!Now
  BY LogIs DEF BookInv, LogInv
<1> DEFINE cancelled == {t \in DOMAIN row : K!Unsynced(t) /\ K!Cancelled(t)}
           withdrawn == [t \in cancelled |-> K!Withdrawn(t)]
<1>2. /\ sync.pc = "cancelled" /\ row' = K!Over(withdrawn, row)
      /\ UNCHANGED <<log, event, cursor, exposure, closing, erred, stale, lulls, fulls, faults>>
  BY DEF K!MarkCancelled, K!On, K!Unseen, K!Upserted
<1>3. SyncOK /\ LotsOK /\ LogInv /\ RowsOK /\ BoundsOK /\ sync.at \in 0..n /\ cursor \in 0..n
  BY <1>1 DEF BookInv, SyncOK, BoundsOK
<1>4. /\ sync' = [pc |-> sync'.pc, at |-> sync'.at, lots |-> sync'.lots, events |-> sync'.events,
                  live |-> sync'.live, all |-> sync'.all, twice |-> sync'.twice]
      /\ sync'.pc = "commit"
      /\ sync'.at = sync.at /\ sync'.lots = sync.lots /\ sync'.all = sync.all
      /\ sync'.live = sync.live /\ sync'.events = sync.events /\ sync'.twice = sync.twice
  BY <1>3 DEF K!MarkCancelled, K!To, SyncOK
<1>5. /\ DOMAIN row' = DOMAIN row
      /\ \A t \in DOMAIN row : \/ row'[t] = row[t]
                               \/ t \notin K!Trades(n) /\ row'[t] = K!Withdrawn(t)
  <2>1. DOMAIN withdrawn = cancelled /\ cancelled \subseteq DOMAIN row /\ \A t \in cancelled : withdrawn[t] = K!Withdrawn(t)
    OBVIOUS
  <2>2. \A t \in cancelled : t \notin K!Trades(n)
    BY DEF K!Unsynced, K!Trades
  <2> HIDE DEF withdrawn, cancelled
  <2> QED
    BY <2>1, <2>2, <1>2 DEF K!Over
<1> HIDE DEF withdrawn, cancelled
<1>6. LogInv' /\ EventsOK' /\ K!Now' = n
  BY <1>1, <1>2, RestKeeps, RestIs
<1>7. ASSUME NEW t \in DOMAIN row
      PROVE  K!Withdrawn(t) \in LotSet(n) /\ K!Withdrawn(t).reason = row[t].reason
  <2>1. row[t] \in LotSet(n)
    BY <1>1, <1>3 DEF RowsOK
  <2> DEFINE r == row[t]
             Some == SUBSET (1..n)
             Units == 0..2
  <2>2. r \in [state : {"open", "closed", "cancelled"}, units : Units, stop : StopSet, ids : Some,
               details : Some, reason : Reasons] /\ 0 \in Units
    BY <2>1 DEF LotSet
  <2>3. K!Withdrawn(t) = [r EXCEPT !.state = "cancelled", !.units = 0]
    BY DEF K!Withdrawn
  <2> HIDE DEF r, Some, Units
  <2>4. /\ K!Withdrawn(t) \in [state : {"open", "closed", "cancelled"}, units : Units, stop : StopSet,
                         ids : Some, details : Some, reason : Reasons]
        /\ K!Withdrawn(t).reason = r.reason
    BY <2>2, <2>3 DEF Reasons
  <2> QED
    BY <2>4 DEF LotSet, r, Some, Units
<1>8. RowsOK'
  <2>1. ASSUME NEW t \in DOMAIN row'
        PROVE  /\ t \in 1..n /\ row'[t] \in LotSet(n)
               /\ row'[t].state = "cancelled" => t \notin K!Trades(n)
               /\ row'[t].reason = "stop_loss" => t \in K!Trades(n) /\ K!StopFilled(t)
    BY <2>1, <1>1, <1>3, <1>5, <1>7 DEF RowsOK
  <2> QED
    BY <1>2, <1>6, <2>1, RestIs DEF RowsOK
<1>9. BoundsOK'
  BY <1>1, <1>2, <1>3, <1>5, <1>6, RestIs DEF BoundsOK
<1>10. SyncOK'
  BY <1>1, <1>2, <1>3, <1>4, <1>6 DEF SyncOK, Places
<1>11. LotsOK'
  BY <1>2, <1>3, <1>4, RestIs DEF LotsOK
<1>12. NewsOK'
  BY <1>2, <1>3, <1>4, RestIs DEF BookInv, NewsOK
<1>13. RowsTrue'
  <2>1. SUFFICES ASSUME lulls = 0, NEW t \in K!Trades(n), Still(t, sync.at)
                 PROVE  RowTrue(t)'
    BY <1>1, <1>2, <1>4, <1>6, RestIs DEF RowsTrue, Base
  <2>2. RowTrue(t)
    BY <2>1, <1>1, <1>2 DEF BookInv, RowsTrue, Base
  <2>3. row'[t] = row[t]
    BY <2>1, <2>2, <1>5 DEF RowTrue
  <2> QED
    BY <2>2, <2>3, <1>2, <1>5, RestIs DEF RowTrue
<1>14. ExposureOK'
  BY <1>2, <1>4, <1>5, RestIs DEF BookInv, ExposureOK
<1> QED
  BY <1>6, <1>8, <1>9, <1>10, <1>11, <1>12, <1>13, <1>14 DEF BookInv

LEMMA CommitIs ==
  ASSUME BookInv, K!Commit
  PROVE  BookInv'
<1>1. PICK n \in Nat : n = K!Now
  BY LogIs DEF BookInv, LogInv
<1>2. /\ sync.pc = "commit" /\ cursor' = sync.at /\ stale' = FALSE /\ erred' = FALSE
      /\ UNCHANGED <<log, row, event, exposure, closing, lulls, fulls, faults>>
  BY DEF K!Commit, K!On
<1>3. SyncOK /\ EventsOK /\ NewsOK /\ BoundsOK /\ sync.at \in 0..n
  BY <1>1 DEF BookInv, SyncOK
<1>4. /\ sync' = [pc |-> sync'.pc, at |-> sync'.at, lots |-> sync'.lots, events |-> sync'.events,
                  live |-> sync'.live, all |-> sync'.all, twice |-> sync'.twice]
      /\ sync'.pc = "backfill"
      /\ sync'.at = sync.at /\ sync'.lots = sync.lots /\ sync'.all = sync.all
      /\ sync'.live = sync.live /\ sync'.events = sync.events /\ sync'.twice = sync.twice
  BY <1>3 DEF K!Commit, K!To, SyncOK
<1>5. LogInv' /\ RowsOK' /\ K!Now' = n
  BY <1>1, <1>2, RestKeeps, RestIs
<1>6. EventsOK'
  BY <1>2, <1>3, RestIs DEF EventsOK, NewsOK
<1>7. BoundsOK'
  BY <1>1, <1>2, <1>3, <1>5, RestIs DEF BoundsOK
<1>8. SyncOK'
  BY <1>1, <1>2, <1>3, <1>4, <1>5 DEF SyncOK, Places
<1>9. LotsOK'
  BY <1>2, <1>4, RestIs DEF BookInv, LotsOK
<1>10. NewsOK'
  BY <1>2, <1>4, RestIs DEF BookInv, NewsOK
<1>11. RowsTrue'
  BY <1>2, <1>4, RestIs DEF BookInv, RowsTrue, RowTrue, Base
<1>12. ExposureOK'
  BY <1>2, <1>4, RestIs DEF BookInv, ExposureOK
<1> QED
  BY <1>5, <1>6, <1>7, <1>8, <1>9, <1>10, <1>11, <1>12 DEF BookInv

\* The rows without price and P/L that should have them are ours.
LEMMA BackfillIs ==
  ASSUME BookInv, K!Backfill
  PROVE  BookInv'
<1>1. PICK n \in Nat : n = K!Now
  BY LogIs DEF BookInv, LogInv
<1> DEFINE full == [t \in K!Missing |-> K!Filled(t)]
<1>2. /\ sync.pc = "backfill" /\ row' = K!Over(full, row)
      /\ UNCHANGED <<log, event, cursor, exposure, closing, erred, stale, lulls, fulls, faults>>
  BY DEF K!Backfill, K!On, K!Unseen, K!Upserted
<1>3. /\ SyncOK /\ LotsOK /\ LogInv /\ RowsOK /\ EventsOK /\ BoundsOK
      /\ sync.at \in 0..n /\ cursor \in 0..n
  BY <1>1 DEF BookInv, SyncOK, BoundsOK
<1>4. /\ sync' = [pc |-> sync'.pc, at |-> sync'.at, lots |-> sync'.lots, events |-> sync'.events,
                  live |-> sync'.live, all |-> sync'.all, twice |-> sync'.twice]
      /\ sync'.pc = "clear"
      /\ sync'.at = sync.at /\ sync'.lots = sync.lots /\ sync'.all = sync.all
      /\ sync'.live = sync.live /\ sync'.events = sync.events /\ sync'.twice = sync.twice
  BY <1>3 DEF K!Backfill, K!To, SyncOK
<1>5. /\ DOMAIN row' = DOMAIN row
      /\ \A t \in DOMAIN row : \/ row'[t] = row[t]
                               \/ t \in K!Missing /\ row'[t] = K!Filled(t)
  <2>1. DOMAIN full = K!Missing /\ K!Missing \subseteq DOMAIN row
    BY DEF K!Missing
  <2>2. \A t \in K!Missing : full[t] = K!Filled(t)
    OBVIOUS
  <2> HIDE DEF full
  <2> QED
    BY <2>1, <2>2, <1>2 DEF K!Over
<1> HIDE DEF full
<1>6. LogInv' /\ EventsOK' /\ K!Now' = n
  BY <1>1, <1>2, RestKeeps, RestIs
<1>7. ASSUME NEW t \in DOMAIN row
      PROVE  /\ K!Filled(t) \in LotSet(n) /\ K!Filled(t).state = row[t].state
             /\ K!Filled(t).units = row[t].units /\ K!Filled(t).reason = row[t].reason
             /\ K!Filled(t).stop = row[t].stop
  <2>1. row[t] \in LotSet(n)
    BY <1>1, <1>3 DEF RowsOK
  <2>2. K!Details(t) \subseteq 1..n
    <3>1. K!Asked(t) \subseteq 1..n
      BY <1>1 DEF K!Asked, K!Closed, K!Closers
    <3>2. K!Fills(K!EventsOf(t)) \subseteq 1..n
      BY <1>1, <1>3 DEF K!Fills, K!EventsOf, EventsOK
    <3>3. t \in DOMAIN event => K!Fills({t}) \subseteq 1..n
      BY <1>1, <1>3 DEF K!Fills, EventsOK
    <3> QED
      BY <3>1, <3>2, <3>3 DEF K!Details
  <2> QED
    BY <2>1, <2>2 DEF K!Filled, LotSet
<1>8. RowsOK'
  <2>1. ASSUME NEW t \in DOMAIN row'
        PROVE  /\ t \in 1..n /\ row'[t] \in LotSet(n)
               /\ row'[t].state = "cancelled" => t \notin K!Trades(n)
               /\ row'[t].reason = "stop_loss" => t \in K!Trades(n) /\ K!StopFilled(t)
    BY <2>1, <1>1, <1>3, <1>5, <1>7 DEF RowsOK
  <2> QED
    BY <1>2, <1>6, <2>1, RestIs DEF RowsOK
<1>9. BoundsOK'
  BY <1>1, <1>2, <1>3, <1>5, <1>6, RestIs DEF BoundsOK
<1>10. SyncOK'
  BY <1>1, <1>2, <1>3, <1>4, <1>6 DEF SyncOK, Places
<1>11. LotsOK'
  BY <1>2, <1>3, <1>4, RestIs DEF LotsOK
<1>12. NewsOK'
  BY <1>2, <1>3, <1>4, RestIs DEF BookInv, NewsOK
<1>13. RowsTrue'
  <2>1. SUFFICES ASSUME lulls = 0, NEW t \in K!Trades(n), Still(t, cursor)
                 PROVE  RowTrue(t)'
    BY <1>1, <1>2, <1>4, <1>6, RestIs DEF RowsTrue, Base
  <2>2. RowTrue(t)
    BY <2>1, <1>1, <1>2 DEF BookInv, RowsTrue, Base
  <2>3. t \in K!Missing => ~K!IsOpen(t, n) /\ row[t].reason = "manual_close"
    <3>1. SUFFICES ASSUME t \in K!Missing, K!IsOpen(t, n) \/ row[t].reason # "manual_close"
                   PROVE  FALSE
      OBVIOUS
    <3>2. row[t].state = "closed" /\ row[t].details = {}
      BY <3>1 DEF K!Missing
    <3>3. ~K!IsOpen(t, n)
      BY <3>2, <2>2, <1>1 DEF RowTrue
    <3>4. K!Closers(t, n) = {}
      BY <3>1, <3>2, <3>3, <2>2, <1>1 DEF RowTrue
    <3> QED
      BY <3>3, <3>4 DEF K!IsOpen
  <2>4. CASE t \in K!Missing
    BY <2>2, <2>3, <2>4, <1>1, <1>2, <1>5, <1>6, <1>7, RestIs DEF RowTrue
  <2>5. CASE t \notin K!Missing
    BY <2>2, <2>5, <1>2, <1>5, RestIs DEF RowTrue
  <2> QED
    BY <2>4, <2>5
<1>14. ExposureOK'
  BY <1>2, <1>4, <1>5, RestIs DEF BookInv, ExposureOK
<1> QED
  BY <1>6, <1>8, <1>9, <1>10, <1>11, <1>12, <1>13, <1>14 DEF BookInv

LEMMA ClearExposureIs ==
  ASSUME BookInv, K!ClearExposure
  PROVE  BookInv'
<1>1. PICK n \in Nat : n = K!Now
  BY LogIs DEF BookInv, LogInv
<1>2. /\ sync.pc = "clear" /\ exposure' = <<>>
      /\ UNCHANGED <<log, row, event, cursor, closing, erred, stale, lulls, fulls, faults>>
  BY DEF K!ClearExposure, K!On, K!Unseen, K!Unknown
<1>3. SyncOK
  BY DEF BookInv
<1>4. /\ sync' = [pc |-> sync'.pc, at |-> sync'.at, lots |-> sync'.lots, events |-> sync'.events,
                  live |-> sync'.live, all |-> sync'.all, twice |-> sync'.twice]
      /\ sync'.pc = "rollup"
      /\ sync'.at = sync.at /\ sync'.lots = sync.lots /\ sync'.all = sync.all
      /\ sync'.live = sync.live /\ sync'.events = sync.events /\ sync'.twice = sync.twice
  BY <1>3 DEF K!ClearExposure, K!To, SyncOK
<1>5. LogInv' /\ RowsOK' /\ EventsOK' /\ BoundsOK' /\ K!Now' = n
  BY <1>1, <1>2, RestKeeps, RestIs
<1>6. SyncOK'
  BY <1>1, <1>2, <1>3, <1>4, <1>5 DEF SyncOK, Places
<1>7. LotsOK'
  BY <1>2, <1>4, RestIs DEF BookInv, LotsOK
<1>8. NewsOK'
  BY <1>2, <1>4, RestIs DEF BookInv, NewsOK
<1>9. RowsTrue'
  BY <1>2, <1>4, RestIs DEF BookInv, RowsTrue, RowTrue, Base
<1>10. ExposureOK'
  <2>1. DOMAIN exposure' = {}
    BY <1>2
  <2> QED
    BY <1>4, <2>1 DEF ExposureOK
<1> QED
  BY <1>5, <1>6, <1>7, <1>8, <1>9, <1>10 DEF BookInv

LEMMA RollupIs ==
  ASSUME BookInv, K!Rollup
  PROVE  BookInv'
<1>1. PICK n \in Nat : n = K!Now
  BY LogIs DEF BookInv, LogInv
<1>2. /\ sync.pc = "rollup" /\ sync' = K!Idle /\ exposure' = K!Rolled
      /\ UNCHANGED <<log, row, event, cursor, closing, erred, stale, lulls, fulls, faults>>
  BY DEF K!Rollup, K!On, K!Unseen
<1>3. SyncOK' /\ LotsOK' /\ NewsOK' /\ sync'.pc = "idle" /\ Base' = cursor'
  BY <1>2, IdleIs
<1>4. LogInv' /\ RowsOK' /\ EventsOK' /\ BoundsOK' /\ K!Now' = n
  BY <1>1, <1>2, RestKeeps, RestIs
<1>5. RowsTrue'
  BY <1>2, <1>3, RestIs DEF BookInv, RowsTrue, RowTrue, Base
<1>6. /\ DOMAIN exposure' = {t \in DOMAIN row : row[t].state = "open" /\ row[t].units > 0}
      /\ \A t \in DOMAIN exposure' : exposure'[t] = row[t].units
  BY <1>2 DEF K!Rolled, K!OpenRows
<1>7. ExposureOK'
  <2>1. DOMAIN exposure' \subseteq DOMAIN row' /\ \A t \in DOMAIN exposure' : exposure'[t] \in 0..2
    BY <1>2, <1>6 DEF BookInv, RowsOK, LotSet
  <2>2. ASSUME lulls = 0, NEW t \in K!Trades(n), Still(t, cursor)
        PROVE  /\ t \in DOMAIN exposure' <=> K!IsOpen(t, n)
               /\ K!IsOpen(t, n) => exposure'[t] = K!UnitsOf(t, n)
    <3>1. RowTrue(t)
      BY <2>2, <1>1, <1>2 DEF BookInv, RowsTrue, Base
    <3>2. K!UnitsOf(t, n) \in 0..2 /\ (K!IsOpen(t, n) => K!UnitsOf(t, n) # 0)
      BY <2>2, <1>1, UnitsIs DEF BookInv
    <3> QED
      BY <3>1, <3>2, <1>1, <1>6 DEF RowTrue
  <2> QED
    BY <1>1, <1>2, <1>4, <2>1, <2>2, RestIs DEF ExposureOK
<1> QED
  BY <1>3, <1>4, <1>5, <1>7 DEF BookInv

LEMMA FailsIs ==
  ASSUME BookInv, K!Fails
  PROVE  BookInv'
<1>1. /\ sync.pc \in {"details", "history", "stream", "poll", "live", "backfill"}
      /\ faults < MaxFaults["book"] /\ faults' = faults + 1 /\ sync' = K!Idle
      /\ erred' = TRUE /\ stale' = FALSE
      /\ UNCHANGED <<log, row, event, cursor, closing, exposure, lulls, fulls>>
  BY DEF K!Fails, K!Requests
<1>2. SyncOK' /\ LotsOK' /\ NewsOK' /\ sync'.pc = "idle" /\ Base' = cursor'
  BY <1>1, IdleIs
<1>3. LogInv' /\ RowsOK' /\ EventsOK'
  BY <1>1, RestKeeps
<1>4. BoundsOK'
  <2>1. MaxFaults["book"] \in Nat /\ faults \in Nat /\ BoundsOK
    BY ServicesAssumption DEF BookInv, BoundsOK, Failing
  <2>2. faults' \in 0..MaxFaults["book"]
    BY <1>1, <2>1
  <2> QED
    BY <1>1, <2>1, <2>2, RestIs DEF BoundsOK
<1>5. RowsTrue'
  BY <1>1, <1>2, RestIs DEF BookInv, RowsTrue, RowTrue, Base
<1>6. ExposureOK'
  BY <1>1, RestIs DEF BookInv, ExposureOK
<1> QED
  BY <1>2, <1>3, <1>4, <1>5, <1>6 DEF BookInv

\* The row of a trade we closed is written as the account shows it.
LEMMA SaveCloseIs ==
  ASSUME BookInv, K!SaveClose
  PROVE  BookInv'
<1>1. PICK n \in Nat : n = K!Now
  BY LogIs DEF BookInv, LogInv
<1> DEFINE done == [K!Full(closing, n) EXCEPT !.details = {K!LastFill(closing)}, !.reason = "manual_close"]
<1>2. /\ closing # 0 /\ closing' = 0 /\ row' = [row EXCEPT ![closing] = done]
      /\ UNCHANGED <<log, event, cursor, sync, exposure, erred, stale, lulls, fulls, faults>>
  BY <1>1 DEF K!SaveClose
<1>3. LogInv /\ RowsOK /\ BoundsOK /\ SyncOK
  BY DEF BookInv
<1>4. closing \in DOMAIN row /\ closing \in K!Trades(n) /\ ~K!IsOpen(closing, n) /\ ~K!StopFilled(closing)
  BY <1>1, <1>2, <1>3 DEF BoundsOK
<1>5. K!LastFill(closing) \in 1..n
  <2>1. \E i \in K!Closers(closing, n) : log[i].does = "closes"
    BY <1>4 DEF K!IsOpen
  <2>2. K!LastFill(closing) \in K!Closers(closing, n)
    BY <2>1, <1>1 DEF K!LastFill
  <2> QED
    BY <2>2 DEF K!Closers
<1>6. /\ done \in LotSet(n) /\ done.state = "closed" /\ done.reason = "manual_close"
      /\ done.units = K!UnitsOf(closing, n)
  <2>1. K!Full(closing, n) \in LotSet(n) /\ ShownAt(K!Full(closing, n), closing, n)
    BY <1>1, <1>3, <1>4, FullIs
  <2> QED
    BY <2>1, <1>4, <1>5 DEF LotSet, ShownAt, Reasons
<1> HIDE DEF done
<1>7. LogInv' /\ EventsOK' /\ K!Now' = n
  BY <1>1, <1>2, RestKeeps, RestIs
<1>8. /\ DOMAIN row' = DOMAIN row /\ row'[closing] = done
      /\ \A t \in DOMAIN row : t # closing => row'[t] = row[t]
  BY <1>2, <1>4
<1>9. RowsOK'
  <2>1. ASSUME NEW t \in DOMAIN row'
        PROVE  /\ t \in 1..n /\ row'[t] \in LotSet(n)
               /\ row'[t].state = "cancelled" => t \notin K!Trades(n)
               /\ row'[t].reason = "stop_loss" => t \in K!Trades(n) /\ K!StopFilled(t)
    BY <2>1, <1>1, <1>3, <1>6, <1>8 DEF RowsOK
  <2> QED
    BY <1>2, <1>7, <2>1, RestIs DEF RowsOK
<1>10. BoundsOK'
  <2>1. closing' \in 0..K!Now'
    BY <1>2, <1>7
  <2> QED
    BY <1>1, <1>2, <1>3, <1>7, <2>1, RestIs DEF BoundsOK
<1>11. SyncOK'
  BY <1>2, <1>3, RestIs DEF SyncOK
<1>12. LotsOK'
  BY <1>2, RestIs DEF BookInv, LotsOK
<1>13. NewsOK'
  BY <1>2, RestIs DEF BookInv, NewsOK
<1>14. RowsTrue'
  <2>1. SUFFICES ASSUME lulls = 0, ~(sync.pc = "enrich" /\ sync.all),
                        NEW t \in K!Trades(n), Still(t, Base)
                 PROVE  RowTrue(t)'
    BY <1>1, <1>2, <1>7, RestIs DEF RowsTrue, Base
  <2>2. CASE t # closing
    <3>1. RowTrue(t)
      BY <2>1, <1>1 DEF BookInv, RowsTrue
    <3> QED
      BY <2>2, <3>1, <1>2, <1>8, RestIs DEF RowTrue
  <2>3. CASE t = closing
    BY <2>3, <1>1, <1>2, <1>4, <1>6, <1>7, <1>8, RestIs DEF RowTrue
  <2> QED
    BY <2>2, <2>3
<1>15. ExposureOK'
  BY <1>2, <1>8, RestIs DEF BookInv, ExposureOK
<1> QED
  BY <1>7, <1>9, <1>10, <1>11, <1>12, <1>13, <1>14, <1>15 DEF BookInv

LEMMA CloseTradeIs ==
  ASSUME BookInv, K!CloseTrade
  PROVE  BookInv'
<1>1. PICK t \in K!OpenRows \cap K!Opened(K!Now) : K!Closes(t) /\ closing' = t
  BY DEF K!CloseTrade
<1>2. LogInv' /\ Grows /\ t \in K!Trades(K!Now)' /\ ~K!IsOpen(t, K!Now)' /\ ~K!StopFilled(t)'
  BY <1>1, ClosesIs DEF BookInv
<1>3. /\ closing' \in DOMAIN row /\ closing' \in K!Trades(K!Now)'
      /\ ~K!IsOpen(closing, K!Now)' /\ ~K!StopFilled(closing)'
  BY <1>1, <1>2 DEF K!OpenRows, K!IsOpen, K!Closers, K!StopFilled, K!StopAt, K!StopId
<1>4. UNCHANGED <<row, event, cursor, sync, exposure, erred, stale, lulls, fulls, faults>>
  BY DEF K!CloseTrade
<1> QED
  BY <1>2, <1>3, <1>4, GrownBook

LEMMA MarketIs ==
  ASSUME BookInv, K!Market
  PROVE  BookInv'
<1>1. UNCHANGED <<row, event, cursor, sync, closing, exposure, erred, stale, lulls, fulls, faults>>
  BY DEF K!Market
<1>2. LogInv' /\ Grows
  <2>1. CASE K!Opens
    BY <2>1, OpensIs DEF BookInv
  <2>2. ASSUME NEW t \in K!Opened(K!Now), K!Cuts(t) \/ K!Closes(t) \/ K!StopsOut(t)
        PROVE  LogInv' /\ Grows
    BY <2>2, CutsIs, ClosesIs, StopsOutIs DEF BookInv
  <2>3. CASE K!Financing
    BY <2>3, FinancingIs DEF BookInv
  <2> QED
    BY <2>1, <2>2, <2>3 DEF K!Market
<1> QED
  BY <1>1, <1>2, GrownBook

LEMMA BookStep ==
  ASSUME BookInv, [K!Next]_K!vars
  PROVE  BookInv'
<1>1. CASE K!Sync
  BY <1>1, StartIs, ReadDetailsIs, ReadHistoryIs, StreamIs, PollIs, FetchLiveIs, WriteLotsIs,
     WriteEventsIs, RefusedIs, EnrichIs, CloseDriftedIs, MarkCancelledIs, CommitIs, BackfillIs,
     ClearExposureIs, RollupIs, FailsIs DEF K!Sync
<1>2. CASE K!Market \/ K!Lull \/ K!CloseTrade \/ K!SaveClose
  BY <1>2, MarketIs, LullIs, CloseTradeIs, SaveCloseIs
<1>3. CASE UNCHANGED K!vars
  BY <1>3, StutterIs
<1> QED
  BY <1>1, <1>2, <1>3 DEF K!Next

\* An account without a trade, and at most the row of an order that opened none.
LEMMA BookInit ==
  ASSUME K!Init
  PROVE  BookInv
<1>1. /\ log \in Seq(BookTxns) /\ K!Now \in 0..2
      /\ \A i \in 1..K!Now : /\ log[i].order <= K!Now /\ log[i].trade <= K!Now /\ log[i].batch <= K!Now
                             /\ log[i].does = "none"
      /\ DOMAIN row \subseteq 1..K!Now /\ \A t \in DOMAIN row : row[t] = K!StrayRow
  <2>1. CASE log = <<>> /\ row = <<>>
    <3>1. K!Now = 0 /\ DOMAIN row = {}
      BY <2>1 DEF K!Now
    <3> QED
      BY <2>1, <3>1
  <2>2. CASE log \in K!StrayLogs /\ row = [t \in {1} |-> K!StrayRow]
    <3> DEFINE order == K!Txn("MARKET_ORDER", 0, 0, "none", 1)
               cancel == K!Txn("ORDER_CANCEL", 1, 0, "none", 1)
               reject == K!Txn("MARKET_ORDER_REJECT", 0, 0, "none", 1)
    <3>1. /\ {order, cancel, reject} \subseteq BookTxns
          /\ \A x \in {order, cancel, reject} :
               x.order <= 1 /\ x.trade = 0 /\ x.batch = 1 /\ x.does = "none"
      BY DEF K!Txn, BookTxns
    <3>2. log = <<order, cancel>> \/ log = <<reject>>
      BY <2>2 DEF K!StrayLogs
    <3> HIDE DEF order, cancel, reject
    <3>3. log \in Seq(BookTxns) /\ K!Now \in 1..2 /\ \A i \in 1..K!Now : log[i] \in {order, cancel, reject}
      <4>1. CASE log = <<order, cancel>>
        BY <4>1, <3>1 DEF K!Now
      <4>2. CASE log = <<reject>>
        BY <4>2, <3>1 DEF K!Now
      <4> QED
        BY <3>2, <4>1, <4>2
    <3>4. DOMAIN row = {1} /\ row[1] = K!StrayRow
      BY <2>2
    <3>5. PICK n \in 1..2 : n = K!Now
      BY <3>3
    <3>6. ASSUME NEW i \in 1..n
          PROVE  log[i].order <= n /\ log[i].trade <= n /\ log[i].batch <= n /\ log[i].does = "none"
      <4>1. log[i] \in BookTxns
        BY <3>1, <3>3, <3>5
      <4>2. log[i].order <= 1 /\ log[i].trade = 0 /\ log[i].batch = 1 /\ log[i].does = "none"
        BY <3>1, <3>3, <3>5
      <4> QED
        BY <4>1, <4>2, <3>5 DEF BookTxns
    <3> QED
      BY <3>3, <3>4, <3>5, <3>6
  <2> QED
    BY <2>1, <2>2 DEF K!Init
<1>2. K!Trades(K!Now) = {} /\ \A t : K!Closers(t, K!Now) = {}
  BY <1>1 DEF K!Trades, K!Closers
<1>3. /\ cursor \in 0..K!Now /\ event = [i \in 1..cursor |-> K!Expiring(K!Linked(i), FALSE)]
      /\ sync = K!Idle /\ closing = 0 /\ exposure = <<>> /\ erred = FALSE /\ stale = FALSE
      /\ lulls = 0 /\ fulls = 0 /\ faults = 0
  BY <1>1 DEF K!Init, K!Now
<1>4. LogInv
  BY <1>1, <1>2 DEF LogInv
<1>5. RowsOK
  <2>1. K!StrayRow \in LotSet(K!Now) /\ K!StrayRow.state = "open" /\ K!StrayRow.reason = "none"
    BY DEF K!StrayRow, LotSet, K!NoStop, StopSet, Ends, Reasons
  <2> QED
    BY <1>1, <2>1 DEF RowsOK
<1>6. EventsOK
  <2>1. DOMAIN event = 1..cursor
          /\ \A i \in 1..cursor : event[i] = K!Expiring(K!Linked(i), FALSE)
    BY <1>3
  <2>2. \A i : LinksOK(K!Expiring(K!Linked(i), FALSE), i) /\ K!Expiring(K!Linked(i), FALSE).expires = FALSE
    BY DEF LinksOK, K!Expiring, K!Linked
  <2>3. 1..cursor \subseteq 1..K!Now
    BY <1>1, <1>3
  <2> QED
    BY <2>1, <2>2, <2>3 DEF EventsOK
<1>7. BoundsOK
  <2>1. MaxFaults["book"] \in Nat /\ MaxLulls \in Nat /\ MaxFulls \in Nat
    BY ServicesAssumption DEF Failing
  <2>2. erred \in BOOLEAN /\ stale \in BOOLEAN /\ ~stale
    BY <1>3
  <2>3. lulls \in 0..MaxLulls /\ fulls \in 0..MaxFulls /\ faults \in 0..MaxFaults["book"]
    BY <1>3, <2>1
  <2>4. closing = 0 /\ closing \in 0..K!Now
    BY <1>1, <1>3
  <2> QED
    BY <1>3, <2>2, <2>3, <2>4 DEF BoundsOK
<1>8. SyncOK
  BY <1>1, <1>3 DEF SyncOK, Places, K!Idle
<1>9. LotsOK /\ NewsOK
  <2>1. sync.pc = "idle" /\ DOMAIN sync.lots = {} /\ DOMAIN sync.events = {} /\ sync.live = {}
    BY <1>3 DEF K!Idle
  <2> QED
    BY <2>1 DEF LotsOK, NewsOK
<1>10. RowsTrue
  BY <1>2 DEF RowsTrue
<1>11. ExposureOK
  <2>1. DOMAIN exposure = {}
    BY <1>3
  <2> QED
    BY <1>2, <2>1 DEF ExposureOK
<1> QED
  BY <1>4, <1>5, <1>6, <1>7, <1>8, <1>9, <1>10, <1>11 DEF BookInv

\* A ledger that has caught up with the account.
LEMMA SettledRow ==
  ASSUME BookInv, K!Settled, NEW t \in K!Trades(K!Now)
  PROVE  RowTrue(t) /\ Still(t, cursor)
<1>1. sync.pc = "idle" /\ cursor = K!Now /\ lulls = 0
  BY DEF K!Settled, K!On
<1>2. Still(t, cursor)
  BY <1>1 DEF Still, K!Closers, K!Trades
<1> QED
  BY <1>1, <1>2 DEF BookInv, RowsTrue, Base

LEMMA BookHolds ==
  ASSUME BookInv
  PROVE  K!TypeOK /\ K!ReasonTrue /\ K!BookBalanced
<1>1. PICK n \in Nat : n = K!Now
  BY LogIs DEF BookInv, LogInv
<1>2. LogInv /\ RowsOK /\ EventsOK /\ BoundsOK /\ ExposureOK
  BY DEF BookInv
<1>3. K!TypeOK
  <2>1. ASSUME NEW t \in DOMAIN row PROVE K!PositionLot(row[t])
    BY <1>2 DEF RowsOK, LotSet, K!PositionLot
  <2>2. ASSUME NEW i \in DOMAIN event PROVE K!BrokerEvent(event[i])
    <3>1. i \in 1..n /\ LinksOK(event[i], i) /\ event[i].expires \in BOOLEAN
      BY <1>1, <1>2 DEF EventsOK
    <3>2. /\ log[i].order \in 0..n /\ log[i].trade \in 0..n /\ log[i].batch \in 0..n
      BY <1>1, <1>2, <3>1, LogIs DEF LogInv, BookTxns
    <3> QED
      BY <1>1, <3>1, <3>2 DEF LinksOK, K!BrokerEvent
  <2> QED
    BY <1>2, <2>1, <2>2 DEF RowsOK, EventsOK, BoundsOK, ExposureOK, K!TypeOK, K!InstrumentExposure
<1>4. K!ReasonTrue
  <2>1. \A t \in K!StopOuts : K!StopFilled(t)
    BY <1>2 DEF RowsOK, K!StopOuts
  <2>2. \A t \in DOMAIN row : row[t].state = "cancelled" => t \notin K!Trades(K!Now)
    BY <1>2 DEF RowsOK
  <2>3. ASSUME K!Settled, NEW t \in DOMAIN row \cap K!Trades(K!Now), K!StopFilled(t)
        PROVE  t \in K!StopOuts /\ row[t].stop.is = "FILLED"
    <3>1. RowTrue(t)
      BY <2>3, SettledRow
    <3>2. ~K!IsOpen(t, K!Now)
      BY <2>3, <1>1, <1>2, FilledIs DEF K!StopFilled
    <3> QED
      BY <2>3, <3>1, <3>2 DEF RowTrue, K!StopOuts
  <2> QED
    BY <2>1, <2>2, <2>3 DEF K!ReasonTrue
<1>5. K!BookBalanced
  <2>1. K!On("idle") => 1..cursor \subseteq DOMAIN event
    BY <1>2 DEF EventsOK
  <2>2. ASSUME K!Settled, NEW t \in K!Trades(K!Now)
        PROVE  /\ t \in DOMAIN row
               /\ row[t].state = K!Full(t, K!Now).state /\ row[t].units = K!UnitsOf(t, K!Now)
               /\ ~K!IsOpen(t, K!Now) /\ ~K!Own(t) => row[t].details = K!Closers(t, K!Now)
    <3>1. RowTrue(t)
      BY <2>2, SettledRow
    <3>2. K!Full(t, K!Now).state = IF K!IsOpen(t, K!Now) THEN "open" ELSE "closed"
      BY DEF K!Full
    <3> QED
      BY <3>1, <3>2 DEF RowTrue, K!Own
  <2>3. ASSUME K!Settled, ~erred
        PROVE  K!Restrict(exposure, DOMAIN exposure \cap K!Trades(K!Now))
                 = [t \in K!Opened(K!Now) |-> K!UnitsOf(t, K!Now)]
    <3>1. sync.pc = "idle" /\ lulls = 0
      BY <2>3 DEF K!Settled, K!On
    <3>2. ASSUME NEW t \in K!Trades(K!Now)
          PROVE  /\ t \in DOMAIN exposure <=> K!IsOpen(t, K!Now)
                 /\ K!IsOpen(t, K!Now) => exposure[t] = K!UnitsOf(t, K!Now)
      BY <2>3, <3>1, <1>2, SettledRow DEF ExposureOK
    <3>3. DOMAIN exposure \cap K!Trades(K!Now) = K!Opened(K!Now)
      BY <3>2 DEF K!Opened
    <3>4. \A t \in K!Opened(K!Now) : exposure[t] = K!UnitsOf(t, K!Now)
      BY <3>2 DEF K!Opened
    <3> QED
      BY <3>3, <3>4 DEF K!Restrict
  <2> QED
    BY <2>1, <2>2, <2>3 DEF K!BookBalanced
<1> QED
  BY <1>3, <1>4, <1>5

\* Whatever the account does, whenever its answers are of, whatever fails: only a
\* trade whose stop has filled is taken for a stop-out, no event below the cursor
\* is missing, and a ledger that has caught up has the broker's rows, closes and
\* exposures (sync.py run_broker_sync, close_reason.py, child_orders.py).
THEOREM BookKept == Spec => []BookTrue
<1> DEFINE Inv == part = "book" => BookInv
<1>1. Init => Inv
  BY BookInit DEF Init
<1>2. Inv /\ [Next]_all => Inv'
  BY RecordStep, BookStep
<1>3. Inv => BookTrue
  BY BookHolds DEF BookTrue
<1> QED
  BY <1>1, <1>2, <1>3, PTL DEF Spec

-----------------------------------------------------------------------------
(* The parts of Records, and those of Services.                            *)

\* A step is a step of the part that runs.
LEMMA PartStep ==
  ASSUME [AllNext]_<<all, others>>
  PROVE  /\ part' = part
         /\ part = "report" => [D!Next]_D!vars
         /\ part = "backup" => [B!Next]_B!vars
<1>1. CASE UNCHANGED <<all, others>>
  BY <1>1 DEF all, others, backupVars, reportVars, researchVars, D!vars, B!vars
<1>2. CASE AllNext
  BY <1>2 DEF AllNext, ConfigBackupStep, DailyReportStep, Next, AccountStep, ResearchStep,
       SimulationStep, StrategiesStep, SourcesStep, FeedbackStep, BrokerBookStep,
       AnalysisRunsStep, UpdaterStep, OandaClientStep
<1> QED
  BY <1>1, <1>2

LEMMA PartInit ==
  ASSUME AllInit
  PROVE  /\ part = "report" => D!Init
         /\ part = "backup" => B!Init
BY DEF AllInit, Init

\* Whatever is proved of Services holds of its parts here: they take the same steps.
THEOREM PartsKept == AllSpec /\ part \notin {"backup", "report"} => Spec
<1> DEFINE Ours == part \in {"backup", "report"}
<1>1. AllInit /\ ~Ours => Init
  BY DEF AllInit
<1>2. ~Ours /\ [AllNext]_<<all, others>> => ~Ours' /\ [Next]_all
  <2> SUFFICES ASSUME ~Ours, [AllNext]_<<all, others>> PROVE ~Ours' /\ [Next]_all
    OBVIOUS
  <2>1. part' = part
    BY PartStep
  <2>2. [Next]_all
    BY DEF AllNext, ConfigBackupStep, DailyReportStep, all, others
  <2> QED
    BY <2>1, <2>2
<1>3. part \notin {"backup", "report"} => ~Ours
  OBVIOUS
<1> HIDE DEF Ours
<1> QED
  BY <1>1, <1>2, <1>3, PTL DEF AllSpec, Spec

-----------------------------------------------------------------------------
(* DailyReport                                                             *)

LEMMA CountIs == \A set : D!Cardinality(set) = Cardinality(set)
BY DEF D!Cardinality, Cardinality

\* What the sources of a group have answered: lists of articles.
Answered(lists) == \E n \in Nat : /\ DOMAIN lists = 1..n
                                 /\ \A i \in 1..n : \E k \in Nat : DOMAIN lists[i] = 1..k

LEMMA PlacesAre ==
  ASSUME NEW lists, Answered(lists)
  PROVE  IsFiniteSet(D!Places(lists)) /\ D!Places(lists) \subseteq Nat \X Nat
<1> DEFINE f == [i \in DOMAIN lists |-> {i} \X DOMAIN lists[i]]
           all0 == {{i} \X DOMAIN lists[i] : i \in DOMAIN lists}
<1>1. f \in Surjection(DOMAIN lists, all0)
  BY DEF Surjection
<1>2. IsFiniteSet(DOMAIN lists)
  BY FS_Interval DEF Answered
<1>3. IsFiniteSet(all0)
  BY <1>1, <1>2, FS_Surjection
<1>4. \A i \in DOMAIN lists : IsFiniteSet({i} \X DOMAIN lists[i])
  <2> TAKE i \in DOMAIN lists
  <2>1. IsFiniteSet({i}) /\ IsFiniteSet(DOMAIN lists[i])
    <3>1. PICK n \in Nat : DOMAIN lists[i] = 1..n
      BY DEF Answered
    <3>2. IsFiniteSet(1..n)
      BY FS_Interval
    <3>3. IsFiniteSet({i})
      BY FS_Singleton, Zenon
    <3> QED
      BY <3>1, <3>2, <3>3
  <2>2. \A one, other : IsFiniteSet(one) /\ IsFiniteSet(other) => IsFiniteSet(one \X other)
    BY FS_Product
  <2> QED
    BY <2>1, <2>2, Zenon
<1>5. IsFiniteSet(UNION all0)
  BY <1>3, <1>4, FS_UNION
<1>6. \A p \in D!Places(lists) : p \in Nat \X Nat
  BY DEF D!Places, Answered
<1> QED
  BY <1>5, <1>6 DEF D!Places

\* The last of some places.
LEMMA LastPlace ==
  ASSUME NEW set, set \subseteq Nat \X Nat, IsFiniteSet(set), set # {}
  PROVE  \E m \in set : \A x \in set : x = m \/ D!Before(x, m)
<1> DEFINE above(x) == {y \in set : D!Before(x, y)}
           sets == {above(x) : x \in set}
<1>1. sets \subseteq FiniteSubsetsOf(set) /\ sets # {}
  <2>1. \A x : above(x) \subseteq set /\ IsFiniteSet(above(x))
    BY FS_Subset
  <2> QED
    BY <2>1 DEF FiniteSubsetsOf
<1>2. PICK u \in sets : \A v \in sets : <<v, u>> \notin StrictSubsetOrdering(set)
  <2> HIDE DEF sets
  <2> QED
    BY <1>1, FS_StrictSubsetOrderingWellFounded, WFMin
<1>3. PICK x \in set : u = above(x)
  BY <1>2
<1>4. ASSUME NEW y \in set, D!Before(x, y) PROVE FALSE
  <2>1. <<above(y), above(x)>> \notin StrictSubsetOrdering(set)
    BY <1>2, <1>3
  <2>2. ~ (above(y) \subseteq above(x) /\ above(y) # above(x))
    BY <2>1 DEF StrictSubsetOrdering
  <2>3. y \in above(x) /\ y \notin above(y)
    BY <1>4 DEF D!Before
  <2>4. ASSUME NEW z \in above(y) PROVE z \in above(x)
    <3>1. z \in set /\ D!Before(y, z) /\ z \in Nat \X Nat /\ y \in Nat \X Nat /\ x \in Nat \X Nat
      BY <2>4
    <3> QED
      BY <1>4, <3>1 DEF D!Before
  <2> HIDE DEF above
  <2> QED
    BY <2>2, <2>3, <2>4
<1>5. \A y \in set : y = x \/ D!Before(y, x)
  <2> TAKE y \in set
  <2>1. y \in Nat \X Nat /\ x \in Nat \X Nat
    OBVIOUS
  <2> QED
    BY <1>4, <2>1 DEF D!Before
<1> QED
  BY <1>5

\* What a merge promises.
KeptOK(kept, lists) ==
  /\ \A p, q \in kept :
       D!At(lists, p).url = D!At(lists, q).url /\ D!At(lists, p).url # D!None => p = q
  /\ \/ Cardinality(kept) = NewsLimit
     \/ \A p \in D!Places(lists) : \E q \in kept :
          IF D!At(lists, p).url = D!None THEN D!At(lists, q).title = D!At(lists, p).title
          ELSE D!At(lists, q).url = D!At(lists, p).url

LEMMA MergeKeeps ==
  ASSUME NEW lists, Answered(lists), NEW kept, kept \subseteq D!Places(lists),
         D!IsMerged(kept, lists)
  PROVE  KeptOK(kept, lists)
<1>1. IsFiniteSet(kept) /\ kept \subseteq Nat \X Nat
  BY PlacesAre, FS_Subset
<1>2. \A p \in kept : /\ Cardinality(D!Earlier(kept, p)) < NewsLimit
                     /\ \A q \in D!Earlier(kept, p) : ~D!Same(D!At(lists, q), D!At(lists, p))
  BY CountIs DEF D!IsMerged
<1>3. ASSUME NEW p \in kept, NEW q \in kept,
             D!At(lists, p).url = D!At(lists, q).url, D!At(lists, p).url # D!None
      PROVE  p = q
  <2>1. p \in Nat \X Nat /\ q \in Nat \X Nat
    BY <1>1
  <2>2. p = q \/ D!Before(p, q) \/ D!Before(q, p)
    BY <2>1 DEF D!Before
  <2>3. ~D!Before(p, q)
    BY <1>2, <1>3 DEF D!Earlier, D!Same
  <2>4. ~D!Before(q, p)
    BY <1>2, <1>3 DEF D!Earlier, D!Same
  <2> QED
    BY <2>2, <2>3, <2>4
<1>4. Cardinality(kept) \in Nat /\ Cardinality(kept) <= NewsLimit
  <2>1. CASE kept = {}
    BY <2>1, FS_EmptySet, ReportAssumption
  <2>2. CASE kept # {}
    <3>1. PICK m \in kept : \A x \in kept : x = m \/ D!Before(x, m)
      BY <1>1, <2>2, LastPlace
    <3>2. m \in Nat \X Nat
      BY <1>1
    <3>3. D!Earlier(kept, m) = kept \ {m}
      BY <3>1, <3>2 DEF D!Earlier, D!Before
    <3>4. Cardinality(kept \ {m}) < NewsLimit
      BY <1>2, <3>3
    <3>5. Cardinality(kept \ {m}) = Cardinality(kept) - 1 /\ Cardinality(kept) \in Nat
      BY <1>1, FS_RemoveElement, FS_CardinalityType
    <3> QED
      BY <3>4, <3>5, ReportAssumption
  <2> QED
    BY <2>1, <2>2
<1>5. ASSUME Cardinality(kept) # NewsLimit, NEW p \in D!Places(lists)
      PROVE  \E q \in kept :
               IF D!At(lists, p).url = D!None THEN D!At(lists, q).title = D!At(lists, p).title
               ELSE D!At(lists, q).url = D!At(lists, p).url
  <2>1. CASE p \in kept
    BY <2>1
  <2>2. CASE p \notin kept
    <3>1. Cardinality(D!Earlier(kept, p)) \in Nat /\ Cardinality(D!Earlier(kept, p)) <= Cardinality(kept)
      <4>1. D!Earlier(kept, p) \in SUBSET kept
        BY DEF D!Earlier
      <4> QED
        BY <1>1, <4>1, FS_Subset, FS_CardinalityType
    <3>2. Cardinality(D!Earlier(kept, p)) < NewsLimit
      BY <1>4, <1>5, <3>1, ReportAssumption
    <3>3. PICK q \in D!Earlier(kept, p) : D!Same(D!At(lists, q), D!At(lists, p))
      BY <2>2, <3>2, CountIs DEF D!IsMerged
    <3> QED
      BY <3>3 DEF D!Earlier, D!Same
  <2> QED
    BY <2>1, <2>2
<1> QED
  BY <1>3, <1>5 DEF KeptOK

\* A call to a source or a model.
ReportCall == [st : {"wait", "sent", "ok", "failed"}, posts : 0..(Retries + Queries), effort : BOOLEAN]

\* A contributor's analysis of a group with news, or an error.
Told(m, g) ==
  /\ g \in sections[m] \/ <<m, g>> \in errors
  /\ g \in sections[m] => articles[g] # {}

EarlyOK ==
  /\ stage \in {"begin", "feeds"} => DOMAIN call = {} /\ DOMAIN articles = {}
  /\ stage \in {"begin", "feeds", "search"} => turn = 1
  /\ stage \notin {"begin", "skipped"} => ~D!Unmerged(plan) /\ plan.models # <<>>

\* The news of a group are those of its sources, all of which have answered.
SearchOK ==
  stage = "search" =>
    /\ DOMAIN call = D!Targets(plan) \X D!SourceSet /\ DOMAIN found = DOMAIN call
    /\ \A c \in DOMAIN found : found[c] \in Answers \cup {<<>>}
    /\ \A g \in DOMAIN articles :
         /\ g \in D!Targets(plan)
         /\ articles[g] \subseteq D!Places(D!Answered(g)) /\ D!IsMerged(articles[g], D!Answered(g))
         /\ \A c \in D!Of(g) : D!Over(c)

\* One contributor is at work, on groups with news; those before it are done.
AnalysisOK ==
  stage = "analysis" =>
    /\ DOMAIN articles = D!Targets(plan)
    /\ DOMAIN call = IF turn <= Len(plan.models) THEN D!Targets(plan) \X {plan.models[turn]} ELSE {}
    /\ \A c \in DOMAIN call : call[c].st \in {"sent", "ok"} => articles[c[1]] # {}
    /\ \A i \in DOMAIN plan.models : i < turn => \A g \in D!Targets(plan) : Told(plan.models[i], g)

\* All have been told of; a merge is asked for once, if there is something to merge.
TailOK ==
  stage \in {"merge", "save"} =>
    /\ \A i \in DOMAIN plan.models : \A g \in D!Targets(plan) : Told(plan.models[i], g)
    /\ D!Written # {}
    /\ DOMAIN call = IF D!Merged THEN {<<"all", plan.synthesis>>} ELSE {}
    /\ stage = "merge" => D!Merged
    /\ stage = "save" =>
         \A c \in DOMAIN call : D!Over(c) /\ (call[c].st = "failed" => <<c[2], "all">> \in errors)

ReportInv ==
  /\ D!TypeOK /\ plan \in D!Plans /\ call \in [DOMAIN call -> ReportCall]
  /\ EarlyOK /\ SearchOK /\ AnalysisOK /\ TailOK /\ D!Accounted

LEMMA AnsweredIs ==
  ASSUME SearchOK, stage = "search", NEW g \in D!Targets(plan)
  PROVE  Answered(D!Answered(g))
<1>1. Order \in Seq({"newsapi", "rss", "web", "x"}) /\ DOMAIN Order = 1..Len(Order) /\ Len(Order) \in Nat
  BY ReportAssumption
<1>2. ASSUME NEW i \in DOMAIN Order
      PROVE  \E k \in Nat : DOMAIN D!Answered(g)[i] = 1..k
  <2>1. <<g, Order[i]>> \in DOMAIN found
    BY DEF SearchOK, D!SourceSet, D!Members
  <2>2. found[<<g, Order[i]>>] \in Answers \cup {<<>>}
    BY <2>1 DEF SearchOK
  <2>3. \A as \in Answers : Len(as) \in Nat /\ DOMAIN as = 1..Len(as)
    <3> TAKE as \in Answers
    <3> DEFINE members == {as[j] : j \in DOMAIN as}
    <3>1. as \in Seq(members)
      BY ReportAssumption
    <3>2. \A set : \A q \in Seq(set) : Len(q) \in Nat /\ DOMAIN q = 1..Len(q)
      OBVIOUS
    <3> QED
      BY <3>1, <3>2, Zenon
  <2>4. DOMAIN <<>> = 1..0
    OBVIOUS
  <2> QED
    BY <2>2, <2>3, <2>4 DEF D!Answered
<1> QED
  BY <1>1, <1>2 DEF Answered, D!Answered

LEMMA NewsHold ==
  ASSUME ReportInv
  PROVE  D!NewsKept
<1> SUFFICES ASSUME stage = "search", NEW g \in DOMAIN articles
             PROVE  KeptOK(articles[g], D!Answered(g))
  BY CountIs DEF D!NewsKept, KeptOK
<1> QED
  BY AnsweredIs, MergeKeeps DEF ReportInv, SearchOK

\* An answer to a call, or its end.
LEMMA CallStep ==
  ASSUME ReportInv, NEW c \in DOMAIN call, call[c].st = "sent", NEW r \in ReportCall,
         r.st # "wait", call' = [call EXCEPT ![c] = r],
         found' = found \/ (stage = "search" /\ \E as \in Answers : found' = [found EXCEPT ![c] = as]),
         faults' \in 0..MaxFaults["report"], D!Unchanged
  PROVE  ReportInv'
<1>1. /\ UNCHANGED <<plan, stage, feeds, articles, turn, sections, errors, files, report>>
      /\ DOMAIN call' = DOMAIN call /\ call'[c] = r /\ \A d \in DOMAIN call : d # c => call'[d] = call[d]
      /\ call' \in [DOMAIN call' -> ReportCall]
  BY DEF D!Unchanged, ReportInv
<1>2. D!TypeOK'
  BY <1>1 DEF ReportInv, D!TypeOK, ReportCall
<1>3. EarlyOK' /\ plan' \in D!Plans /\ D!Accounted'
  BY <1>1 DEF ReportInv, EarlyOK, D!Plans, D!Accounted, D!Targets, D!Unmerged
<1>4. SearchOK'
  <2> SUFFICES ASSUME stage = "search" PROVE SearchOK'
    BY <1>1 DEF SearchOK
  <2>1. /\ DOMAIN found' = DOMAIN found /\ \A d \in DOMAIN found : d # c => found'[d] = found[d]
        /\ \A d \in DOMAIN found : found'[d] \in Answers \cup {<<>>}
    BY DEF ReportInv, SearchOK
  <2>2. ASSUME NEW g \in DOMAIN articles
        PROVE  /\ g \in D!Targets(plan)
               /\ articles[g] \subseteq D!Places(D!Answered(g)')
               /\ D!IsMerged(articles[g], D!Answered(g)') /\ \A d \in D!Of(g)' : D!Over(d)'
    <3>1. /\ g \in D!Targets(plan)
          /\ articles[g] \subseteq D!Places(D!Answered(g))
          /\ D!IsMerged(articles[g], D!Answered(g)) /\ \A d \in D!Of(g) : D!Over(d)
      BY DEF ReportInv, SearchOK
    <3>2. c \notin D!Of(g)
      BY <3>1 DEF D!Over
    <3>3. D!Of(g)' = D!Of(g) /\ \A d \in D!Of(g) : D!Over(d)'
      BY <1>1, <3>1, <3>2 DEF D!Of, D!Over
    <3>4. \A i \in DOMAIN Order : <<g, Order[i]>> \in DOMAIN found /\ <<g, Order[i]>> # c
      BY <3>1, <3>2 DEF ReportInv, SearchOK, D!SourceSet, D!Members, D!Of
    <3>5. D!Answered(g)' = D!Answered(g)
      BY <2>1, <3>4 DEF D!Answered
    <3> QED
      BY <3>1, <3>3, <3>5
  <2> QED
    BY <1>1, <2>1, <2>2 DEF ReportInv, SearchOK, D!Targets, D!Places, D!IsMerged
<1>5. AnalysisOK'
  BY <1>1 DEF ReportInv, AnalysisOK, Told, D!Targets
<1>6. TailOK'
  BY <1>1 DEF ReportInv, TailOK, Told, D!Targets, D!Written, D!Merged, D!Redone, D!Over
<1> QED
  BY <1>1, <1>2, <1>3, <1>4, <1>5, <1>6 DEF ReportInv

LEMMA FindsIs ==
  ASSUME ReportInv, NEW c \in DOMAIN call, NEW as \in Answers, D!Finds(c, as)
  PROVE  ReportInv'
<1>1. call[c] \in ReportCall /\ Queries \in Nat /\ Retries \in Nat
  BY ReportAssumption DEF ReportInv
<1>2. faults' \in 0..MaxFaults["report"] /\ D!Unchanged /\ call[c].st = "sent" /\ stage = "search"
  BY DEF ReportInv, D!TypeOK, D!Finds
<1>3. CASE D!Again(c) /\ UNCHANGED found /\ call[c].posts + 1 < Queries
  <2> DEFINE r == [call[c] EXCEPT !.posts = @ + 1]
  <2>1. r \in ReportCall /\ r.st = "sent" /\ call' = [call EXCEPT ![c] = r]
    BY <1>1, <1>2, <1>3 DEF ReportCall, D!Again
  <2> HIDE DEF r
  <2> QED
    BY <1>2, <1>3, <2>1, CallStep
<1>4. CASE D!Ends(c, "ok") /\ found' = [found EXCEPT ![c] = as]
  <2> DEFINE r == [call[c] EXCEPT !.st = "ok"]
  <2>1. r \in ReportCall /\ r.st = "ok" /\ call' = [call EXCEPT ![c] = r]
    BY <1>1, <1>4 DEF ReportCall, D!Ends
  <2> HIDE DEF r
  <2> QED
    BY <1>2, <1>4, <2>1, CallStep
<1> QED
  BY <1>3, <1>4 DEF D!Finds

LEMMA WritesIs ==
  ASSUME ReportInv, NEW c \in DOMAIN call, D!Writes(c)
  PROVE  ReportInv'
<1> DEFINE r == [call[c] EXCEPT !.st = "ok"]
<1>1. call[c] \in ReportCall
  BY DEF ReportInv
<1>2. r \in ReportCall /\ r.st = "ok" /\ call' = [call EXCEPT ![c] = r]
  BY <1>1 DEF ReportCall, D!Ends, D!Writes
<1>3. faults' \in 0..MaxFaults["report"] /\ D!Unchanged /\ call[c].st = "sent" /\ found' = found
  BY DEF ReportInv, D!TypeOK, D!Writes
<1> HIDE DEF r
<1> QED
  BY <1>2, <1>3, CallStep

LEMMA FaultyIs ==
  ASSUME ReportInv, NEW c \in DOMAIN call, D!Limited(c) \/ D!Refused(c) \/ D!Fails(c)
  PROVE  ReportInv'
<1>1. call[c] \in ReportCall /\ Queries \in Nat /\ Retries \in Nat /\ MaxFaults["report"] \in Nat
  BY ReportAssumption DEF ReportInv
<1>2. faults' \in 0..MaxFaults["report"] /\ D!Unchanged /\ call[c].st = "sent" /\ found' = found
  BY <1>1 DEF ReportInv, D!TypeOK, D!Limited, D!Refused, D!Fails, D!Faulty
<1>3. ASSUME D!Ends(c, "failed") PROVE ReportInv'
  <2> DEFINE r == [call[c] EXCEPT !.st = "failed"]
  <2>1. r \in ReportCall /\ r.st = "failed" /\ call' = [call EXCEPT ![c] = r]
    BY <1>1, <1>3 DEF ReportCall, D!Ends
  <2> HIDE DEF r
  <2> QED
    BY <1>2, <2>1, CallStep
<1>4. ASSUME D!Again(c), call[c].posts < Retries PROVE ReportInv'
  <2> DEFINE r == [call[c] EXCEPT !.posts = @ + 1]
  <2>1. r \in ReportCall /\ r.st = "sent" /\ call' = [call EXCEPT ![c] = r]
    BY <1>1, <1>2, <1>4 DEF ReportCall, D!Again
  <2> HIDE DEF r
  <2> QED
    BY <1>2, <2>1, CallStep
<1>5. ASSUME call' = [call EXCEPT ![c] = [D!Waiting EXCEPT !.st = "sent"]] PROVE ReportInv'
  <2> DEFINE r == [D!Waiting EXCEPT !.st = "sent"]
  <2>1. D!Waiting \in ReportCall
    <3>1. 0 \in 0..(Retries + Queries)
      BY <1>1
    <3> QED
      BY <3>1 DEF D!Waiting, ReportCall
  <2>2. call' = [call EXCEPT ![c] = r]
    BY <1>5
  <2>3. r \in ReportCall /\ r.st = "sent"
    BY <2>1 DEF ReportCall
  <2> HIDE DEF r
  <2> QED
    BY <1>2, <2>2, <2>3, CallStep
<1> QED
  BY <1>3, <1>4, <1>5 DEF D!Limited, D!Refused, D!Fails

LEMMA BeginIs ==
  ASSUME ReportInv, D!Begin
  PROVE  ReportInv'
<1>1. D!TypeOK' /\ plan' \in D!Plans /\ call' \in [DOMAIN call' -> ReportCall]
  BY DEF ReportInv, D!Begin, D!TypeOK, D!Plans, D!Ended
<1>2. EarlyOK'
  BY DEF ReportInv, D!Begin, EarlyOK, D!Unmerged
<1> QED
  BY <1>1, <1>2 DEF ReportInv, D!Begin, SearchOK, AnalysisOK, TailOK, D!Accounted

LEMMA FetchIs ==
  ASSUME ReportInv, NEW f \in D!Members(Feeds), NEW as \in Answers, D!Fetch(f, as)
  PROVE  ReportInv'
<1>1. D!TypeOK' /\ plan' \in D!Plans /\ call' \in [DOMAIN call' -> ReportCall]
  BY DEF ReportInv, D!Fetch, D!TypeOK, D!Plans
<1>2. EarlyOK'
  BY DEF ReportInv, D!Fetch, EarlyOK, D!Unmerged
<1> QED
  BY <1>1, <1>2 DEF ReportInv, D!Fetch, SearchOK, AnalysisOK, TailOK, D!Accounted

\* The calls that are made.
LEMMA CallsAre ==
  ASSUME plan \in D!Plans, NEW gs, NEW who
  PROVE  /\ D!Calls(gs, who) \in [gs \X who -> ReportCall]
         /\ DOMAIN D!Calls(gs, who) = gs \X who
         /\ \A c \in gs \X who : D!Calls(gs, who)[c].st = "wait"
<1>1. 0 \in 0..(Retries + Queries)
  BY ReportAssumption
<1>2. plan.effort \in BOOLEAN
  BY DEF D!Plans
<1> DEFINE r == [D!Waiting EXCEPT !.effort = plan.effort \/ gs = {"all"}]
<1>3. r = [st |-> "wait", posts |-> 0, effort |-> plan.effort \/ gs = {"all"}]
  BY DEF D!Waiting
<1>4. (plan.effort \/ gs = {"all"}) \in BOOLEAN
  BY <1>2, Zenon
<1>5. r \in ReportCall /\ r.st = "wait"
  BY <1>1, <1>3, <1>4 DEF ReportCall
<1>6. D!Calls(gs, who) = [c \in gs \X who |-> r]
  BY DEF D!Calls
<1> HIDE DEF r
<1> QED
  BY <1>5, <1>6

LEMMA FetchedIs ==
  ASSUME ReportInv, D!Fetched
  PROVE  ReportInv'
<1>1. plan \in D!Plans /\ plan' = plan /\ stage = "feeds" /\ stage' = "search" /\ DOMAIN articles' = {}
  BY DEF ReportInv, EarlyOK, D!Fetched
<1>2. /\ call' \in [D!Targets(plan) \X D!SourceSet -> ReportCall]
      /\ DOMAIN call' = D!Targets(plan) \X D!SourceSet
  BY <1>1, CallsAre DEF D!Fetched
<1>3. D!TypeOK' /\ plan' \in D!Plans /\ call' \in [DOMAIN call' -> ReportCall]
  BY <1>1, <1>2 DEF ReportInv, D!Fetched, D!TypeOK, ReportCall
<1>4. EarlyOK'
  BY DEF ReportInv, D!Fetched, EarlyOK, D!Unmerged
<1>5. SearchOK'
  BY <1>1, <1>2 DEF D!Fetched, SearchOK, D!Targets
<1> QED
  BY <1>1, <1>3, <1>4, <1>5 DEF ReportInv, D!Fetched, AnalysisOK, TailOK, D!Accounted

LEMMA StartsIs ==
  ASSUME ReportInv, NEW g \in Groups \cup {"all"}, D!Start(g)
  PROVE  ReportInv'
<1>1. /\ UNCHANGED <<plan, stage, feeds, found, articles, turn, sections, errors, files, report, faults>>
      /\ stage \in {"search", "analysis", "merge"} /\ DOMAIN call' = DOMAIN call
      /\ \A d \in DOMAIN call : d \notin D!Of(g) => call'[d] = call[d]
      /\ \E d \in D!Of(g) : TRUE
      /\ \A d \in D!Of(g) : call[d].st = "wait"
  BY DEF D!Start
<1>2. \A d \in D!Of(g) :
        call'[d] = [call[d] EXCEPT !.st = IF stage = "analysis" /\ articles[g] = {} THEN "failed" ELSE "sent"]
  BY DEF D!Start, D!Of
<1>3. ASSUME NEW d \in DOMAIN call
      PROVE  /\ call'[d] \in ReportCall
             /\ d \in D!Of(g) /\ stage = "analysis" /\ articles[g] = {} => call'[d].st = "failed"
  <2>1. call[d] \in ReportCall
    BY DEF ReportInv
  <2>2. CASE d \in D!Of(g)
    <3> DEFINE st == IF stage = "analysis" /\ articles[g] = {} THEN "failed" ELSE "sent"
    <3>1. st \in {"failed", "sent"} /\ (stage = "analysis" /\ articles[g] = {} => st = "failed")
      OBVIOUS
    <3>2. call'[d] = [call[d] EXCEPT !.st = st]
      BY <1>2, <2>2
    <3> HIDE DEF st
    <3> QED
      BY <2>1, <3>1, <3>2 DEF ReportCall
  <2> QED
    BY <1>1, <2>1, <2>2
<1>4. call' = [d \in DOMAIN call |-> call'[d]]
  BY DEF D!Start
<1>5. call' \in [DOMAIN call' -> ReportCall]
  BY <1>1, <1>3, <1>4
<1>6. D!TypeOK'
  BY <1>1, <1>5 DEF ReportInv, D!TypeOK, ReportCall
<1>7. EarlyOK' /\ plan' \in D!Plans /\ D!Accounted'
  BY <1>1 DEF ReportInv, EarlyOK, D!Plans, D!Accounted, D!Unmerged
<1>8. SearchOK'
  <2> SUFFICES ASSUME stage = "search" PROVE SearchOK'
    BY <1>1 DEF SearchOK
  <2>1. ASSUME NEW h \in DOMAIN articles
        PROVE  /\ h \in D!Targets(plan)
               /\ articles[h] \subseteq D!Places(D!Answered(h)')
               /\ D!IsMerged(articles[h], D!Answered(h)') /\ \A d \in D!Of(h)' : D!Over(d)'
    <3>1. /\ h \in D!Targets(plan)
          /\ articles[h] \subseteq D!Places(D!Answered(h))
          /\ D!IsMerged(articles[h], D!Answered(h)) /\ \A d \in D!Of(h) : D!Over(d)
      BY DEF ReportInv, SearchOK
    <3>2. h # g
      BY <1>1, <3>1 DEF D!Over
    <3>3. D!Of(h)' = D!Of(h) /\ \A d \in D!Of(h) : D!Over(d)'
      BY <1>1, <3>1, <3>2 DEF D!Of, D!Over
    <3>4. D!Answered(h)' = D!Answered(h)
      BY <1>1 DEF D!Answered
    <3> QED
      BY <3>1, <3>3, <3>4
  <2> QED
    BY <1>1, <2>1 DEF ReportInv, SearchOK, D!Targets
<1>9. AnalysisOK'
  <2> SUFFICES ASSUME stage = "analysis" PROVE AnalysisOK'
    BY <1>1 DEF AnalysisOK
  <2>1. \A c \in DOMAIN call : call'[c].st \in {"sent", "ok"} => articles[c[1]] # {}
    BY <1>1, <1>3 DEF ReportInv, AnalysisOK, D!Of
  <2> QED
    BY <1>1, <2>1 DEF ReportInv, AnalysisOK, Told, D!Targets
<1>10. TailOK'
  BY <1>1 DEF ReportInv, TailOK, Told, D!Targets, D!Written, D!Merged, D!Redone
<1> QED
  BY <1>1, <1>5, <1>6, <1>7, <1>8, <1>9, <1>10 DEF ReportInv

LEMMA GatherIs ==
  ASSUME ReportInv, NEW g \in Groups, D!Gather(g)
  PROVE  ReportInv'
<1>1. /\ UNCHANGED <<plan, stage, feeds, call, found, turn, sections, errors, files, report, faults>>
      /\ stage = "search" /\ g \in D!Targets(plan) /\ \A c \in D!Of(g) : D!Over(c)
  BY DEF D!Gather
<1>2. PICK kept \in SUBSET D!Places(D!Answered(g)) :
        /\ D!IsMerged(kept, D!Answered(g))
        /\ articles' = [h \in DOMAIN articles \cup {g} |-> IF h = g THEN kept ELSE articles[h]]
  BY DEF D!Gather
<1>3. D!TypeOK'
  BY <1>1, <1>2 DEF ReportInv, D!TypeOK
<1>4. EarlyOK' /\ plan' \in D!Plans /\ D!Accounted' /\ AnalysisOK' /\ TailOK'
  BY <1>1 DEF ReportInv, EarlyOK, D!Plans, D!Accounted, D!Unmerged, AnalysisOK, TailOK
<1>5. SearchOK'
  <2>1. \A h : D!Answered(h)' = D!Answered(h) /\ D!Of(h)' = D!Of(h)
    BY <1>1 DEF D!Answered, D!Of
  <2>2. \A c : D!Over(c)' <=> D!Over(c)
    BY <1>1 DEF D!Over
  <2>3. ASSUME NEW h \in DOMAIN articles'
        PROVE  /\ h \in D!Targets(plan)
               /\ articles'[h] \subseteq D!Places(D!Answered(h)) /\ D!IsMerged(articles'[h], D!Answered(h))
               /\ \A c \in D!Of(h) : D!Over(c)
    BY <1>1, <1>2 DEF ReportInv, SearchOK
  <2> QED
    BY <1>1, <2>1, <2>2, <2>3 DEF ReportInv, SearchOK, D!Targets
<1> QED
  BY <1>1, <1>3, <1>4, <1>5 DEF ReportInv

\* A contributor is a model.
LEMMA ContributorsAre ==
  ASSUME plan \in D!Plans
  PROVE  /\ DOMAIN plan.models = 1..Len(plan.models) /\ Len(plan.models) \in Nat
         /\ \A i \in DOMAIN plan.models : plan.models[i] \in Contributors
         /\ plan.synthesis \in Contributors \cup {"none"} /\ D!Targets(plan) \subseteq Groups
<1>1. plan.models \in Seq(Contributors)
  BY ReportAssumption DEF D!Plans
<1> QED
  BY <1>1 DEF D!Plans, D!None, D!Targets

LEMMA PrefetchedIs ==
  ASSUME ReportInv, D!Prefetched
  PROVE  ReportInv'
<1>1. /\ plan \in D!Plans /\ plan.models # <<>> /\ turn = 1 /\ stage = "search" /\ stage' = "analysis"
      /\ UNCHANGED <<plan, feeds, articles, turn, sections, errors, files, report, faults>>
      /\ DOMAIN articles = D!Targets(plan)
  BY DEF ReportInv, EarlyOK, D!Prefetched
<1>2. Len(plan.models) >= 1 /\ plan.models[1] \in Contributors
  <2>1. plan.models \in Seq(Contributors)
    BY <1>1, ReportAssumption DEF D!Plans
  <2> QED
    BY <1>1, <2>1
<1>3. /\ call' \in [D!Targets(plan) \X {plan.models[1]} -> ReportCall]
      /\ DOMAIN call' = D!Targets(plan) \X {plan.models[1]}
      /\ \A c \in DOMAIN call' : call'[c].st = "wait"
  <2> DEFINE gs == D!Targets(plan)
             who == {plan.models[1]}
  <2>1. call' = D!Calls(gs, who)
    BY DEF D!Prefetched
  <2> HIDE DEF gs, who
  <2>2. call' \in [gs \X who -> ReportCall] /\ DOMAIN call' = gs \X who /\ \A c \in gs \X who : call'[c].st = "wait"
    BY <1>1, <2>1, CallsAre
  <2> QED
    BY <2>2 DEF gs, who
<1>4. D!TypeOK' /\ plan' \in D!Plans /\ call' \in [DOMAIN call' -> ReportCall]
  BY <1>1, <1>3 DEF ReportInv, D!TypeOK, ReportCall
<1>5. EarlyOK'
  BY <1>1 DEF ReportInv, EarlyOK, D!Unmerged
<1>6. AnalysisOK'
  <2>1. \A i \in DOMAIN plan.models : ~(i < turn)
    BY <1>1, ContributorsAre
  <2>2. \A c \in DOMAIN call' : call'[c].st \notin {"sent", "ok"}
    BY <1>3
  <2> QED
    BY <1>1, <1>2, <1>3, <2>1, <2>2 DEF AnalysisOK, D!Targets
<1> QED
  BY <1>1, <1>4, <1>5, <1>6 DEF ReportInv, SearchOK, TailOK, D!Accounted

LEMMA EndModelIs ==
  ASSUME ReportInv, NEW ok \in BOOLEAN, D!EndModel(ok)
  PROVE  ReportInv'
<1> DEFINE m == plan.models[turn]
           right == D!Analysed("ok")
           wrong == D!Analysed("failed")
<1>1. /\ plan \in D!Plans /\ stage = "analysis" /\ turn \in DOMAIN plan.models /\ m \in Contributors
      /\ turn \in Nat /\ turn' = turn + 1
      /\ \A c \in DOMAIN call : D!Over(c)
      /\ UNCHANGED <<plan, feeds, found, articles, report>>
      /\ sections' = [sections EXCEPT ![m] = right]
      /\ errors' = errors \cup {<<m, g>> : g \in wrong}
  BY ContributorsAre DEF ReportInv, D!TypeOK, D!EndModel
<1>2. /\ DOMAIN articles = D!Targets(plan) /\ DOMAIN call = D!Targets(plan) \X {m}
      /\ \A c \in DOMAIN call : call[c].st \in {"sent", "ok"} => articles[c[1]] # {}
      /\ \A i \in DOMAIN plan.models : i < turn => \A g \in D!Targets(plan) : Told(plan.models[i], g)
  BY <1>1, ContributorsAre DEF ReportInv, AnalysisOK
<1>3. /\ right \subseteq D!Targets(plan) /\ wrong \subseteq D!Targets(plan)
      /\ \A g \in D!Targets(plan) : g \in right \/ g \in wrong
      /\ \A g \in right : articles[g] # {}
  <2>1. right \subseteq D!Targets(plan) /\ wrong \subseteq D!Targets(plan)
    BY <1>2 DEF D!Analysed
  <2>2. ASSUME NEW g \in D!Targets(plan) PROVE g \in right \/ g \in wrong
    <3>1. <<g, m>> \in DOMAIN call
      BY <1>2
    <3>2. call[<<g, m>>].st \in {"ok", "failed"}
      BY <1>1, <3>1 DEF D!Over
    <3> QED
      BY <3>1, <3>2 DEF D!Analysed
  <2>3. \A g \in right : articles[g] # {}
    BY <1>2 DEF D!Analysed
  <2> QED
    BY <2>1, <2>2, <2>3
<1> HIDE DEF right, wrong, m
<1>4. /\ stage' = IF ok THEN "analysis" ELSE "raised"
      /\ files' \subseteq Contributors /\ faults' \in 0..MaxFaults["report"]
  <2>1. /\ stage' = IF ok THEN "analysis" ELSE "raised"
        /\ \/ UNCHANGED <<files, faults>>
           \/ files' \in {files, files \cup {m}} /\ faults' \in {faults, faults + 1} /\ faults' <= MaxFaults["report"]
    BY DEF D!EndModel, m
  <2>2. files \subseteq Contributors /\ faults \in 0..MaxFaults["report"]
    BY DEF ReportInv, D!TypeOK
  <2> QED
    BY <1>1, <2>1, <2>2, ReportAssumption
<1>5. /\ sections \in [Contributors -> SUBSET Groups] /\ errors \subseteq Contributors \X (Groups \cup {"all"})
      /\ sections' \in [Contributors -> SUBSET Groups] /\ errors' \subseteq Contributors \X (Groups \cup {"all"})
  <2>1. sections \in [Contributors -> SUBSET Groups] /\ errors \subseteq Contributors \X (Groups \cup {"all"})
    BY DEF ReportInv, D!TypeOK
  <2>2. right \subseteq Groups /\ wrong \subseteq Groups
    BY <1>1, <1>3, ContributorsAre
  <2> QED
    BY <1>1, <2>1, <2>2
<1>6. /\ call' = IF ok /\ turn < Len(plan.models) THEN D!Calls(D!Targets(plan), {plan.models[turn + 1]}) ELSE D!Nothing
      /\ Len(plan.models) \in Nat /\ DOMAIN plan.models = 1..Len(plan.models)
  BY <1>1, ContributorsAre DEF D!EndModel
<1>7. /\ call' \in [DOMAIN call' -> ReportCall]
      /\ \A c \in DOMAIN call' : call'[c].st = "wait"
      /\ ok => DOMAIN call' = IF turn' <= Len(plan.models) THEN D!Targets(plan) \X {plan.models[turn']} ELSE {}
  <2>1. CASE ok /\ turn < Len(plan.models)
    <3> DEFINE gs == D!Targets(plan)
               who == {plan.models[turn + 1]}
    <3>1. call' = D!Calls(gs, who) /\ turn' <= Len(plan.models)
      BY <1>1, <1>6, <2>1
    <3> HIDE DEF gs, who
    <3>2. call' \in [gs \X who -> ReportCall] /\ DOMAIN call' = gs \X who /\ \A c \in gs \X who : call'[c].st = "wait"
      BY <1>1, <3>1, CallsAre
    <3> QED
      BY <1>1, <3>1, <3>2 DEF gs, who
  <2>2. CASE ~(ok /\ turn < Len(plan.models))
    <3>1. call' = D!Nothing /\ (ok => ~(turn' <= Len(plan.models)))
      BY <1>1, <1>6, <2>2
    <3> QED
      BY <3>1 DEF D!Nothing
  <2> QED
    BY <2>1, <2>2
<1>8. D!TypeOK'
  <2>1. turn' \in 1..(Len(plan.models) + 1)
    BY <1>1, <1>6
  <2>2. \A c \in DOMAIN call' : call'[c].st \in {"wait", "sent", "ok", "failed"} /\ call'[c].posts \in 0..(Retries + Queries)
    BY <1>7 DEF ReportCall
  <2>3. DOMAIN feeds \subseteq D!Members(Feeds) /\ DOMAIN articles \subseteq Groups
    BY DEF ReportInv, D!TypeOK
  <2> QED
    BY <1>1, <1>4, <1>5, <2>1, <2>2, <2>3 DEF D!TypeOK, D!Ended
<1>9. EarlyOK' /\ plan' \in D!Plans
  BY <1>1, <1>4 DEF ReportInv, EarlyOK, D!Unmerged, D!Plans
<1>10. AnalysisOK'
  <2>1. ASSUME NEW i \in DOMAIN plan.models, i < turn + 1, NEW g \in D!Targets(plan)
        PROVE  Told(plan.models[i], g)'
    <3>1. CASE plan.models[i] = m
      <4>1. sections'[m] = right
        BY <1>1, <1>5
      <4>2. g \in wrong => <<m, g>> \in errors'
        BY <1>1
      <4> QED
        BY <1>1, <1>3, <3>1, <4>1, <4>2 DEF Told
    <3>2. CASE plan.models[i] # m
      <4>1. i < turn
        BY <1>1, <1>6, <2>1, <3>2 DEF m
      <4>2. Told(plan.models[i], g)
        BY <1>2, <4>1
      <4>3. sections'[plan.models[i]] = sections[plan.models[i]]
        BY <1>1, <1>5, <3>2
      <4> QED
        BY <1>1, <4>2, <4>3 DEF Told
    <3> QED
      BY <3>1, <3>2
  <2> QED
    BY <1>1, <1>2, <1>4, <1>7, <2>1 DEF AnalysisOK, D!Targets
<1> QED
  BY <1>4, <1>7, <1>8, <1>9, <1>10 DEF ReportInv, SearchOK, TailOK, D!Accounted

LEMMA AnalysesIs ==
  ASSUME ReportInv, D!Analyses
  PROVE  ReportInv'
<1>1. /\ plan \in D!Plans /\ stage = "analysis" /\ turn > Len(plan.models)
      /\ UNCHANGED <<plan, feeds, found, articles, turn, sections, errors, files, report, faults>>
      /\ stage' = IF D!Written = {} THEN "nothing" ELSE IF D!Merged THEN "merge" ELSE "save"
      /\ call' = IF stage' = "merge" THEN D!Calls({"all"}, {plan.synthesis}) ELSE D!Nothing
  BY DEF ReportInv, D!Analyses
<1>2. /\ DOMAIN call' = IF stage' = "merge" THEN {<<"all", plan.synthesis>>} ELSE {}
      /\ call' \in [DOMAIN call' -> ReportCall]
      /\ \A c \in DOMAIN call' : call'[c].st = "wait"
  <2>1. CASE stage' = "merge"
    <3> DEFINE gs == {"all"}
               who == {plan.synthesis}
    <3>1. call' = D!Calls(gs, who)
      BY <1>1, <2>1
    <3>2. gs \X who = {<<"all", plan.synthesis>>}
      OBVIOUS
    <3> HIDE DEF gs, who
    <3>0. plan \in D!Plans
      BY <1>1
    <3>3. call' \in [gs \X who -> ReportCall] /\ DOMAIN call' = gs \X who /\ \A c \in gs \X who : call'[c].st = "wait"
      BY <3>0, <3>1, CallsAre
    <3> QED
      BY <2>1, <3>2, <3>3
  <2>2. CASE stage' # "merge"
    BY <1>1, <2>2 DEF D!Nothing
  <2> QED
    BY <2>1, <2>2
<1>3. D!TypeOK' /\ EarlyOK' /\ plan' \in D!Plans
  BY <1>1, <1>2 DEF ReportInv, D!TypeOK, EarlyOK, D!Unmerged, D!Plans, ReportCall, D!Ended
<1>4. TailOK'
  <2>1. ASSUME NEW i \in DOMAIN plan.models, NEW g \in D!Targets(plan)
        PROVE  Told(plan.models[i], g)
    <3>1. i < turn
      <4>1. i \in 1..Len(plan.models) /\ Len(plan.models) \in Nat /\ turn \in Int
        BY <1>1, ContributorsAre DEF ReportInv, D!TypeOK
      <4> QED
        BY <1>1, <4>1
    <3> QED
      BY <1>1, <3>1 DEF ReportInv, AnalysisOK
  <2>2. D!Written' = D!Written /\ (D!Merged' <=> D!Merged)
    BY <1>1 DEF D!Written, D!Merged, D!Redone
  <2>3. \A i \in DOMAIN plan.models : \A g \in D!Targets(plan) : Told(plan.models[i], g)'
    BY <1>1, <2>1 DEF Told
  <2> QED
    BY <1>1, <1>2, <2>2, <2>3 DEF TailOK, D!Targets
<1> QED
  BY <1>1, <1>2, <1>3, <1>4 DEF ReportInv, SearchOK, AnalysisOK, D!Accounted

LEMMA SynthesisedIs ==
  ASSUME ReportInv, D!Synthesised
  PROVE  ReportInv'
<1> DEFINE lost == {<<c[2], "all">> : c \in {d \in DOMAIN call : call[d].st = "failed"}}
<1>1. /\ plan \in D!Plans /\ stage = "merge" /\ stage' = "save" /\ errors' = errors \cup lost
      /\ \A c \in DOMAIN call : D!Over(c)
      /\ UNCHANGED <<plan, feeds, call, found, articles, turn, sections, files, report, faults>>
  BY DEF ReportInv, D!Synthesised
<1>2. DOMAIN call = {<<"all", plan.synthesis>>} /\ plan.synthesis \in Contributors
  BY <1>1, ContributorsAre DEF ReportInv, TailOK, D!Merged, D!None
<1>3. lost \subseteq Contributors \X (Groups \cup {"all"})
  BY <1>2
<1>4. \A c \in DOMAIN call : call[c].st = "failed" => <<c[2], "all">> \in errors'
  BY <1>1
<1> HIDE DEF lost
<1>5. D!TypeOK' /\ EarlyOK' /\ plan' \in D!Plans
  BY <1>1, <1>3 DEF ReportInv, D!TypeOK, EarlyOK, D!Unmerged, D!Plans
<1>6. TailOK'
  <2>1. \A i \in DOMAIN plan.models : \A g \in D!Targets(plan) : Told(plan.models[i], g)'
    BY <1>1 DEF ReportInv, TailOK, Told
  <2>2. D!Written' = D!Written /\ (D!Merged' <=> D!Merged) /\ \A c : D!Over(c)' <=> D!Over(c)
    BY <1>1 DEF D!Written, D!Merged, D!Redone, D!Over
  <2> QED
    BY <1>1, <1>4, <2>1, <2>2 DEF ReportInv, TailOK, D!Targets
<1> QED
  BY <1>1, <1>5, <1>6 DEF ReportInv, SearchOK, AnalysisOK, D!Accounted

LEMMA WritersFinite ==
  ASSUME plan \in D!Plans
  PROVE  IsFiniteSet(D!Written) /\ D!Written \subseteq Nat
<1>1. DOMAIN plan.models = 1..Len(plan.models) /\ Len(plan.models) \in Nat
  BY ContributorsAre
<1>2. IsFiniteSet(1..Len(plan.models))
  BY <1>1, FS_Interval
<1>3. D!Written \in SUBSET (1..Len(plan.models))
  BY <1>1 DEF D!Written
<1>4. IsFiniteSet(D!Written)
  BY <1>2, <1>3, FS_Subset
<1> QED
  BY <1>1, <1>3, <1>4

\* If nothing is merged, one contributor at most wrote an analysis.
LEMMA LoneWriter ==
  ASSUME plan \in D!Plans, ~D!Unmerged(plan), ~D!Merged, NEW i \in D!Written, NEW j \in D!Written
  PROVE  i = j
<1>1. /\ DOMAIN plan.models = 1..Len(plan.models) /\ Len(plan.models) \in Nat
      /\ i \in 1..Len(plan.models) /\ j \in 1..Len(plan.models)
  BY ContributorsAre DEF D!Written
<1>2. CASE plan.synthesis = D!None
  BY <1>1, <1>2 DEF D!Unmerged
<1>3. CASE plan.synthesis # D!None
  <2>1. ~(Cardinality(D!Written) > 1)
    BY <1>3, CountIs DEF D!Merged
  <2>2. IsFiniteSet(D!Written)
    BY WritersFinite
  <2>3. SUFFICES ASSUME i # j PROVE FALSE
    OBVIOUS
  <2>4. /\ IsFiniteSet(D!Written \ {i}) /\ Cardinality(D!Written \ {i}) = Cardinality(D!Written) - 1
        /\ Cardinality(D!Written) \in Nat
    BY <2>2, FS_RemoveElement, FS_CardinalityType
  <2>5. Cardinality(D!Written \ {i}) \in Nat /\ Cardinality(D!Written \ {i}) # 0
    <3>1. D!Written \ {i} # {}
      BY <2>3
    <3> QED
      BY <2>4, <3>1, FS_EmptySet, FS_CardinalityType
  <2> QED
    BY <2>1, <2>4, <2>5
<1> QED
  BY <1>2, <1>3

\* The first of some positions.
LEMMA FirstIs ==
  ASSUME NEW set, set \subseteq Nat, IsFiniteSet(set), set # {}
  PROVE  \E i \in set : \A j \in set : i <= j
<1> DEFINE below(x) == {y \in set : y < x}
           sets == {below(x) : x \in set}
<1>1. sets \subseteq FiniteSubsetsOf(set) /\ sets # {}
  <2>1. \A x : below(x) \subseteq set /\ IsFiniteSet(below(x))
    BY FS_Subset
  <2> QED
    BY <2>1 DEF FiniteSubsetsOf
<1>2. PICK u \in sets : \A v \in sets : <<v, u>> \notin StrictSubsetOrdering(set)
  <2> HIDE DEF sets
  <2> QED
    BY <1>1, FS_StrictSubsetOrderingWellFounded, WFMin
<1>3. PICK x \in set : u = below(x)
  BY <1>2
<1>4. ASSUME NEW y \in set, y < x PROVE FALSE
  <2>1. <<below(y), below(x)>> \notin StrictSubsetOrdering(set)
    BY <1>2, <1>3
  <2>2. ~ (below(y) \subseteq below(x) /\ below(y) # below(x))
    BY <2>1 DEF StrictSubsetOrdering
  <2>3. y \in below(x) /\ y \notin below(y)
    BY <1>4
  <2>4. ASSUME NEW z \in below(y) PROVE z \in below(x)
    <3>1. z \in set /\ z < y /\ z \in Nat /\ y \in Nat /\ x \in Nat
      BY <2>4
    <3> QED
      BY <1>4, <3>1
  <2> HIDE DEF below
  <2> QED
    BY <2>2, <2>3, <2>4
<1> QED
  BY <1>4

LEMMA SaveIs ==
  ASSUME ReportInv, NEW ok \in BOOLEAN, D!Save(ok)
  PROVE  ReportInv'
<1>1. /\ plan \in D!Plans /\ stage = "save" /\ stage' \in {"done", "raised"}
      /\ UNCHANGED <<plan, feeds, call, found, articles, turn, sections, errors, files>>
      /\ stage' = "done" => report' = D!Final
      /\ faults' \in 0..MaxFaults["report"]
  BY ReportAssumption DEF ReportInv, D!Save, D!TypeOK
<1>2. D!TypeOK' /\ EarlyOK' /\ plan' \in D!Plans
  BY <1>1 DEF ReportInv, D!TypeOK, EarlyOK, D!Unmerged, D!Plans, D!Ended
<1>3. D!Accounted'
  <2> SUFFICES ASSUME stage' = "done" PROVE D!Accounted'
    BY DEF D!Accounted
  <2>1. /\ \A i \in DOMAIN plan.models : \A g \in D!Targets(plan) : Told(plan.models[i], g)
        /\ D!Written # {}
        /\ DOMAIN call = IF D!Merged THEN {<<"all", plan.synthesis>>} ELSE {}
        /\ \A c \in DOMAIN call : D!Over(c) /\ (call[c].st = "failed" => <<c[2], "all">> \in errors)
        /\ ~D!Unmerged(plan)
    BY <1>1 DEF ReportInv, TailOK, EarlyOK
  <2>2. D!Written \subseteq DOMAIN plan.models /\ D!Written \subseteq Nat
    BY <1>1, ContributorsAre DEF D!Written
  <2>3. PICK first \in D!Written : \A j \in D!Written : first <= j
    BY <1>1, <2>1, <2>2, WritersFinite, FirstIs
  <2>4. first \in D!Earliest /\ D!Earliest \subseteq D!Written
    BY <2>3 DEF D!Earliest
  <2>5. D!Final # {} /\ \A m \in D!Final : sections[m] # {}
    BY <2>1, <2>4 DEF D!Final, D!Written
  <2>6. ASSUME NEW m \in D!Members(plan.models)
        PROVE  m \in D!Final \/ sections[m] = {} \/ <<plan.synthesis, "all">> \in errors
    <3>1. PICK i \in DOMAIN plan.models : m = plan.models[i]
      BY DEF D!Members
    <3>2. CASE i \notin D!Written
      BY <3>1, <3>2 DEF D!Written
    <3>3. CASE i \in D!Written /\ \E c \in DOMAIN call : call[c].st = "ok"
      BY <3>1, <3>3 DEF D!Final
    <3>4. CASE i \in D!Written /\ D!Merged /\ ~ \E c \in DOMAIN call : call[c].st = "ok"
      <4>1. <<"all", plan.synthesis>> \in DOMAIN call
        BY <2>1, <3>4
      <4>2. call[<<"all", plan.synthesis>>].st = "failed"
        BY <2>1, <3>4, <4>1 DEF D!Over
      <4> QED
        BY <2>1, <4>1, <4>2
    <3>5. CASE i \in D!Written /\ ~D!Merged /\ ~ \E c \in DOMAIN call : call[c].st = "ok"
      <4>1. i = first
        BY <1>1, <2>1, <3>5, LoneWriter
      <4> QED
        BY <2>4, <3>1, <3>5, <4>1 DEF D!Final
    <3> QED
      BY <3>2, <3>3, <3>4, <3>5
  <2>7. \A m \in D!Members(plan.models), g \in D!Targets(plan) : Told(m, g)
    BY <2>1 DEF D!Members
  <2> QED
    BY <1>1, <2>5, <2>6, <2>7 DEF D!Accounted, D!Targets, Told
<1> QED
  BY <1>1, <1>2, <1>3 DEF ReportInv, SearchOK, AnalysisOK, TailOK

LEMMA ReportStep ==
  ASSUME ReportInv, [D!Next]_D!vars
  PROVE  ReportInv'
<1>1. CASE UNCHANGED D!vars
  <2>1. UNCHANGED <<plan, stage, feeds, call, found, articles, turn, sections, errors, files, report, faults>>
    BY <1>1 DEF D!vars
  <2>2. (plan \in D!Plans)' /\ D!TypeOK' /\ EarlyOK' /\ D!Accounted' /\ (call \in [DOMAIN call -> ReportCall])'
    BY <2>1 DEF ReportInv, D!TypeOK, D!Plans, EarlyOK, D!Accounted, D!Unmerged, D!Targets
  <2>3. SearchOK'
    <3>1. \A g : D!Answered(g)' = D!Answered(g) /\ D!Of(g)' = D!Of(g)
      BY <2>1 DEF D!Answered, D!Of
    <3>2. \A c : D!Over(c)' <=> D!Over(c)
      BY <2>1 DEF D!Over
    <3> QED
      BY <2>1, <3>1, <3>2 DEF ReportInv, SearchOK, D!Targets
  <2>4. AnalysisOK'
    BY <2>1 DEF ReportInv, AnalysisOK, D!Targets, Told
  <2>5. TailOK'
    BY <2>1 DEF ReportInv, TailOK, D!Targets, D!Over, Told, D!Written, D!Merged, D!Redone
  <2> QED
    BY <2>2, <2>3, <2>4, <2>5 DEF ReportInv
<1>2. CASE D!Next
  BY <1>2, BeginIs, FetchIs, FetchedIs, StartsIs, FindsIs, WritesIs, FaultyIs, GatherIs, PrefetchedIs,
     EndModelIs, AnalysesIs, SynthesisedIs, SaveIs DEF D!Next
<1> QED
  BY <1>1, <1>2

LEMMA ReportInit ==
  ASSUME D!Init
  PROVE  ReportInv
<1>1. plan \in D!Plans /\ call = D!Nothing /\ stage = "begin" /\ articles = D!Nothing
  BY DEF D!Init
<1>2. DOMAIN call = {} /\ DOMAIN articles = {} /\ call \in [DOMAIN call -> ReportCall]
  BY <1>1 DEF D!Nothing
<1>3. D!TypeOK
  BY <1>1, <1>2, ContributorsAre, ReportAssumption DEF D!Init, D!TypeOK, D!Nothing
<1> QED
  BY <1>1, <1>2, <1>3 DEF D!Init, ReportInv, EarlyOK, SearchOK, AnalysisOK, TailOK, D!Accounted

\* For any contributors, groups, sources, answers and failures: no article is lost
\* below the limit or listed twice, and what a finished report lacks is among its
\* errors (runner.py run_daily_report, sources.py _merge_articles).
THEOREM ReportAccounted == AllSpec => []NewsAccounted
<1> DEFINE Inv == part = "report" => ReportInv
<1>1. AllInit => Inv
  BY PartInit, ReportInit
<1>2. Inv /\ [AllNext]_<<all, others>> => Inv'
  BY PartStep, ReportStep
<1>3. Inv => NewsAccounted
  BY NewsHold DEF NewsAccounted, ReportInv
<1> QED
  BY <1>1, <1>2, <1>3, PTL DEF AllSpec

-----------------------------------------------------------------------------
(* ConfigBackup                                                            *)

\* Sections with values.
Payloads == UNION {[names -> Values \cup {0}] : names \in SUBSET B!Sections}
Triggers == B!Sections \cup Occasions
Kinds == {"none", "change", "full"}
IdSets == SUBSET Nat
Requests ==
  [do : {"idle", "capture", "drop", "insert", "prune", "apply", "files", "tables", "save"},
   kind : Kinds, trigger : Triggers,
   for : {"none", "change", "backup", "restore", "schedule", "mark"}, value : Values \cup {0},
   seen : Payloads, ids : IdSets, base : Nat, entry : Nat, world : Payloads, payload : Payloads,
   before : Payloads, whole : BOOLEAN, resolve : BOOLEAN, at : Nat, alone : BOOLEAN]
Backups ==
  [kind : Kinds, trigger : Triggers, base : Nat, payload : Payloads, slot : Nat, world : Payloads]

HistoryOK ==
  /\ DOMAIN history \subseteq 1..made /\ history \in [DOMAIN history -> Backups]
  /\ \A i \in B!Changes : DOMAIN history[i].payload \subseteq B!SectionsFor(history[i].trigger)

\* What a request of p has read and is for; a scheduled backup that is yet to be
\* inserted is the first of its instant.
RequestOK(p, r) ==
  /\ r.do = "idle" => r = B!Idle
  /\ DOMAIN r.seen \subseteq B!SectionsFor(r.trigger)
  /\ r.do \notin {"idle", "capture"} => DOMAIN r.seen = B!SectionsFor(r.trigger)
  /\ r.for = "change" => r.trigger \in B!Sections /\ r.kind = "change"
  /\ r.for = "restore" => r.trigger = "restore" /\ r.kind = "change"
  /\ r.do \in {"files", "tables"} => r.for = "restore"
  /\ r.do = "tables" => DOMAIN r.before = B!Sections
  /\ r.at <= slot
  /\ r.do = "drop" =>
       /\ \A i \in r.ids : i <= made
       /\ \A i \in r.ids \cap DOMAIN history : i \in B!Changes /\ history[i].trigger = r.trigger
  /\ r.kind = "full" /\ r.trigger = "schedule" /\ r.do \in {"capture", "insert"} =>
       p = Ticker /\ inslot = 0

CallsOK == call \in [B!Processes -> Requests] /\ \A p \in B!Processes : RequestOK(p, call[p])

\* The newest change that holds a section holds its value, unless that is empty.
Newest(s, value) ==
  value # 0 => \A i \in B!Holding(s) : B!IsLast(i, B!Holding(s)) => history[i].payload[s] = value

\* What a request that ran alone has read is still so, and recorded once it is to be.
AloneOK(r) ==
  /\ r.do \notin {"tables", "save"} => \A s \in DOMAIN r.seen : r.seen[s] = config[s]
  /\ r.do = "tables" => \A s \in DOMAIN r.seen : r.seen[s] = r.before[s]
  /\ r.do = "drop" =>
       \E j \in B!Changes \ r.ids :
         /\ history[j].payload = B!Scoped(r.seen, r.trigger)
         /\ \A i \in B!Changes : i > j => i \in r.ids
  /\ r.do \in {"prune", "apply", "files", "tables"} /\ r.kind = "change" =>
       \A s \in DOMAIN r.seen : Newest(s, r.seen[s])

SoleOK ==
  \A p \in B!Processes : call[p].alone =>
    AloneOK(call[p]) /\ \A q \in B!Processes : q # p => call[q].do = "idle"

UndosOK == \A s \in B!Sections : undo[s].alone => Newest(s, undo[s].was)

\* The scheduled backup of this instant is the latest full one.
ScheduledOK ==
  /\ inslot \in {0, 1}
  /\ inslot = 1 => \E i \in B!Fulls : /\ B!IsLast(i, B!Fulls)
                                     /\ history[i].slot = slot /\ history[i].trigger = "schedule"

BackupInv == B!TypeOK /\ HistoryOK /\ CallsOK /\ SoleOK /\ UndosOK /\ ScheduledOK

\* The last of some numbers.
LEMMA LastIs ==
  ASSUME NEW set, set \subseteq Nat, IsFiniteSet(set), set # {}
  PROVE  B!Latest(set) \in set /\ \A x \in set : x <= B!Latest(set)
<1> DEFINE above(x) == {y \in set : y > x}
           sets == {above(x) : x \in set}
<1>1. sets \subseteq FiniteSubsetsOf(set) /\ sets # {}
  <2>1. \A x : above(x) \subseteq set /\ IsFiniteSet(above(x))
    BY FS_Subset
  <2> QED
    BY <2>1 DEF FiniteSubsetsOf
<1>2. PICK u \in sets : \A v \in sets : <<v, u>> \notin StrictSubsetOrdering(set)
  <2> HIDE DEF sets
  <2> QED
    BY <1>1, FS_StrictSubsetOrderingWellFounded, WFMin
<1>3. PICK x \in set : u = above(x)
  BY <1>2
<1>4. ASSUME NEW y \in set, y > x PROVE FALSE
  <2>1. <<above(y), above(x)>> \notin StrictSubsetOrdering(set)
    BY <1>2, <1>3
  <2>2. ~ (above(y) \subseteq above(x) /\ above(y) # above(x))
    BY <2>1 DEF StrictSubsetOrdering
  <2>3. y \in above(x) /\ y \notin above(y)
    BY <1>4
  <2>4. ASSUME NEW z \in above(y) PROVE z \in above(x)
    <3>1. z \in set /\ z > y /\ z \in Nat /\ y \in Nat /\ x \in Nat
      BY <2>4
    <3> QED
      BY <1>4, <3>1
  <2> HIDE DEF above
  <2> QED
    BY <2>2, <2>3, <2>4
<1>5. B!IsLast(x, set)
  BY <1>4 DEF B!IsLast
<1>6. B!IsLast(B!Latest(set), set)
  BY <1>5, Zenon DEF B!Latest
<1> QED
  BY <1>6 DEF B!IsLast

LEMMA PayloadIs ==
  ASSUME NEW f, f \in [DOMAIN f -> Values \cup {0}], DOMAIN f \subseteq B!Sections
  PROVE  f \in Payloads
BY DEF Payloads

LEMMA PayloadOf ==
  ASSUME NEW f \in Payloads
  PROVE  /\ f \in [DOMAIN f -> Values \cup {0}] /\ DOMAIN f \subseteq B!Sections
         /\ \A s \in DOMAIN f : f[s] \in Values \cup {0}
BY DEF Payloads

LEMMA IdleRequest == B!Idle \in Requests /\ B!Idle.do = "idle" /\ ~B!Idle.alone /\ B!Idle.seen = B!Nothing
<1> DEFINE none == B!Nothing
<1>1. none \in Payloads
  BY PayloadIs DEF B!Nothing
<1>2. B!Idle = [do |-> "idle", kind |-> "none", trigger |-> "none", for |-> "none", value |-> 0,
        seen |-> none, ids |-> {}, base |-> 0, entry |-> 0, world |-> none, payload |-> none,
        before |-> none, whole |-> FALSE, resolve |-> FALSE, at |-> 0, alone |-> FALSE]
  BY DEF B!Idle
<1>3. {} \in IdSets /\ "none" \in Triggers /\ "none" \in Kinds
  BY DEF IdSets, Triggers, Occasions, Kinds
<1> HIDE DEF none
<1> QED
  BY <1>1, <1>2, <1>3 DEF Requests, none

\* The number of what is kept.
LEMMA CountedIs == \A set : B!Cardinality(set) = Cardinality(set)
BY DEF B!Cardinality, Cardinality

\* While nothing it mentions changes.
LEMMA SameIs ==
  ASSUME UNCHANGED <<config, history, made, slot, inslot>>
  PROVE  /\ \A p, r : RequestOK(p, r)' <=> RequestOK(p, r)
         /\ \A r : AloneOK(r)' <=> AloneOK(r)
         /\ B!Changes' = B!Changes /\ B!Fulls' = B!Fulls
         /\ \A s, v : Newest(s, v)' <=> Newest(s, v)
         /\ ScheduledOK' <=> ScheduledOK
<1>1. B!Changes' = B!Changes /\ B!Fulls' = B!Fulls /\ \A s : B!Holding(s)' = B!Holding(s)
  BY DEF B!Changes, B!Fulls, B!Holding
<1>2. \A s, v : Newest(s, v)' <=> Newest(s, v)
  BY <1>1 DEF Newest
<1>3. \A p, r : RequestOK(p, r)' <=> RequestOK(p, r)
  BY <1>1 DEF RequestOK
<1>4. \A r : AloneOK(r)' <=> AloneOK(r)
  BY <1>1, <1>2 DEF AloneOK
<1>5. ScheduledOK' <=> ScheduledOK
  BY <1>1 DEF ScheduledOK
<1> QED
  BY <1>1, <1>2, <1>3, <1>4, <1>5

LEMMA SoleIs ==
  ASSUME BackupInv, NEW p \in B!Processes, call[p].do # "idle", NEW q \in B!Processes, call[q].alone
  PROVE  q = p
BY DEF BackupInv, SoleOK

\* A request goes on or ends, and changes nothing else but the mark.
LEMMA MoveIs ==
  ASSUME BackupInv, NEW p \in B!Processes, call[p].do # "idle", NEW r \in Requests, RequestOK(p, r),
         r.alone => call[p].alone /\ AloneOK(r), call' = [call EXCEPT ![p] = r], marked' \in 0..slot,
         UNCHANGED <<setup, config, history, made, aged, slot, crashes, undo, inslot>>
  PROVE  BackupInv'
<1>1. /\ call' \in [B!Processes -> Requests] /\ DOMAIN call' = B!Processes
      /\ call'[p] = r /\ \A q \in B!Processes : q # p => call'[q] = call[q]
  BY DEF BackupInv, CallsOK
<1>2. B!TypeOK'
  BY <1>1 DEF BackupInv, B!TypeOK
<1>3. HistoryOK'
  BY SameIs DEF BackupInv, HistoryOK, B!SectionsFor
<1>4. CallsOK'
  BY <1>1, SameIs DEF BackupInv, CallsOK
<1>5. SoleOK'
  <2> SUFFICES ASSUME NEW q \in B!Processes, call'[q].alone
               PROVE  AloneOK(call[q])' /\ \A o \in B!Processes : o # q => call'[o].do = "idle"
    BY DEF SoleOK
  <2>1. CASE q = p
    <3>1. \A o \in B!Processes : o # p => call[o].do = "idle"
      BY <1>1, <2>1 DEF BackupInv, SoleOK
    <3> QED
      BY <1>1, <2>1, <3>1, SameIs
  <2>2. CASE q # p
    BY <1>1, <2>2, SoleIs
  <2> QED
    BY <2>1, <2>2
<1>6. UndosOK' /\ ScheduledOK'
  BY SameIs DEF BackupInv, UndosOK
<1> QED
  BY <1>2, <1>3, <1>4, <1>5, <1>6 DEF BackupInv

\* Whatever starts ends the solitude of the others.
LEMMA LonelyIs ==
  ASSUME NEW p, NEW r \in Requests, RequestOK(p, r)
  PROVE  /\ B!Lonely(r) \in Requests /\ RequestOK(p, B!Lonely(r)) /\ ~B!Lonely(r).alone
         /\ B!Lonely(r).do = r.do
<1>1. B!Lonely(r) \in Requests /\ ~B!Lonely(r).alone
  BY DEF Requests, B!Lonely
<1>2. /\ B!Lonely(r).do = r.do /\ B!Lonely(r).seen = r.seen /\ B!Lonely(r).trigger = r.trigger
      /\ B!Lonely(r).for = r.for /\ B!Lonely(r).kind = r.kind /\ B!Lonely(r).before = r.before
      /\ B!Lonely(r).at = r.at /\ B!Lonely(r).ids = r.ids
  BY DEF Requests, B!Lonely
<1>3. r.do = "idle" => B!Lonely(r) = r
  <2> SUFFICES ASSUME r = B!Idle PROVE B!Lonely(r) = r
    BY DEF RequestOK
  <2>1. r.alone = FALSE
    BY DEF B!Idle
  <2> QED
    BY <2>1 DEF B!Lonely, Requests
<1>4. RequestOK(p, B!Lonely(r))
  BY <1>2, <1>3 DEF RequestOK
<1> QED
  BY <1>1, <1>2, <1>4

LEMMA RequestBegins ==
  ASSUME BackupInv, NEW p \in B!Processes, NEW r \in Requests, RequestOK(p, r), r.do = "capture",
         r.seen = B!Nothing, B!Begin(p, r),
         UNCHANGED <<setup, config, history, made, aged, slot, marked, crashes, undo, inslot>>
  PROVE  BackupInv'
<1> DEFINE first == [r EXCEPT !.alone = (B!Active = {})]
<1>0. (B!Active = {}) \in BOOLEAN
  OBVIOUS
<1>1. first \in Requests /\ first.alone = (B!Active = {})
  BY <1>0 DEF Requests
<1>2. /\ first.do = r.do /\ first.seen = r.seen /\ first.trigger = r.trigger
      /\ first.for = r.for /\ first.kind = r.kind /\ first.before = r.before
      /\ first.at = r.at /\ first.ids = r.ids
  BY DEF Requests
<1>3. call' = [q \in B!Processes |-> IF q = p THEN first ELSE B!Lonely(call[q])]
  BY DEF B!Begin
<1> HIDE DEF first
<1>4. RequestOK(p, first) /\ AloneOK(first)
  BY <1>2 DEF RequestOK, AloneOK, B!Nothing
<1> PICK x : x = first
  OBVIOUS
<1>5. \A q \in B!Processes : q # p => /\ call'[q] \in Requests /\ RequestOK(q, call'[q])
                                     /\ ~call'[q].alone /\ call'[q].do = call[q].do
  BY <1>3, LonelyIs DEF BackupInv, CallsOK
<1>6. call'[p] = first /\ DOMAIN call' = B!Processes /\ call' \in [B!Processes -> Requests]
  BY <1>1, <1>3, <1>5
<1>7. B!TypeOK'
  BY <1>6 DEF BackupInv, B!TypeOK
<1>8. HistoryOK'
  BY SameIs DEF BackupInv, HistoryOK, B!SectionsFor
<1>9. CallsOK'
  BY <1>4, <1>5, <1>6, SameIs DEF CallsOK
<1>10. SoleOK'
  <2> SUFFICES ASSUME NEW q \in B!Processes, call'[q].alone
               PROVE  AloneOK(call[q])' /\ \A o \in B!Processes : o # q => call'[o].do = "idle"
    BY DEF SoleOK
  <2>0. q = p
    BY <1>5
  <2>1. B!Active = {}
    BY <1>1, <1>6, <2>0
  <2>2. \A o \in B!Processes : call[o].do = "idle"
    BY <2>1, IdleRequest DEF B!Active
  <2>3. AloneOK(x)'
    BY <1>4, SameIs
  <2> QED
    BY <1>5, <1>6, <2>0, <2>2, <2>3
<1>11. UndosOK' /\ ScheduledOK'
  BY SameIs DEF BackupInv, UndosOK
<1> QED
  BY <1>7, <1>8, <1>9, <1>10, <1>11 DEF BackupInv

LEMMA RecordingIs ==
  ASSUME NEW kind \in Kinds, NEW trigger \in Triggers,
         NEW for \in {"none", "change", "backup", "restore", "schedule", "mark"}
  PROVE  LET r == B!Recording(kind, trigger, for) IN
           /\ r \in Requests /\ r.do = "capture" /\ r.kind = kind /\ r.trigger = trigger /\ r.for = for
           /\ r.seen = B!Nothing /\ r.at = 0 /\ ~r.alone
<1> DEFINE r == B!Recording(kind, trigger, for)
<1>1. B!Idle \in Requests
  BY IdleRequest
<1>2. r \in Requests
  BY <1>1 DEF Requests, B!Recording
<1>3. /\ r.do = "capture" /\ r.kind = kind /\ r.trigger = trigger /\ r.for = for
      /\ r.seen = B!Idle.seen /\ r.at = B!Idle.at /\ r.alone = B!Idle.alone
  BY <1>1 DEF Requests, B!Recording
<1>4. B!Idle.at = 0
  BY DEF B!Idle
<1> QED
  BY <1>2, <1>3, <1>4, IdleRequest

LEMMA OccasionsAre ==
  /\ \A s \in B!Sections : s \notin Occasions
  /\ \A t \in Occasions : t \notin B!Sections
  /\ \A t : B!SectionsFor(t) \subseteq B!Sections
<1>1. \A s \in B!Sections : s \notin Occasions
  BY BackupAssumption DEF B!Sections
<1>2. \A t : B!SectionsFor(t) \subseteq B!Sections
  BY DEF B!SectionsFor
<1> QED
  BY <1>1, <1>2

LEMMA ChangeStarts ==
  ASSUME BackupInv, NEW b \in Editors, NEW s \in B!Sections, NEW v \in Values, B!Change(b, s, v)
  PROVE  BackupInv'
<1> DEFINE new == B!Recording("change", s, "change")
           r == [new EXCEPT !.value = v]
<1>1. /\ new \in Requests /\ new.do = "capture" /\ new.kind = "change" /\ new.trigger = s
      /\ new.for = "change" /\ new.seen = B!Nothing /\ new.at = 0
  BY RecordingIs DEF Kinds, Triggers
<1>2. B!Begin(b, r) /\ UNCHANGED <<setup, config, history, made, aged, slot, marked, crashes, undo, inslot>>
  BY DEF B!Change, B!clocks
<1> HIDE DEF new
<1>3. r \in Requests /\ r.do = "capture" /\ r.seen = B!Nothing
  BY <1>1 DEF Requests
<1>4. r.kind = "change" /\ r.trigger = s /\ r.for = "change" /\ r.at = 0
  BY <1>1 DEF Requests
<1> HIDE DEF r
<1>5. RequestOK(b, r)
  BY <1>3, <1>4 DEF RequestOK, BackupInv, B!TypeOK, B!Nothing
<1> QED
  BY <1>2, <1>3, <1>5, RequestBegins DEF B!Processes

\* The others that read every section.
LEMMA OccasionStarts ==
  ASSUME BackupInv, NEW b \in Editors, NEW kind \in {"change", "full"},
         NEW trigger \in {"manual", "baseline", "backup.schedule"}, NEW for \in {"backup", "schedule"},
         B!Begin(b, B!Recording(kind, trigger, for)),
         UNCHANGED <<setup, config, history, made, aged, slot, marked, crashes, undo, inslot>>
  PROVE  BackupInv'
<1> DEFINE r == B!Recording(kind, trigger, for)
<1>1. /\ r \in Requests /\ r.do = "capture" /\ r.kind = kind /\ r.trigger = trigger
      /\ r.for = for /\ r.seen = B!Nothing /\ r.at = 0
  BY RecordingIs DEF Kinds, Triggers, Occasions
<1>2. B!Begin(b, r)
  OBVIOUS
<1> HIDE DEF r
<1>3. RequestOK(b, r)
  BY <1>1 DEF RequestOK, BackupInv, B!TypeOK, B!Nothing
<1> QED
  BY <1>1, <1>2, <1>3, RequestBegins DEF B!Processes

LEMMA RestoreStarts ==
  ASSUME BackupInv, NEW b \in Editors, NEW id \in 1..made, NEW whole \in BOOLEAN, B!Restore(b, id, whole)
  PROVE  BackupInv'
<1> DEFINE new == B!Recording("change", "restore", "restore")
           e == history[id]
           change == e.kind = "change"
           all0 == whole \/ ~change
           again0 == whole /\ change
           r == [new EXCEPT !.entry = id, !.payload = e.payload, !.world = e.world, !.whole = all0,
                            !.resolve = again0]
<1>1. /\ new \in Requests /\ new.do = "capture" /\ new.kind = "change" /\ new.trigger = "restore"
      /\ new.for = "restore" /\ new.seen = B!Nothing /\ new.at = 0
  BY RecordingIs DEF Kinds, Triggers, Occasions
<1>2. B!Begin(b, r) /\ UNCHANGED <<setup, config, history, made, aged, slot, marked, crashes, undo, inslot>>
  BY DEF B!Restore, B!clocks, B!ghosts
<1>3. e.payload \in Payloads /\ e.world \in Payloads /\ all0 \in BOOLEAN /\ again0 \in BOOLEAN /\ id \in Nat
  <2>1. e \in Backups
    BY DEF BackupInv, HistoryOK, B!Restore
  <2>2. id \in Nat
    BY DEF BackupInv, B!TypeOK
  <2> QED
    BY <2>1, <2>2 DEF Backups
<1> HIDE DEF new, e, change, all0, again0
<1>4. r \in Requests /\ r.do = "capture" /\ r.seen = B!Nothing
  BY <1>1, <1>3 DEF Requests
<1>5. r.kind = "change" /\ r.trigger = "restore" /\ r.for = "restore" /\ r.at = 0
  BY <1>1 DEF Requests
<1> HIDE DEF r
<1>6. RequestOK(b, r)
  BY <1>4, <1>5 DEF RequestOK, BackupInv, B!TypeOK, B!Nothing
<1> QED
  BY <1>2, <1>4, <1>6, RequestBegins DEF B!Processes

LEMMA DueIs ==
  ASSUME BackupInv, B!Due
  PROVE  BackupInv'
<1> DEFINE done == \E i \in B!Fulls : B!IsLast(i, B!Fulls) /\ history[i].slot = slot /\ history[i].trigger = "schedule"
           new == B!Recording("full", "schedule", "mark")
           r == [new EXCEPT !.at = slot]
<1>1. UNCHANGED <<setup, config, history, made, aged, slot, crashes, undo, inslot>> /\ slot \in Nat
  BY DEF B!Due, B!ghosts, BackupInv, B!TypeOK
<1>2. CASE done
  <2>1. marked' = slot /\ call' = call
    BY <1>2 DEF B!Due
  <2>2. B!TypeOK'
    BY <1>1, <2>1 DEF BackupInv, B!TypeOK
  <2>3. HistoryOK'
    BY <1>1, SameIs DEF BackupInv, HistoryOK, B!SectionsFor
  <2>4. CallsOK' /\ SoleOK' /\ UndosOK' /\ ScheduledOK'
    BY <1>1, <2>1, SameIs DEF BackupInv, CallsOK, SoleOK, UndosOK
  <2> QED
    BY <2>2, <2>3, <2>4 DEF BackupInv
<1>3. CASE ~done
  <2>1. B!Begin(Ticker, r) /\ marked' = marked
    BY <1>3 DEF B!Due
  <2>2. inslot = 0
    BY <1>3 DEF BackupInv, ScheduledOK
  <2>3. /\ new \in Requests /\ new.do = "capture" /\ new.kind = "full" /\ new.trigger = "schedule"
        /\ new.for = "mark" /\ new.seen = B!Nothing
    BY RecordingIs DEF Kinds, Triggers, Occasions
  <2> HIDE DEF new
  <2>4. /\ r \in Requests /\ r.do = "capture" /\ r.seen = B!Nothing
        /\ r.kind = "full" /\ r.trigger = "schedule" /\ r.for = "mark" /\ r.at = slot
    BY <1>1, <2>3 DEF Requests
  <2> HIDE DEF r, done
  <2>5. RequestOK(Ticker, r)
    BY <1>1, <2>2, <2>4 DEF RequestOK, B!Nothing
  <2> QED
    BY <1>1, <2>1, <2>4, <2>5, RequestBegins DEF B!Processes
<1> QED
  BY <1>2, <1>3

LEMMA CaptureIs ==
  ASSUME BackupInv, NEW p \in B!Processes, B!Capture(p)
  PROVE  BackupInv'
<1>1. PICK i \in DOMAIN Layout :
        /\ Layout[i] \in B!Unread(p)
        /\ call' = [call EXCEPT ![p] = [call[p] EXCEPT
                      !.seen = [s \in DOMAIN call[p].seen \cup {Layout[i]} |->
                                  IF s = Layout[i] THEN config[s] ELSE call[p].seen[s]]]]
  BY DEF B!Capture, B!Becomes
<1>2. /\ UNCHANGED <<setup, config, history, made, aged, slot, marked, crashes, undo, inslot>>
      /\ call[p].do = "capture" /\ call[p] \in Requests /\ RequestOK(p, call[p])
      /\ marked \in 0..slot /\ config \in [B!Sections -> Values \cup {0}]
  BY DEF B!Capture, B!clocks, B!ghosts, B!Does, BackupInv, CallsOK, B!TypeOK
<1> DEFINE now0 == Layout[i]
           new == [s \in DOMAIN call[p].seen \cup {now0} |-> IF s = now0 THEN config[s] ELSE call[p].seen[s]]
           r == [call[p] EXCEPT !.seen = new]
<1>3. now0 \in B!SectionsFor(call[p].trigger) /\ now0 \in B!Sections
  BY <1>1, OccasionsAre DEF B!Unread
<1>4. call[p].seen \in Payloads
  BY <1>2 DEF Requests
<1>5. new \in Payloads /\ DOMAIN new = DOMAIN call[p].seen \cup {now0}
  BY <1>2, <1>3, <1>4, PayloadOf, PayloadIs
<1>6. call[p].alone => \A s \in DOMAIN new : new[s] = config[s]
  BY <1>2 DEF BackupInv, SoleOK, AloneOK
<1>7. call' = [call EXCEPT ![p] = r]
  BY <1>1
<1> HIDE DEF new, now0
<1>8. r \in Requests
  BY <1>2, <1>5 DEF Requests
<1>9. /\ r.seen = new /\ r.do = "capture" /\ r.kind = call[p].kind /\ r.trigger = call[p].trigger
      /\ r.for = call[p].for /\ r.at = call[p].at /\ r.alone = call[p].alone
  BY <1>2 DEF Requests
<1> HIDE DEF r
<1>10. RequestOK(p, r)
  BY <1>2, <1>3, <1>5, <1>9 DEF RequestOK
<1>11. r.alone => call[p].alone /\ AloneOK(r)
  BY <1>6, <1>9 DEF AloneOK
<1> QED
  BY <1>2, <1>7, <1>8, <1>10, <1>11, MoveIs

\* What is recorded of what was seen.
LEMMA ScopedIs ==
  ASSUME NEW seen0 \in Payloads, NEW trigger, DOMAIN seen0 = B!SectionsFor(trigger)
  PROVE  /\ B!Scoped(seen0, trigger) \in Payloads
         /\ DOMAIN B!Scoped(seen0, trigger) = {s \in DOMAIN seen0 : seen0[s] # 0}
         /\ \A s \in DOMAIN B!Scoped(seen0, trigger) : B!Scoped(seen0, trigger)[s] = seen0[s]
<1>1. /\ DOMAIN B!Scoped(seen0, trigger) = {s \in DOMAIN seen0 : seen0[s] # 0}
      /\ \A s \in DOMAIN B!Scoped(seen0, trigger) : B!Scoped(seen0, trigger)[s] = seen0[s]
  BY DEF B!Scoped
<1>2. B!Scoped(seen0, trigger) \in [DOMAIN B!Scoped(seen0, trigger) -> Values \cup {0}]
  BY PayloadOf DEF B!Scoped
<1> QED
  BY <1>1, <1>2, PayloadOf, PayloadIs

\* The entries that are dropped are all after one that records the same.
LEMMA RedundantIs ==
  ASSUME HistoryOK, made \in Nat, aged \in Nat, NEW trigger, NEW payload,
         B!Redundant(trigger, payload) # {}
  PROVE  /\ B!Redundant(trigger, payload) \subseteq B!Changes
         /\ \A i \in B!Redundant(trigger, payload) : history[i].trigger = trigger
         /\ \E j \in B!Changes \ B!Redundant(trigger, payload) :
              /\ history[j].payload = payload
              /\ \A i \in B!Changes : i > j => i \in B!Redundant(trigger, payload)
<1>1. B!Changes \subseteq Nat
  BY DEF HistoryOK, B!Changes
<1>2. B!Streak(trigger) \subseteq B!Changes /\ \A i \in B!Streak(trigger) : history[i].trigger = trigger
  BY <1>1 DEF B!Streak
<1>3. PICK i \in B!Streak(trigger), j \in B!Equal(trigger, payload) : j < i /\ B!IsLast(j, B!Equal(trigger, payload))
  BY DEF B!Redundant
<1>4. j \in B!Streak(trigger) /\ history[j].payload = payload /\ j \in B!Changes /\ j \in Nat
  BY <1>1, <1>2, <1>3 DEF B!Equal
<1>5. ASSUME NEW k \in B!Changes, k > j
      PROVE  k \in B!Redundant(trigger, payload)
  <2>1. k \in Nat
    BY <1>1
  <2>2. k > aged /\ \A o \in B!Changes : o >= k => history[o].trigger = trigger
    BY <1>1, <1>4, <1>5, <2>1 DEF B!Streak
  <2>3. k \in B!Streak(trigger)
    BY <2>2 DEF B!Streak
  <2> QED
    BY <1>3, <1>4, <1>5, <2>1, <2>3 DEF B!Redundant
<1>6. j \notin B!Redundant(trigger, payload)
  <2> SUFFICES ASSUME NEW o \in B!Equal(trigger, payload), o < j, B!IsLast(o, B!Equal(trigger, payload))
               PROVE  FALSE
    BY DEF B!Redundant
  <2>1. j <= o
    BY <1>3 DEF B!IsLast
  <2>2. o \in Nat
    BY <1>1, <1>2 DEF B!Equal
  <2> QED
    BY <1>4, <2>1, <2>2
<1> QED
  BY <1>2, <1>4, <1>5, <1>6 DEF B!Redundant

\* The latest full backup is one.
LEMMA FullsAre ==
  ASSUME HistoryOK, made \in Nat
  PROVE  /\ B!LatestFull \in Nat /\ B!Fulls \subseteq Nat /\ IsFiniteSet(B!Fulls)
         /\ B!Changes \subseteq Nat /\ IsFiniteSet(B!Changes)
<1>1. IsFiniteSet(1..made)
  BY FS_Interval
<1>2. B!Fulls \in SUBSET (1..made) /\ B!Changes \in SUBSET (1..made)
  BY DEF HistoryOK, B!Fulls, B!Changes
<1>3. IsFiniteSet(B!Fulls) /\ IsFiniteSet(B!Changes)
  BY <1>1, <1>2, FS_Subset
<1>4. B!Fulls \subseteq Nat /\ B!Changes \subseteq Nat
  BY <1>2
<1> QED
  BY <1>3, <1>4, LastIs DEF B!LatestFull

LEMMA DecideIs ==
  ASSUME BackupInv, NEW p \in B!Processes, B!Decide(p)
  PROVE  BackupInv'
<1> DEFINE old == call[p]
           payload == B!Scoped(old.seen, old.trigger)
           drop == IF old.kind = "change" THEN B!Redundant(old.trigger, payload) ELSE {}
<1>1. /\ UNCHANGED <<setup, config, history, made, aged, slot, marked, crashes, undo, inslot>>
      /\ old.do = "capture" /\ old \in Requests /\ RequestOK(p, old) /\ B!Unread(p) = {}
      /\ marked \in 0..slot /\ made \in Nat /\ aged \in Nat /\ HistoryOK
      /\ call' = [call EXCEPT ![p] = IF drop # {} THEN [old EXCEPT !.do = "drop", !.ids = drop]
                                     ELSE [old EXCEPT !.do = "insert", !.base = B!LatestFull]]
  BY DEF B!Decide, B!Becomes, B!clocks, B!ghosts, B!Does, BackupInv, CallsOK, B!TypeOK
<1>2. DOMAIN old.seen = B!SectionsFor(old.trigger)
  BY <1>1 DEF B!Unread, RequestOK
<1>3. old.alone => \A s \in DOMAIN old.seen : old.seen[s] = config[s]
  BY <1>1 DEF BackupInv, SoleOK, AloneOK
<1>4. CASE drop # {}
  <2> DEFINE r == [old EXCEPT !.do = "drop", !.ids = drop]
  <2>1. call' = [call EXCEPT ![p] = r]
    BY <1>1, <1>4
  <2>2. drop = B!Redundant(old.trigger, payload)
    BY <1>4
  <2> HIDE DEF drop, payload
  <2>3. /\ drop \subseteq B!Changes /\ \A i \in drop : history[i].trigger = old.trigger
        /\ \E j \in B!Changes \ drop : /\ history[j].payload = payload
                                       /\ \A i \in B!Changes : i > j => i \in drop
    BY <1>1, <1>4, <2>2, RedundantIs
  <2>4. drop \in IdSets
    BY <1>1, <2>3, FullsAre DEF IdSets
  <2> HIDE DEF old
  <2>9. \A i \in drop : i <= made
    BY <1>1, <2>3 DEF HistoryOK, B!Changes
  <2>5. r \in Requests
    BY <1>1, <2>4 DEF Requests
  <2>6. /\ r.do = "drop" /\ r.ids = drop /\ r.seen = old.seen /\ r.kind = old.kind /\ r.trigger = old.trigger
        /\ r.for = old.for /\ r.at = old.at /\ r.alone = old.alone
    BY <1>1 DEF Requests
  <2> HIDE DEF r
  <2>7. RequestOK(p, r)
    BY <1>1, <1>2, <2>3, <2>6, <2>9 DEF RequestOK
  <2>8. r.alone => old.alone /\ AloneOK(r)
    BY <1>3, <2>3, <2>6 DEF AloneOK, payload
  <2> QED
    BY <1>1, <2>1, <2>5, <2>7, <2>8, MoveIs DEF old
<1>5. CASE drop = {}
  <2> DEFINE r == [old EXCEPT !.do = "insert", !.base = B!LatestFull]
  <2>1. call' = [call EXCEPT ![p] = r]
    BY <1>1, <1>5
  <2> HIDE DEF drop, payload
  <2>2. B!LatestFull \in Nat
    BY <1>1, FullsAre
  <2> HIDE DEF old
  <2>3. r \in Requests
    BY <1>1, <2>2 DEF Requests
  <2>4. /\ r.do = "insert" /\ r.seen = old.seen /\ r.kind = old.kind /\ r.trigger = old.trigger
        /\ r.for = old.for /\ r.at = old.at /\ r.alone = old.alone
    BY <1>1 DEF Requests
  <2> HIDE DEF r
  <2>5. RequestOK(p, r)
    BY <1>1, <1>2, <2>4 DEF RequestOK
  <2>6. r.alone => old.alone /\ AloneOK(r)
    BY <1>3, <2>4 DEF AloneOK
  <2> QED
    BY <1>1, <2>1, <2>3, <2>5, <2>6, MoveIs DEF old
<1> QED
  BY <1>4, <1>5

LEMMA EndIs ==
  ASSUME BackupInv, NEW p \in B!Processes, call[p].do # "idle", B!End(p), marked' \in 0..slot,
         UNCHANGED <<setup, config, history, made, aged, slot, crashes, undo, inslot>>
  PROVE  BackupInv'
<1>1. call' = [call EXCEPT ![p] = B!Idle]
  BY DEF B!End, B!Becomes
<1>2. B!Idle.at = 0 /\ B!Idle.for = "none" /\ B!Idle.kind = "none" /\ B!Idle.ids = {}
  BY DEF B!Idle
<1>3. RequestOK(p, B!Idle)
  BY <1>2, IdleRequest DEF RequestOK, B!Nothing, BackupInv, B!TypeOK
<1> QED
  BY <1>1, <1>3, IdleRequest, MoveIs

LEMMA EndsAre ==
  ASSUME BackupInv,
         \/ \E b \in Editors : B!BackedUp(b) \/ B!SaveSchedule(b)
         \/ B!Mark
  PROVE  BackupInv'
<1>1. marked \in 0..slot /\ slot \in Nat /\ \A p \in B!Processes : call[p].at \in 0..slot
  <2>1. \A p \in B!Processes : call[p] \in Requests /\ call[p].at <= slot
    BY DEF BackupInv, CallsOK, RequestOK
  <2> QED
    BY <2>1 DEF BackupInv, B!TypeOK, Requests
<1>2. ASSUME NEW b \in Editors, B!BackedUp(b) PROVE BackupInv'
  BY <1>1, <1>2, EndIs DEF B!BackedUp, B!Does, B!clocks, B!ghosts, B!Processes
<1>3. ASSUME NEW b \in Editors, B!SaveSchedule(b) PROVE BackupInv'
  BY <1>1, <1>3, EndIs DEF B!SaveSchedule, B!Does, B!ghosts, B!Processes
<1>4. ASSUME B!Mark PROVE BackupInv'
  BY <1>1, <1>4, EndIs DEF B!Mark, B!Does, B!ghosts, B!Processes
<1> QED
  BY <1>2, <1>3, <1>4

LEMMA ReadScheduleIs ==
  ASSUME BackupInv, NEW b \in Editors, B!ReadSchedule(b)
  PROVE  BackupInv'
<1> DEFINE r == [call[b] EXCEPT !.do = "save", !.at = marked]
<1>1. /\ UNCHANGED <<setup, config, history, made, aged, slot, marked, crashes, undo, inslot>>
      /\ b \in B!Processes /\ call[b].do = "apply" /\ call[b].for = "schedule" /\ call[b] \in Requests
      /\ RequestOK(b, call[b]) /\ call' = [call EXCEPT ![b] = r]
  BY DEF B!ReadSchedule, B!Becomes, B!clocks, B!ghosts, B!Does, BackupInv, CallsOK, B!Processes
<1>0. marked \in 0..slot /\ slot \in Nat /\ marked \in Nat
  BY DEF BackupInv, B!TypeOK
<1>2. r \in Requests
  BY <1>0, <1>1 DEF Requests
<1>3. /\ r.do = "save" /\ r.seen = call[b].seen /\ r.kind = call[b].kind /\ r.trigger = call[b].trigger
      /\ r.for = "schedule" /\ r.at = marked /\ r.alone = call[b].alone
  BY <1>0, <1>1 DEF Requests
<1> HIDE DEF r
<1>4. RequestOK(b, r)
  BY <1>0, <1>1, <1>3 DEF RequestOK
<1>5. r.alone => call[b].alone /\ AloneOK(r)
  BY <1>3 DEF AloneOK
<1> QED
  BY <1>0, <1>1, <1>2, <1>4, <1>5, MoveIs

\* What the entries up to a change make of the configuration.
LEMMA AtChangeIs ==
  ASSUME HistoryOK, made \in Nat, NEW id \in DOMAIN history
  PROVE  B!AtChange(id) \in Payloads
<1> DEFINE before == {i \in B!Fulls : i < id}
           base == IF history[id].base \in B!Fulls THEN history[id].base ELSE B!Latest(before)
           since(s) == {i \in B!Holding(s) : base < i /\ i <= id}
           names == DOMAIN history[base].payload \cup {t \in B!Sections : since(t) # {}}
           whole == [s \in names |-> IF since(s) = {} THEN history[base].payload[s]
                                     ELSE history[B!Latest(since(s))].payload[s]]
<1>1. \A i \in DOMAIN history : history[i] \in Backups /\ history[i].payload \in Payloads
  BY DEF HistoryOK, Backups
<1>2. CASE history[id].base \notin B!Fulls /\ before = {}
  BY <1>1, <1>2, Zenon DEF B!AtChange
<1>3. CASE ~(history[id].base \notin B!Fulls /\ before = {})
  <2>1. B!AtChange(id) = whole
    BY <1>3, Zenon DEF B!AtChange
  <2>2. base \in DOMAIN history
    <3>1. before \in SUBSET B!Fulls
      OBVIOUS
    <3>2. before \subseteq Nat /\ IsFiniteSet(before)
      BY <3>1, FullsAre, FS_Subset
    <3> HIDE DEF before
    <3>3. before # {} => B!Latest(before) \in B!Fulls
      BY <3>1, <3>2, LastIs
    <3>4. base \in B!Fulls
      BY <1>3, <3>3
    <3> QED
      BY <3>4 DEF B!Fulls
  <2> HIDE DEF before, base
  <2>3. ASSUME NEW s, since(s) # {}
        PROVE  B!Latest(since(s)) \in B!Holding(s)
    <3>1. since(s) \in SUBSET B!Changes /\ since(s) \subseteq B!Holding(s)
      BY DEF B!Holding
    <3>2. since(s) \subseteq Nat /\ IsFiniteSet(since(s))
      BY <3>1, FullsAre, FS_Subset
    <3> HIDE DEF since
    <3> QED
      BY <2>3, <3>1, <3>2, LastIs
  <2>4. history[base].payload \in Payloads
    BY <1>1, <2>2
  <2>5. ASSUME NEW s \in names
        PROVE  s \in B!Sections /\ whole[s] \in Values \cup {0}
    <3>1. CASE since(s) = {}
      BY <2>4, <3>1, PayloadOf
    <3>2. CASE since(s) # {}
      <4>1. /\ B!Latest(since(s)) \in DOMAIN history
            /\ s \in DOMAIN history[B!Latest(since(s))].payload
        BY <2>3, <3>2 DEF B!Holding, B!Changes
      <4>2. history[B!Latest(since(s))].payload \in Payloads
        BY <1>1, <4>1
      <4>3. s \in B!Sections /\ history[B!Latest(since(s))].payload[s] \in Values \cup {0}
        BY <4>1, <4>2, PayloadOf
      <4>4. whole[s] = history[B!Latest(since(s))].payload[s]
        BY <3>2
      <4> QED
        BY <4>3, <4>4
    <3> QED
      BY <3>1, <3>2
  <2>6. DOMAIN whole = names /\ whole = [s \in names |-> whole[s]]
    OBVIOUS
  <2> HIDE DEF whole, names
  <2>7. whole \in [DOMAIN whole -> Values \cup {0}] /\ DOMAIN whole \subseteq B!Sections
    BY <2>5, <2>6
  <2> QED
    BY <2>1, <2>7, PayloadIs
<1> QED
  BY <1>2, <1>3

LEMMA LookupIs ==
  ASSUME BackupInv, NEW b \in Editors, B!Lookup(b)
  PROVE  BackupInv'
<1> DEFINE old == call[b]
           found0 == IF old.resolve THEN B!AtChange(old.entry) ELSE old.payload
           r == [old EXCEPT !.do = "files", !.payload = found0]
<1>1. /\ UNCHANGED <<setup, config, history, made, aged, slot, marked, crashes, undo, inslot>>
      /\ b \in B!Processes /\ old.do = "apply" /\ old.for = "restore" /\ old \in Requests
      /\ RequestOK(b, old) /\ marked \in 0..slot /\ made \in Nat /\ HistoryOK
  BY DEF B!Lookup, B!clocks, B!ghosts, B!Does, BackupInv, CallsOK, B!TypeOK, B!Processes
<1>2. CASE old.resolve /\ old.entry \notin DOMAIN history
  BY <1>1, <1>2, EndIs DEF B!Lookup
<1>3. CASE ~(old.resolve /\ old.entry \notin DOMAIN history)
  <2>1. call' = [call EXCEPT ![b] = r]
    BY <1>3 DEF B!Lookup, B!Becomes
  <2>2. found0 \in Payloads
    BY <1>1, <1>3, AtChangeIs DEF Requests
  <2>3. old.alone => /\ \A s \in DOMAIN old.seen : old.seen[s] = config[s]
                     /\ old.kind = "change" => \A s \in DOMAIN old.seen : Newest(s, old.seen[s])
    BY <1>1 DEF BackupInv, SoleOK, AloneOK
  <2> HIDE DEF found0, old
  <2>4. r \in Requests
    BY <1>1, <2>2 DEF Requests
  <2>5. /\ r.do = "files" /\ r.seen = old.seen /\ r.kind = old.kind /\ r.trigger = old.trigger
        /\ r.for = "restore" /\ r.at = old.at /\ r.alone = old.alone
    BY <1>1 DEF Requests
  <2> HIDE DEF r
  <2>6. RequestOK(b, r)
    BY <1>1, <2>5 DEF RequestOK
  <2>7. r.alone => old.alone /\ AloneOK(r)
    BY <2>3, <2>5 DEF AloneOK
  <2> QED
    BY <1>1, <2>1, <2>4, <2>6, <2>7, MoveIs DEF old
<1> QED
  BY <1>2, <1>3

LEMMA DropIs ==
  ASSUME BackupInv, NEW p \in B!Processes, B!Drop(p)
  PROVE  BackupInv'
<1> DEFINE old == call[p]
           r == [old EXCEPT !.do = "apply"]
<1>1. /\ UNCHANGED <<setup, config, made, aged, slot, marked, crashes, inslot>>
      /\ old.do = "drop" /\ old \in Requests /\ RequestOK(p, old) /\ made \in Nat
      /\ HistoryOK /\ DOMAIN old.seen = B!SectionsFor(old.trigger)
      /\ call' = [call EXCEPT ![p] = r] /\ history' = B!Without(old.ids)
      /\ undo' = B!Superseded(old.trigger)
  BY DEF B!Drop, B!Becomes, B!clocks, B!Does, BackupInv, CallsOK, B!TypeOK, RequestOK
<1>2. \A i \in old.ids \cap DOMAIN history : i \in B!Changes /\ history[i].trigger = old.trigger
  BY <1>1 DEF RequestOK
<1>3. /\ DOMAIN history' = DOMAIN history \ old.ids /\ \A i \in DOMAIN history' : history'[i] = history[i]
      /\ history' = [i \in DOMAIN history' |-> history'[i]]
  BY <1>1 DEF B!Without
<1>4. B!Changes' = B!Changes \ old.ids /\ B!Fulls' = B!Fulls
  BY <1>2, <1>3 DEF B!Changes, B!Fulls
<1>5. \A s \in B!Sections \ B!SectionsFor(old.trigger) : B!Holding(s)' = B!Holding(s)
  <2> TAKE s \in B!Sections \ B!SectionsFor(old.trigger)
  <2>1. \A i \in B!Changes \cap old.ids : s \notin DOMAIN history[i].payload
    <3> TAKE i \in B!Changes \cap old.ids
    <3>1. history[i].trigger = old.trigger
      BY <1>2 DEF B!Changes
    <3>2. DOMAIN history[i].payload \subseteq B!SectionsFor(old.trigger)
      BY <1>1, <3>1 DEF HistoryOK
    <3> QED
      BY <3>2
  <2> QED
    BY <1>3, <1>4, <2>1 DEF B!Holding, B!Changes
<1>6. HistoryOK'
  BY <1>1, <1>3, <1>4 DEF HistoryOK, B!SectionsFor, B!Changes
<1>7. /\ r \in Requests /\ r.do = "apply" /\ r.seen = old.seen /\ r.kind = old.kind /\ r.trigger = old.trigger
      /\ r.for = old.for /\ r.at = old.at /\ r.alone = old.alone
  BY <1>1 DEF Requests
<1>8. old.alone => /\ \A s \in DOMAIN old.seen : old.seen[s] = config[s]
                   /\ \E j \in B!Changes \ old.ids :
                        /\ history[j].payload = B!Scoped(old.seen, old.trigger)
                        /\ \A i \in B!Changes : i > j => i \in old.ids
  BY <1>1 DEF BackupInv, SoleOK, AloneOK
<1>9. old.seen \in Payloads /\ old.ids \in IdSets
  BY <1>1 DEF Requests
<1>10. \A q \in B!Processes : q # p => call'[q] = call[q]
  BY <1>1 DEF BackupInv, CallsOK
<1>11. call'[p] = r /\ call' \in [B!Processes -> Requests]
  BY <1>1, <1>7 DEF BackupInv, CallsOK
<1>12. B!TypeOK'
  <2>1. undo' \in [B!Sections -> [was : Values \cup {0}, alone : BOOLEAN]]
    BY <1>1 DEF B!Superseded, B!NoUndo, BackupInv, B!TypeOK
  <2>2. DOMAIN history' \subseteq 1..made /\ \A i \in DOMAIN history' : DOMAIN history'[i].payload \subseteq B!Sections
    BY <1>3 DEF BackupInv, B!TypeOK
  <2> QED
    BY <1>1, <1>11, <2>1, <2>2 DEF BackupInv, B!TypeOK
<1> HIDE DEF old, r
<1>13. CallsOK'
  <2> SUFFICES ASSUME NEW q \in B!Processes PROVE RequestOK(q, call[q])'
    BY <1>11 DEF CallsOK
  <2>1. RequestOK(q, call[q])
    BY DEF BackupInv, CallsOK
  <2>2. CASE q = p
    BY <1>1, <1>7, <1>11, <2>2 DEF RequestOK, B!SectionsFor
  <2>3. CASE q # p
    <3>1. call'[q] = call[q]
      BY <1>10, <2>3
    <3>2. call[q].do = "drop" =>
            \A i \in call[q].ids \cap DOMAIN history' :
              i \in B!Changes' /\ history'[i].trigger = call[q].trigger
      BY <1>3, <1>4, <2>1 DEF RequestOK
    <3> QED
      BY <1>1, <2>1, <3>1, <3>2 DEF RequestOK, B!SectionsFor
  <2> QED
    BY <2>2, <2>3
<1>14. SoleOK'
  <2> SUFFICES ASSUME NEW q \in B!Processes, call'[q].alone
               PROVE  AloneOK(call[q])' /\ \A o \in B!Processes : o # q => call'[o].do = "idle"
    BY DEF SoleOK
  <2>1. q = p /\ old.alone
    BY <1>1, <1>7, <1>10, <1>11, SoleIs DEF old
  <2>2. \A o \in B!Processes : o # q => call'[o].do = "idle"
    BY <1>10, <2>1 DEF BackupInv, SoleOK, old
  <2>3. PICK j \in B!Changes \ old.ids :
          /\ history[j].payload = B!Scoped(old.seen, old.trigger)
          /\ \A i \in B!Changes : i > j => i \in old.ids
    BY <1>8, <2>1
  <2>4. ASSUME NEW s \in DOMAIN old.seen, NEW v, v = old.seen[s] PROVE Newest(s, v)'
    <3> SUFFICES ASSUME v # 0, NEW i \in B!Holding(s)', \A k \in B!Holding(s)' : k <= i
                 PROVE  history'[i].payload[s] = v
      BY DEF Newest, B!IsLast
    <3>1. j \in B!Changes' /\ history'[j].payload = history[j].payload
      BY <1>3, <1>4, <2>3 DEF B!Changes
    <3>2. s \in DOMAIN history[j].payload /\ history[j].payload[s] = v
      <4>1. /\ DOMAIN B!Scoped(old.seen, old.trigger) = {t \in DOMAIN old.seen : old.seen[t] # 0}
            /\ \A t \in DOMAIN B!Scoped(old.seen, old.trigger) :
                 B!Scoped(old.seen, old.trigger)[t] = old.seen[t]
        BY <1>1, <1>9, ScopedIs DEF old
      <4> QED
        BY <2>3, <2>4, <4>1
    <3>3. j \in B!Holding(s)'
      BY <3>1, <3>2 DEF B!Holding
    <3>4. j <= i /\ i \in B!Changes'
      BY <3>3 DEF B!Holding
    <3>5. i \in Nat /\ j \in Nat /\ ~(i > j)
      BY <1>1, <1>4, <2>3, <3>4, FullsAre
    <3> QED
      BY <3>1, <3>2, <3>4, <3>5
  <2> QED
    BY <1>1, <1>7, <1>8, <1>11, <2>1, <2>2, <2>4 DEF AloneOK
<1>15. UndosOK'
  <2> SUFFICES ASSUME NEW s \in B!Sections, undo'[s].alone PROVE Newest(s, undo[s].was)'
    BY DEF UndosOK
  <2>1. s \notin B!SectionsFor(old.trigger) /\ undo'[s] = undo[s]
    BY <1>1 DEF B!Superseded, B!NoUndo
  <2>2. Newest(s, undo[s].was)
    BY <2>1 DEF BackupInv, UndosOK
  <2>3. \A i \in B!Holding(s) : history'[i] = history[i]
    BY <1>3, <1>5, <2>1 DEF B!Holding, B!Changes
  <2> QED
    BY <1>5, <2>1, <2>2, <2>3 DEF Newest
<1>16. ScheduledOK'
  <2>1. \A i \in B!Fulls : history'[i] = history[i]
    BY <1>3, <1>4 DEF B!Fulls
  <2> QED
    BY <1>1, <1>4, <2>1 DEF BackupInv, ScheduledOK
<1> QED
  BY <1>6, <1>12, <1>13, <1>14, <1>15, <1>16 DEF BackupInv

\* What remains of the newest when the oldest are dropped.
LEMMA RemainIs ==
  ASSUME HistoryOK, made \in Nat, NEW kept, history' = [i \in kept |-> history[i]],
         kept \subseteq DOMAIN history,
         \A i, k \in B!Changes : i < k /\ i \in kept => k \in kept
  PROVE  \A s, v : Newest(s, v) => Newest(s, v)'
<1>1. B!Changes' = B!Changes \cap kept /\ \A i \in kept : history'[i] = history[i]
  BY DEF B!Changes
<1>2. B!Changes \subseteq Nat
  BY FullsAre
<1> SUFFICES ASSUME NEW s, NEW v, Newest(s, v), v # 0, NEW i \in B!Holding(s)', \A k \in B!Holding(s)' : k <= i
             PROVE  history'[i].payload[s] = v
  BY DEF Newest, B!IsLast
<1>3. B!Holding(s)' = B!Holding(s) \cap kept
  BY <1>1 DEF B!Holding
<1>4. i \in B!Holding(s) /\ i \in kept /\ history'[i] = history[i]
  BY <1>1, <1>3
<1>5. ASSUME NEW k \in B!Holding(s) PROVE k <= i
  <2>1. k \in B!Changes /\ i \in B!Changes /\ k \in Nat /\ i \in Nat
    BY <1>2, <1>4 DEF B!Holding
  <2>2. i < k => k \in B!Holding(s)'
    BY <1>3, <1>4, <2>1
  <2> QED
    BY <2>1, <2>2
<1> QED
  BY <1>4, <1>5 DEF Newest, B!IsLast

\* The oldest are dropped: never a newer one without an older one, and never all.
LEMMA ExcessIs ==
  ASSUME BackupInv, NEW kind
  PROVE  /\ kind = "change" => /\ B!Excess(kind) \subseteq B!Changes
                               /\ \A i, k \in B!Changes : i < k /\ k \in B!Excess(kind) => i \in B!Excess(kind)
         /\ kind # "change" => /\ B!Excess(kind) \subseteq B!Fulls
                               /\ \A i \in B!Excess(kind) : ~B!IsLast(i, B!Fulls)
<1>1. /\ HistoryOK /\ made \in Nat /\ setup.changes \in Nat /\ setup.fulls \in Nat \ {0}
  BY BackupAssumption DEF BackupInv, B!TypeOK
<1>2. /\ B!Changes \subseteq Nat /\ IsFiniteSet(B!Changes) /\ B!Fulls \subseteq Nat /\ IsFiniteSet(B!Fulls)
  BY <1>1, FullsAre
<1>3. ASSUME kind = "change", NEW i \in B!Changes, NEW k \in B!Changes, i < k, k \in B!Excess(kind)
      PROVE  i \in B!Excess(kind)
  <2> DEFINE above(x) == {j \in B!Changes : j > x}
  <2>0. B!Excess(kind) = {x \in B!Changes : B!Cardinality(above(x)) >= setup.changes}
    BY <1>3 DEF B!Excess
  <2>1. Cardinality(above(k)) >= setup.changes
    <3>1. B!Cardinality(above(k)) >= setup.changes
      BY <1>3, <2>0
    <3> QED
      BY <3>1, CountedIs
  <2>2. above(k) \subseteq above(i)
    <3> SUFFICES ASSUME NEW j \in B!Changes, j > k PROVE j > i
      OBVIOUS
    <3>1. j \in Nat /\ k \in Nat /\ i \in Nat
      BY <1>2
    <3> QED
      BY <1>3, <3>1
  <2>3. above(i) \in SUBSET B!Changes
    OBVIOUS
  <2> HIDE DEF above
  <2>4. IsFiniteSet(above(i)) /\ Cardinality(above(k)) <= Cardinality(above(i))
        /\ Cardinality(above(k)) \in Nat /\ Cardinality(above(i)) \in Nat
    BY <1>2, <2>2, <2>3, FS_Subset, FS_CardinalityType
  <2>5. Cardinality(above(i)) >= setup.changes
    BY <1>1, <2>1, <2>4
  <2>6. B!Cardinality(above(i)) >= setup.changes
    BY <2>5, CountedIs
  <2> QED
    BY <1>3, <2>0, <2>6 DEF above
<1>4. ASSUME kind # "change", NEW i \in B!Excess(kind), B!IsLast(i, B!Fulls)
      PROVE  FALSE
  <2> DEFINE above == {j \in B!Fulls : j > i}
  <2>1. Cardinality(above) >= setup.fulls
    BY <1>4, CountedIs DEF B!Excess
  <2>2. i \in Nat /\ \A j \in B!Fulls : j <= i /\ j \in Nat
    BY <1>2, <1>4 DEF B!IsLast
  <2>3. above = {}
    BY <2>2
  <2>4. Cardinality(above) = 0
    BY <2>3, FS_EmptySet
  <2> QED
    BY <1>1, <2>1, <2>4
<1> QED
  BY <1>3, <1>4 DEF B!Excess

LEMMA PruneIs ==
  ASSUME BackupInv, NEW p \in B!Processes, B!Prune(p)
  PROVE  BackupInv'
<1> DEFINE old == call[p]
           r == [old EXCEPT !.do = "apply"]
           kept == DOMAIN history \ B!Excess(old.kind)
<1>1. /\ UNCHANGED <<setup, config, made, aged, slot, marked, crashes, undo, inslot>>
      /\ old.do = "prune" /\ old \in Requests /\ RequestOK(p, old) /\ made \in Nat /\ HistoryOK
      /\ call' = [call EXCEPT ![p] = r] /\ history' = [i \in kept |-> history[i]]
      /\ DOMAIN old.seen = B!SectionsFor(old.trigger)
  BY DEF B!Prune, B!Becomes, B!clocks, B!ghosts, B!Does, B!Without, BackupInv, CallsOK, B!TypeOK, RequestOK
<1>2. /\ DOMAIN history' = kept /\ kept \subseteq DOMAIN history /\ \A i \in DOMAIN history' : history'[i] = history[i]
  BY <1>1
<1>3. /\ \A i, k \in B!Changes : i < k /\ i \in kept => k \in kept
      /\ \A i \in B!Fulls : B!IsLast(i, B!Fulls) => i \in kept
      /\ old.kind # "change" => B!Changes \subseteq kept
      /\ old.kind = "change" => B!Fulls \subseteq kept
  BY ExcessIs DEF B!Changes, B!Fulls
<1> HIDE DEF kept
<1>4. /\ \A s, v : Newest(s, v) => Newest(s, v)'
      /\ B!Changes' \subseteq B!Changes /\ B!Fulls' \subseteq B!Fulls
      /\ \A i \in B!Fulls : i \in kept => i \in B!Fulls'
      /\ \A i \in B!Changes : i \in kept => i \in B!Changes'
  <2>1. \A s, v : Newest(s, v) => Newest(s, v)'
    BY <1>1, <1>2, <1>3, RemainIs
  <2> QED
    BY <1>2, <2>1 DEF B!Changes, B!Fulls
<1>5. HistoryOK'
  BY <1>1, <1>2, <1>4 DEF HistoryOK, B!SectionsFor, B!Changes
<1>6. /\ r \in Requests /\ r.do = "apply" /\ r.seen = old.seen /\ r.kind = old.kind /\ r.trigger = old.trigger
      /\ r.for = old.for /\ r.at = old.at /\ r.alone = old.alone
  BY <1>1 DEF Requests
<1>7. old.alone => /\ \A s \in DOMAIN old.seen : old.seen[s] = config[s]
                   /\ old.kind = "change" => \A s \in DOMAIN old.seen : Newest(s, old.seen[s])
  BY <1>1 DEF BackupInv, SoleOK, AloneOK
<1>8. /\ \A q \in B!Processes : q # p => call'[q] = call[q]
      /\ call'[p] = r /\ call' \in [B!Processes -> Requests]
  BY <1>1, <1>6 DEF BackupInv, CallsOK
<1>9. B!TypeOK'
  <2>1. DOMAIN history' \subseteq 1..made /\ \A i \in DOMAIN history' : DOMAIN history'[i].payload \subseteq B!Sections
    BY <1>2 DEF BackupInv, B!TypeOK
  <2> QED
    BY <1>1, <1>8, <2>1 DEF BackupInv, B!TypeOK
<1> HIDE DEF old, r
<1>10. CallsOK'
  <2> SUFFICES ASSUME NEW q \in B!Processes PROVE RequestOK(q, call[q])'
    BY <1>8 DEF CallsOK
  <2>1. RequestOK(q, call[q])
    BY DEF BackupInv, CallsOK
  <2>2. CASE q = p
    BY <1>1, <1>6, <1>8, <2>2 DEF RequestOK, B!SectionsFor
  <2>3. CASE q # p
    <3>1. call'[q] = call[q]
      BY <1>8, <2>3
    <3>2. call[q].do = "drop" =>
            \A i \in call[q].ids \cap DOMAIN history' :
              i \in B!Changes' /\ history'[i].trigger = call[q].trigger
      BY <1>2, <1>4, <2>1 DEF RequestOK
    <3> QED
      BY <1>1, <2>1, <3>1, <3>2 DEF RequestOK, B!SectionsFor
  <2> QED
    BY <2>2, <2>3
<1>11. SoleOK'
  <2> SUFFICES ASSUME NEW q \in B!Processes, call'[q].alone
               PROVE  AloneOK(call[q])' /\ \A o \in B!Processes : o # q => call'[o].do = "idle"
    BY DEF SoleOK
  <2>1. q = p /\ old.alone
    BY <1>1, <1>6, <1>8, SoleIs DEF old
  <2>2. \A o \in B!Processes : o # q => call'[o].do = "idle"
    BY <1>8, <2>1 DEF BackupInv, SoleOK, old
  <2>3. ASSUME NEW s, NEW v, Newest(s, v) PROVE Newest(s, v)'
    BY <1>4, <2>3
  <2>4. ASSUME old.kind = "change", NEW s \in DOMAIN old.seen, NEW v, v = old.seen[s] PROVE Newest(s, v)'
    BY <1>7, <2>1, <2>3, <2>4
  <2> QED
    BY <1>1, <1>6, <1>7, <1>8, <2>1, <2>2, <2>4 DEF AloneOK
<1>12. UndosOK'
  <2> SUFFICES ASSUME NEW s \in B!Sections, undo'[s].alone PROVE Newest(s, undo[s].was)'
    BY DEF UndosOK
  <2>1. undo' = undo /\ Newest(s, undo[s].was)
    BY <1>1 DEF BackupInv, UndosOK
  <2>2. Newest(s, undo[s].was)'
    BY <1>4, <2>1
  <2> QED
    BY <2>2
<1>13. ScheduledOK'
  <2>1. inslot' = 1 => \E i \in B!Fulls' : /\ B!IsLast(i, B!Fulls')
                                     /\ history'[i].slot = slot' /\ history'[i].trigger = "schedule"
    <3> SUFFICES ASSUME inslot = 1 PROVE \E i \in B!Fulls' : /\ B!IsLast(i, B!Fulls')
                                     /\ history'[i].slot = slot' /\ history'[i].trigger = "schedule"
      BY <1>1
    <3>1. PICK i \in B!Fulls : /\ B!IsLast(i, B!Fulls) /\ history[i].slot = slot /\ history[i].trigger = "schedule"
      BY DEF BackupInv, ScheduledOK
    <3> QED
      BY <1>1, <1>2, <1>3, <1>4, <3>1 DEF B!IsLast
  <2> QED
    BY <1>1, <2>1 DEF BackupInv, ScheduledOK, B!IsLast
<1> QED
  BY <1>5, <1>9, <1>10, <1>11, <1>12, <1>13 DEF BackupInv

LEMMA InsertIs ==
  ASSUME BackupInv, NEW p \in B!Processes, B!Insert(p)
  PROVE  BackupInv'
<1> DEFINE old == call[p]
           r == [old EXCEPT !.do = "prune"]
           recorded == IF old.kind = "change" THEN B!Scoped(old.seen, old.trigger) ELSE old.seen
           entry == [kind |-> old.kind, trigger |-> old.trigger, base |-> old.base,
                     payload |-> recorded, slot |-> slot, world |-> config]
           new == made + 1
<1>1. /\ UNCHANGED <<setup, config, aged, slot, marked, crashes>> /\ made' = new /\ made < setup.made
      /\ old.do = "insert" /\ old \in Requests /\ RequestOK(p, old) /\ made \in Nat /\ slot \in Nat
      /\ setup.made \in Nat /\ HistoryOK /\ DOMAIN old.seen = B!SectionsFor(old.trigger)
      /\ call' = [call EXCEPT ![p] = r]
      /\ history' = [i \in DOMAIN history \cup {new} |-> IF i = new THEN entry ELSE history[i]]
      /\ inslot' = IF old.kind # "full" THEN inslot ELSE IF old.trigger = "schedule" THEN inslot + 1 ELSE 0
      /\ undo' = IF old.kind = "full" THEN undo ELSE B!Superseded(old.trigger)
  BY BackupAssumption DEF B!Insert, B!Becomes, B!clocks, B!Does, BackupInv, CallsOK, B!TypeOK, RequestOK
<1>2. old.seen \in Payloads /\ config \in Payloads
  BY <1>1, PayloadIs DEF Requests, BackupInv, B!TypeOK
<1>3. /\ recorded \in Payloads /\ DOMAIN recorded \subseteq DOMAIN old.seen
      /\ old.kind = "change" => /\ \A s \in DOMAIN old.seen : old.seen[s] # 0 => s \in DOMAIN recorded
                                /\ \A s \in DOMAIN recorded : recorded[s] = old.seen[s]
  BY <1>1, <1>2, ScopedIs
<1> HIDE DEF recorded
<1>4. entry \in Backups
  BY <1>1, <1>2, <1>3 DEF Backups, Requests
<1>5. /\ entry.kind = old.kind /\ entry.trigger = old.trigger /\ entry.payload = recorded /\ entry.slot = slot
  OBVIOUS
<1> HIDE DEF entry
<1>6. /\ DOMAIN history' = DOMAIN history \cup {new} /\ history'[new] = entry
      /\ \A i \in DOMAIN history : history'[i] = history[i] /\ i < new /\ i \in Nat
      /\ new \in Nat
  BY <1>1 DEF HistoryOK
<1> HIDE DEF new
<1>7. /\ B!Changes' = B!Changes \cup {i \in {new} : old.kind = "change"}
      /\ B!Fulls' = B!Fulls \cup {i \in {new} : old.kind = "full"}
  BY <1>5, <1>6 DEF B!Changes, B!Fulls
<1>8. \A s : s \notin B!SectionsFor(old.trigger) \/ old.kind # "change" => B!Holding(s)' = B!Holding(s)
  BY <1>1, <1>3, <1>5, <1>6, <1>7 DEF B!Holding, B!Changes
<1>9. HistoryOK'
  <2>1. history' \in [DOMAIN history' -> Backups]
    BY <1>1, <1>4, <1>6 DEF HistoryOK
  <2>2. DOMAIN history' \subseteq 1..made'
    BY <1>1, <1>6 DEF HistoryOK, new
  <2>3. \A i \in B!Changes' : DOMAIN history'[i].payload \subseteq B!SectionsFor(history'[i].trigger)
    BY <1>1, <1>3, <1>5, <1>6, <1>7 DEF HistoryOK, B!Changes
  <2> QED
    BY <2>1, <2>2, <2>3 DEF HistoryOK, B!SectionsFor
<1>10. /\ r \in Requests /\ r.do = "prune" /\ r.seen = old.seen /\ r.kind = old.kind /\ r.trigger = old.trigger
       /\ r.for = old.for /\ r.at = old.at /\ r.alone = old.alone
  BY <1>1 DEF Requests
<1>11. old.alone => \A s \in DOMAIN old.seen : old.seen[s] = config[s]
  BY <1>1 DEF BackupInv, SoleOK, AloneOK
<1>12. /\ \A q \in B!Processes : q # p => call'[q] = call[q]
       /\ call'[p] = r /\ call' \in [B!Processes -> Requests]
  BY <1>1, <1>10 DEF BackupInv, CallsOK
<1>13. B!TypeOK'
  <2>1. undo' \in [B!Sections -> [was : Values \cup {0}, alone : BOOLEAN]]
    BY <1>1 DEF B!Superseded, B!NoUndo, BackupInv, B!TypeOK
  <2>2. \A i \in DOMAIN history' : DOMAIN history'[i].payload \subseteq B!Sections
    BY <1>1, <1>3, <1>5, <1>6, OccasionsAre DEF BackupInv, B!TypeOK
  <2>3. DOMAIN history' \subseteq 1..made' /\ made' \in 0..setup'.made /\ aged' \in 0..made'
    BY <1>1, <1>9 DEF HistoryOK, BackupInv, B!TypeOK, new
  <2> QED
    BY <1>1, <1>12, <2>1, <2>2, <2>3 DEF BackupInv, B!TypeOK
<1>14. old.kind = "full" /\ old.trigger = "schedule" => p = Ticker /\ inslot = 0
  BY <1>1 DEF RequestOK
<1> HIDE DEF old, r
<1>15. CallsOK'
  <2> SUFFICES ASSUME NEW q \in B!Processes PROVE RequestOK(q, call[q])'
    BY <1>12 DEF CallsOK
  <2>1. RequestOK(q, call[q])
    BY DEF BackupInv, CallsOK
  <2>2. CASE q = p
    BY <1>1, <1>10, <1>12, <2>2 DEF RequestOK, B!SectionsFor
  <2>3. CASE q # p
    <3>1. call'[q] = call[q]
      BY <1>12, <2>3
    <3>2. call[q] \in Requests
      BY DEF BackupInv, CallsOK
    <3>3. call[q].do = "drop" => new \notin call[q].ids /\ \A i \in call[q].ids : i <= made'
      BY <1>1, <2>1, <3>2 DEF RequestOK, Requests, IdSets, new
    <3>4. call[q].do = "drop" =>
            \A i \in call[q].ids \cap DOMAIN history' :
              i \in B!Changes' /\ history'[i].trigger = call[q].trigger
      BY <1>6, <1>7, <2>1, <3>3 DEF RequestOK
    <3>5. call[q].kind = "full" /\ call[q].trigger = "schedule" /\ call[q].do \in {"capture", "insert"} =>
            q = Ticker /\ inslot' = 0
      BY <1>1, <1>14, <2>1, <2>3 DEF RequestOK
    <3> QED
      BY <1>1, <2>1, <3>1, <3>3, <3>4, <3>5 DEF RequestOK, B!SectionsFor
  <2> QED
    BY <2>2, <2>3
<1>16. SoleOK'
  <2> SUFFICES ASSUME NEW q \in B!Processes, call'[q].alone
               PROVE  AloneOK(call[q])' /\ \A o \in B!Processes : o # q => call'[o].do = "idle"
    BY DEF SoleOK
  <2>1. q = p /\ old.alone
    BY <1>1, <1>10, <1>12, SoleIs DEF old
  <2>2. \A o \in B!Processes : o # q => call'[o].do = "idle"
    BY <1>12, <2>1 DEF BackupInv, SoleOK, old
  <2>3. ASSUME old.kind = "change", NEW s \in DOMAIN old.seen, NEW v, v = old.seen[s] PROVE Newest(s, v)'
    <3> SUFFICES ASSUME v # 0, NEW i \in B!Holding(s)', \A k \in B!Holding(s)' : k <= i
                 PROVE  history'[i].payload[s] = v
      BY DEF Newest, B!IsLast
    <3>1. s \in DOMAIN recorded /\ recorded[s] = v
      BY <1>3, <2>3
    <3>2. new \in B!Holding(s)'
      BY <1>5, <1>6, <1>7, <2>3, <3>1 DEF B!Holding
    <3>3. new <= i /\ i \in DOMAIN history'
      BY <3>2 DEF B!Holding, B!Changes
    <3>4. i = new
      BY <1>6, <3>3
    <3> QED
      BY <1>5, <1>6, <3>1, <3>4
  <2> QED
    BY <1>1, <1>10, <1>11, <1>12, <2>1, <2>2, <2>3 DEF AloneOK
<1>17. UndosOK'
  <2> SUFFICES ASSUME NEW s \in B!Sections, undo'[s].alone PROVE Newest(s, undo[s].was)'
    BY DEF UndosOK
  <2>1. (s \notin B!SectionsFor(old.trigger) \/ old.kind # "change") /\ undo'[s] = undo[s]
    BY <1>1 DEF B!Superseded, B!NoUndo
  <2>2. Newest(s, undo[s].was)
    BY <2>1 DEF BackupInv, UndosOK
  <2>3. \A i \in B!Holding(s) : history'[i] = history[i]
    BY <1>6 DEF B!Holding, B!Changes
  <2> QED
    BY <1>8, <2>1, <2>2, <2>3 DEF Newest
<1>18. ScheduledOK'
  <2>1. CASE old.kind # "full"
    <3>1. B!Fulls' = B!Fulls /\ inslot' = inslot
      BY <1>1, <1>7, <2>1
    <3>2. \A i \in B!Fulls : history'[i] = history[i]
      BY <1>6 DEF B!Fulls
    <3> QED
      BY <1>1, <3>1, <3>2 DEF BackupInv, ScheduledOK
  <2>2. CASE old.kind = "full" /\ old.trigger = "schedule"
    <3>1. inslot' = 1 /\ new \in B!Fulls'
      BY <1>1, <1>7, <1>14, <2>2
    <3>2. B!IsLast(new, B!Fulls')
      BY <1>6, <3>1 DEF B!IsLast, B!Fulls
    <3> QED
      BY <1>1, <1>5, <1>6, <2>2, <3>1, <3>2 DEF ScheduledOK
  <2>3. CASE old.kind = "full" /\ old.trigger # "schedule"
    BY <1>1, <2>3 DEF ScheduledOK
  <2> QED
    BY <2>1, <2>2, <2>3
<1> QED
  BY <1>9, <1>13, <1>15, <1>16, <1>17, <1>18 DEF BackupInv

\* What a restored payload makes of the configuration.
LEMMA AppliedIs ==
  ASSUME B!TypeOK, NEW payload \in Payloads, NEW whole
  PROVE  B!Applied(payload, whole) \in [B!Sections -> Values \cup {0}]
<1>1. \A s \in B!Sections : s \in DOMAIN payload => payload[s] \in Values \cup {0}
  BY PayloadOf
<1> QED
  BY <1>1 DEF B!Applied, B!TypeOK

\* A request that ends with a change of the configuration.
LEMMA ConfigureIs ==
  ASSUME BackupInv, NEW p \in B!Processes, call[p].do # "idle", B!End(p),
         UNCHANGED <<setup, history, made, aged, slot, marked, crashes, inslot>>,
         config' \in [B!Sections -> Values \cup {0}],
         undo' \in [B!Sections -> [was : Values \cup {0}, alone : BOOLEAN]],
         \A s \in B!Sections : undo'[s].alone => undo'[s] = undo[s] \/ Newest(s, undo'[s].was)
  PROVE  BackupInv'
<1>1. /\ call' = [call EXCEPT ![p] = B!Idle] /\ call' \in [B!Processes -> Requests] /\ call'[p] = B!Idle
      /\ \A q \in B!Processes : q # p => call'[q] = call[q]
  BY IdleRequest DEF B!End, B!Becomes, BackupInv, CallsOK
<1>2. /\ B!Changes' = B!Changes /\ B!Fulls' = B!Fulls /\ \A s : B!Holding(s)' = B!Holding(s)
  BY DEF B!Changes, B!Fulls, B!Holding
<1>3. B!TypeOK'
  BY <1>1 DEF BackupInv, B!TypeOK
<1>4. HistoryOK'
  BY <1>2 DEF BackupInv, HistoryOK, B!SectionsFor
<1>5. B!Idle.at = 0 /\ B!Idle.for = "none" /\ B!Idle.kind = "none" /\ B!Idle.ids = {}
  BY DEF B!Idle
<1>6. CallsOK'
  <2> SUFFICES ASSUME NEW q \in B!Processes PROVE RequestOK(q, call[q])'
    BY <1>1 DEF CallsOK
  <2>1. CASE q = p
    BY <1>1, <1>5, <2>1, IdleRequest DEF RequestOK, B!Nothing, BackupInv, B!TypeOK
  <2>2. CASE q # p
    BY <1>1, <1>2, <2>2 DEF BackupInv, CallsOK, RequestOK
  <2> QED
    BY <2>1, <2>2
<1>7. SoleOK'
  BY <1>1, IdleRequest, SoleIs DEF SoleOK
<1>8. UndosOK'
  <2> SUFFICES ASSUME NEW s \in B!Sections, NEW v, v = undo'[s].was, undo'[s].alone PROVE Newest(s, v)'
    BY DEF UndosOK
  <2>1. Newest(s, v)
    BY DEF BackupInv, UndosOK
  <2> QED
    BY <1>2, <2>1 DEF Newest
<1>9. ScheduledOK'
  BY <1>2 DEF BackupInv, ScheduledOK
<1> QED
  BY <1>3, <1>4, <1>6, <1>7, <1>8, <1>9 DEF BackupInv

LEMMA SetIs ==
  ASSUME BackupInv, NEW b \in Editors, B!Set(b)
  PROVE  BackupInv'
<1> DEFINE r == call[b]
<1>1. /\ UNCHANGED <<setup, history, made, aged, slot, marked, crashes, inslot>>
      /\ b \in B!Processes /\ r.do = "apply" /\ r.for = "change" /\ r \in Requests
      /\ RequestOK(b, r) /\ B!End(b) /\ B!TypeOK
  BY DEF B!Set, B!clocks, B!Does, BackupInv, CallsOK, B!Processes
<1>2. r.trigger \in B!Sections /\ r.kind = "change" /\ r.value \in Values \cup {0} /\ r.alone \in BOOLEAN
      /\ DOMAIN r.seen = {r.trigger}
  BY <1>1 DEF RequestOK, Requests, B!SectionsFor
<1>3. r.alone => Newest(r.trigger, config[r.trigger])
  <2> SUFFICES ASSUME r.alone PROVE Newest(r.trigger, config[r.trigger])
    OBVIOUS
  <2>1. AloneOK(r)
    BY <1>1 DEF BackupInv, SoleOK
  <2>2. r.seen[r.trigger] = config[r.trigger] /\ Newest(r.trigger, r.seen[r.trigger])
    BY <1>1, <1>2, <2>1 DEF AloneOK
  <2> QED
    BY <2>2, Zenon
<1> HIDE DEF r
<1>4. CASE UNCHANGED <<config, undo>>
  BY <1>1, <1>4, ConfigureIs DEF B!TypeOK, r
<1>5. CASE /\ config' = [config EXCEPT ![r.trigger] = r.value]
           /\ undo' = [undo EXCEPT ![r.trigger] = [was |-> config[r.trigger], alone |-> r.alone]]
  <2>1. /\ config' \in [B!Sections -> Values \cup {0}]
        /\ undo' \in [B!Sections -> [was : Values \cup {0}, alone : BOOLEAN]]
    BY <1>1, <1>2, <1>5 DEF B!TypeOK
  <2>2. \A s \in B!Sections : undo'[s].alone => undo'[s] = undo[s] \/ Newest(s, undo'[s].was)
    <3> TAKE s \in B!Sections
    <3>1. CASE s = r.trigger
      <4>1. undo'[s].was = config[r.trigger] /\ undo'[s].alone = r.alone
        BY <1>1, <1>2, <1>5, <3>1 DEF B!TypeOK
      <4> QED
        BY <1>3, <3>1, <4>1, Zenon
    <3>2. CASE s # r.trigger
      BY <1>1, <1>5, <3>2 DEF B!TypeOK
    <3> QED
      BY <3>1, <3>2
  <2> QED
    BY <1>1, <2>1, <2>2, ConfigureIs DEF r
<1> QED
  BY <1>4, <1>5 DEF B!Set, r

LEMMA RestoreTablesIs ==
  ASSUME BackupInv, NEW b \in Editors, B!RestoreTables(b)
  PROVE  BackupInv'
<1> DEFINE r == call[b]
<1>1. /\ UNCHANGED <<setup, history, made, aged, slot, marked, crashes, inslot>>
      /\ b \in B!Processes /\ r.do = "tables" /\ r \in Requests
      /\ RequestOK(b, r) /\ B!End(b) /\ B!TypeOK /\ config' = B!Applied(r.payload, r.whole)
      /\ undo' = [s \in B!Sections |-> IF config'[s] = r.before[s] THEN undo[s]
                                       ELSE [was |-> r.before[s], alone |-> r.alone]]
  BY DEF B!RestoreTables, B!clocks, B!Does, BackupInv, CallsOK, B!Processes
<1>2. /\ r.kind = "change" /\ r.alone \in BOOLEAN /\ r.payload \in Payloads /\ r.before \in Payloads
      /\ DOMAIN r.before = B!Sections /\ DOMAIN r.seen = B!Sections
  BY <1>1, OccasionsAre DEF RequestOK, Requests, B!SectionsFor, Occasions
<1>3. config' \in [B!Sections -> Values \cup {0}]
  BY <1>1, <1>2, AppliedIs
<1>4. undo' \in [B!Sections -> [was : Values \cup {0}, alone : BOOLEAN]]
  <2>1. \A s \in B!Sections : r.before[s] \in Values \cup {0}
    BY <1>2, PayloadOf
  <2> QED
    BY <1>1, <1>2, <2>1 DEF B!TypeOK
<1>5. \A s \in B!Sections : undo'[s].alone => undo'[s] = undo[s] \/ Newest(s, undo'[s].was)
  <2> SUFFICES ASSUME NEW s \in B!Sections, undo'[s].alone, undo'[s] # undo[s] PROVE Newest(s, undo'[s].was)
    OBVIOUS
  <2>1. undo'[s].was = r.before[s] /\ r.alone
    BY <1>1
  <2>2. AloneOK(r)
    BY <1>1, <2>1 DEF BackupInv, SoleOK
  <2>3. r.seen[s] = r.before[s] /\ Newest(s, r.seen[s])
    BY <1>1, <1>2, <2>2 DEF AloneOK
  <2> QED
    BY <2>1, <2>3, Zenon
<1> QED
  BY <1>1, <1>3, <1>4, <1>5, ConfigureIs

LEMMA RestoreFilesIs ==
  ASSUME BackupInv, NEW b \in Editors, B!RestoreFiles(b)
  PROVE  BackupInv'
<1> DEFINE old == call[b]
           r == [old EXCEPT !.do = "tables", !.before = config]
<1>1. /\ UNCHANGED <<setup, history, made, aged, slot, marked, crashes, undo, inslot>>
      /\ b \in B!Processes /\ old.do = "files" /\ old \in Requests
      /\ RequestOK(b, old) /\ B!TypeOK /\ call' = [call EXCEPT ![b] = r]
      /\ config' = [s \in B!Sections |-> IF s \in Files THEN B!Applied(old.payload, old.whole)[s] ELSE config[s]]
  BY DEF B!RestoreFiles, B!Becomes, B!clocks, B!ghosts, B!Does, BackupInv, CallsOK, B!Processes
<1>2. old.payload \in Payloads /\ config \in Payloads /\ DOMAIN config = B!Sections
  BY <1>1, PayloadIs DEF Requests, B!TypeOK
<1>3. config' \in [B!Sections -> Values \cup {0}]
  BY <1>1, <1>2, AppliedIs DEF B!TypeOK
<1>4. /\ r \in Requests /\ r.do = "tables" /\ r.seen = old.seen /\ r.kind = old.kind /\ r.trigger = old.trigger
      /\ r.for = old.for /\ r.at = old.at /\ r.alone = old.alone /\ r.before = config
  BY <1>1, <1>2 DEF Requests
<1>5. old.alone => /\ \A s \in DOMAIN old.seen : old.seen[s] = config[s]
                   /\ old.kind = "change" => \A s \in DOMAIN old.seen : Newest(s, old.seen[s])
  BY <1>1 DEF BackupInv, SoleOK, AloneOK
<1>6. /\ \A q \in B!Processes : q # b => call'[q] = call[q]
      /\ call'[b] = r /\ call' \in [B!Processes -> Requests]
  BY <1>1, <1>4 DEF BackupInv, CallsOK
<1>7. /\ B!Changes' = B!Changes /\ B!Fulls' = B!Fulls /\ \A s : B!Holding(s)' = B!Holding(s)
  BY <1>1 DEF B!Changes, B!Fulls, B!Holding
<1>8. B!TypeOK'
  BY <1>1, <1>3, <1>6 DEF B!TypeOK
<1>9. HistoryOK'
  BY <1>1, <1>7 DEF BackupInv, HistoryOK, B!SectionsFor
<1> HIDE DEF old, r
<1>10. CallsOK'
  <2> SUFFICES ASSUME NEW q \in B!Processes PROVE RequestOK(q, call[q])'
    BY <1>6 DEF CallsOK
  <2>1. CASE q = b
    BY <1>1, <1>2, <1>4, <1>6, <2>1 DEF RequestOK, B!SectionsFor
  <2>2. CASE q # b
    BY <1>1, <1>6, <1>7, <2>2 DEF BackupInv, CallsOK, RequestOK
  <2> QED
    BY <2>1, <2>2
<1>11. SoleOK'
  <2> SUFFICES ASSUME NEW q \in B!Processes, call'[q].alone
               PROVE  AloneOK(call[q])' /\ \A o \in B!Processes : o # q => call'[o].do = "idle"
    BY DEF SoleOK
  <2>1. q = b /\ old.alone
    BY <1>1, <1>4, <1>6, SoleIs DEF old
  <2>2. \A o \in B!Processes : o # q => call'[o].do = "idle"
    BY <1>1, <1>6, <2>1 DEF BackupInv, SoleOK, old
  <2>3. ASSUME old.kind = "change", NEW s \in DOMAIN old.seen, NEW v, v = old.seen[s] PROVE Newest(s, v)'
    <3>1. Newest(s, v)
      BY <1>5, <2>1, <2>3
    <3> QED
      BY <1>1, <1>7, <3>1 DEF Newest
  <2> QED
    BY <1>1, <1>4, <1>5, <1>6, <2>1, <2>2, <2>3 DEF AloneOK
<1>12. UndosOK'
  <2> SUFFICES ASSUME NEW s \in B!Sections, NEW v, v = undo'[s].was, undo'[s].alone PROVE Newest(s, v)'
    BY DEF UndosOK
  <2>1. Newest(s, v)
    BY <1>1 DEF BackupInv, UndosOK
  <2> QED
    BY <1>1, <1>7, <2>1 DEF Newest
<1>13. ScheduledOK'
  BY <1>1, <1>7 DEF BackupInv, ScheduledOK
<1> QED
  BY <1>8, <1>9, <1>10, <1>11, <1>12, <1>13 DEF BackupInv

\* Every request goes on alone no more, and no change is known to be the last.
LEMMA LoneIs ==
  ASSUME BackupInv, NEW kept, kept \subseteq DOMAIN history, history' = [i \in kept |-> history[i]],
         call' \in [B!Processes -> Requests],
         \A q \in B!Processes : call'[q] = B!Lonely(call[q]) \/ call'[q] = B!Idle,
         undo' = [s \in B!Sections |-> B!NoUndo],
         crashes' \in 0..setup.crashes, ScheduledOK',
         inslot' \in {0, inslot}, UNCHANGED <<setup, config, made, aged, slot, marked>>
  PROVE  BackupInv'
<1>1. /\ DOMAIN history' = kept /\ \A i \in kept : history'[i] = history[i]
      /\ B!Changes' = B!Changes \cap kept
  BY DEF B!Changes
<1>2. B!TypeOK'
  <2>1. undo' \in [B!Sections -> [was : Values \cup {0}, alone : BOOLEAN]]
    BY DEF B!NoUndo
  <2>2. DOMAIN history' \subseteq 1..made /\ \A i \in DOMAIN history' : DOMAIN history'[i].payload \subseteq B!Sections
    BY <1>1 DEF BackupInv, B!TypeOK
  <2> QED
    BY <2>1, <2>2 DEF BackupInv, B!TypeOK
<1>3. HistoryOK'
  BY <1>1 DEF BackupInv, HistoryOK, B!SectionsFor, B!Changes
<1>4. B!Idle.at = 0 /\ B!Idle.for = "none" /\ B!Idle.kind = "none" /\ B!Idle.ids = {} /\ slot \in Nat
  BY DEF B!Idle, BackupInv, B!TypeOK
<1>5. ASSUME NEW q \in B!Processes
      PROVE  RequestOK(q, call[q])' /\ ~call'[q].alone
  <2> DEFINE r == B!Lonely(call[q])
  <2>1. call[q] \in Requests /\ RequestOK(q, call[q])
    BY DEF BackupInv, CallsOK
  <2>2. r \in Requests /\ RequestOK(q, r) /\ ~r.alone
    BY <2>1, LonelyIs
  <2>3. CASE call'[q] = B!Idle
    BY <1>4, <2>3, IdleRequest DEF RequestOK, B!Nothing
  <2>4. CASE call'[q] = r
    <3> HIDE DEF r
    <3>1. r.do = "drop" =>
            \A i \in r.ids \cap DOMAIN history' : i \in B!Changes' /\ history'[i].trigger = r.trigger
      BY <1>1, <2>2 DEF RequestOK
    <3> QED
      BY <2>2, <2>4, <3>1 DEF RequestOK, B!SectionsFor
  <2> QED
    BY <2>3, <2>4
<1>6. UndosOK'
  BY DEF UndosOK, B!NoUndo
<1> QED
  BY <1>2, <1>3, <1>5, <1>6 DEF BackupInv, CallsOK, SoleOK

LEMMA DeleteIs ==
  ASSUME BackupInv, NEW b \in Editors, NEW id \in 1..made, B!Delete(b, id)
  PROVE  BackupInv'
<1> DEFINE kept == DOMAIN history \ {id}
<1>1. /\ UNCHANGED <<setup, config, made, aged, slot, marked, crashes>> /\ inslot' = 0
      /\ history' = [i \in kept |-> history[i]] /\ undo' = [s \in B!Sections |-> B!NoUndo]
      /\ call' = [p \in B!Processes |-> B!Lonely(call[p])] /\ crashes \in 0..setup.crashes
  BY DEF B!Delete, B!Without, B!clocks, BackupInv, B!TypeOK
<1>2. call' \in [B!Processes -> Requests]
  BY <1>1, LonelyIs DEF BackupInv, CallsOK
<1>3. ScheduledOK'
  BY <1>1 DEF ScheduledOK
<1> QED
  BY <1>1, <1>2, <1>3, LoneIs

LEMMA CrashIs ==
  ASSUME BackupInv, B!Crash
  PROVE  BackupInv'
<1>1. /\ UNCHANGED <<setup, config, made, aged, slot, marked, history, inslot>>
      /\ undo' = [s \in B!Sections |-> B!NoUndo]
      /\ call' = [p \in B!Processes |-> B!Idle] /\ crashes' \in 0..setup.crashes
  BY BackupAssumption DEF B!Crash, BackupInv, B!TypeOK
<1>2. call' \in [B!Processes -> Requests]
  BY <1>1, IdleRequest
<1>3. ScheduledOK'
  BY <1>1 DEF BackupInv, ScheduledOK, B!Fulls
<1>4. history' = [i \in DOMAIN history |-> history[i]]
  BY <1>1 DEF BackupInv, HistoryOK
<1> QED
  BY <1>1, <1>2, <1>3, <1>4, LoneIs

\* Time passes.
LEMMA TimeIs ==
  ASSUME BackupInv, B!SlotBegins \/ B!FiveMinutes
  PROVE  BackupInv'
<1>1. /\ UNCHANGED <<setup, config, history, made, marked, crashes, call, undo>>
      /\ aged' \in 0..made /\ slot \in Nat /\ slot' \in 0..setup.slots /\ slot <= slot'
      /\ \/ slot' = slot /\ inslot' = inslot
         \/ inslot' = 0
  BY BackupAssumption DEF B!SlotBegins, B!FiveMinutes, B!ghosts, BackupInv, B!TypeOK
<1>2. /\ B!Changes' = B!Changes /\ B!Fulls' = B!Fulls /\ \A s : B!Holding(s)' = B!Holding(s)
  BY <1>1 DEF B!Changes, B!Fulls, B!Holding
<1>3. B!TypeOK'
  BY <1>1 DEF BackupInv, B!TypeOK
<1>4. HistoryOK'
  BY <1>1, <1>2 DEF BackupInv, HistoryOK, B!SectionsFor
<1>5. CallsOK'
  <2> SUFFICES ASSUME NEW q \in B!Processes PROVE RequestOK(q, call[q])'
    BY <1>1 DEF BackupInv, CallsOK
  <2>1. RequestOK(q, call[q]) /\ call[q].at \in Nat
    BY DEF BackupInv, CallsOK, Requests
  <2>2. call[q].at <= slot'
    BY <1>1, <2>1 DEF RequestOK
  <2> QED
    BY <1>1, <1>2, <2>1, <2>2 DEF RequestOK, B!SectionsFor
<1>6. \A s, v : Newest(s, v)' <=> Newest(s, v)
  BY <1>1, <1>2 DEF Newest
<1>7. SoleOK'
  <2>1. \A r : AloneOK(r)' <=> AloneOK(r)
    BY <1>1, <1>2, <1>6 DEF AloneOK, B!Scoped, B!SectionsFor
  <2> QED
    BY <1>1, <2>1 DEF BackupInv, SoleOK
<1>8. UndosOK'
  BY <1>1, <1>6 DEF BackupInv, UndosOK
<1>9. ScheduledOK'
  BY <1>1, <1>2 DEF BackupInv, ScheduledOK
<1> QED
  BY <1>3, <1>4, <1>5, <1>7, <1>8, <1>9 DEF BackupInv

LEMMA BackupStill ==
  ASSUME BackupInv, UNCHANGED B!vars
  PROVE  BackupInv'
<1>1. UNCHANGED <<setup, config, history, made, aged, call, slot, marked, crashes, undo, restored, inslot>>
  BY DEF B!vars
<1>2. B!TypeOK' /\ HistoryOK'
  BY <1>1, SameIs DEF BackupInv, B!TypeOK, HistoryOK, B!SectionsFor
<1>3. CallsOK' /\ SoleOK' /\ UndosOK' /\ ScheduledOK'
  BY <1>1, SameIs DEF BackupInv, CallsOK, SoleOK, UndosOK
<1> QED
  BY <1>2, <1>3 DEF BackupInv

LEMMA BackupStep ==
  ASSUME BackupInv, [B!Next]_B!vars
  PROVE  BackupInv'
<1>1. ASSUME NEW p \in B!Processes,
             B!Capture(p) \/ B!Decide(p) \/ B!Drop(p) \/ B!Insert(p) \/ B!Prune(p)
      PROVE  BackupInv'
  BY <1>1, CaptureIs, DecideIs, DropIs, InsertIs, PruneIs
<1>2. ASSUME NEW b \in Editors, NEW s \in B!Sections, NEW v \in Values, B!Change(b, s, v)
      PROVE  BackupInv'
  BY <1>2, ChangeStarts
<1>3. ASSUME NEW b \in Editors,
             \/ B!Set(b) \/ B!BackedUp(b) \/ B!ReadSchedule(b) \/ B!SaveSchedule(b)
             \/ B!Lookup(b) \/ B!RestoreFiles(b) \/ B!RestoreTables(b)
      PROVE  BackupInv'
  BY <1>3, SetIs, EndsAre, ReadScheduleIs, LookupIs, RestoreFilesIs, RestoreTablesIs
<1>4. ASSUME NEW b \in Editors, B!Manual(b) \/ B!Baseline(b) \/ B!Schedule(b)
      PROVE  BackupInv'
  <2>1. /\ UNCHANGED <<setup, config, history, made, aged, slot, marked, crashes, undo, inslot>>
        /\ \/ B!Begin(b, B!Recording("full", "manual", "backup"))
           \/ B!Begin(b, B!Recording("full", "baseline", "backup"))
           \/ B!Begin(b, B!Recording("change", "backup.schedule", "schedule"))
    BY <1>4 DEF B!Manual, B!Baseline, B!Schedule, B!clocks, B!ghosts
  <2> QED
    BY <2>1, OccasionStarts
<1>5. ASSUME NEW b \in Editors, NEW id \in 1..made, B!Delete(b, id)
      PROVE  BackupInv'
  BY <1>5, DeleteIs
<1>6. ASSUME NEW b \in Editors, NEW id \in 1..made, NEW whole \in BOOLEAN, B!Restore(b, id, whole)
      PROVE  BackupInv'
  BY <1>6, RestoreStarts
<1>7. ASSUME B!Due \/ B!Mark \/ B!SlotBegins \/ B!FiveMinutes \/ B!Crash
      PROVE  BackupInv'
  BY <1>7, DueIs, EndsAre, TimeIs, CrashIs
<1> QED
  BY <1>1, <1>2, <1>3, <1>4, <1>5, <1>6, <1>7, BackupStill DEF B!Next

LEMMA BackupInit ==
  ASSUME B!Init
  PROVE  BackupInv
<1>1. /\ setup \in Setups /\ setup.made \in Nat /\ setup.slots \in Nat /\ setup.crashes \in Nat
      /\ config \in [B!Sections -> {0, 1}] /\ 1 \in Values
      /\ history = B!Nothing /\ made = 0 /\ aged = 0 /\ call = [p \in B!Processes |-> B!Idle]
      /\ slot = 0 /\ marked = 0 /\ crashes = 0 /\ undo = [s \in B!Sections |-> B!NoUndo] /\ inslot = 0
  BY BackupAssumption DEF B!Init
<1>2. DOMAIN history = {}
  BY <1>1 DEF B!Nothing
<1>3. B!TypeOK
  BY <1>1, <1>2 DEF B!TypeOK, B!NoUndo
<1>4. HistoryOK
  BY <1>1, <1>2 DEF HistoryOK, B!Changes, B!Nothing
<1>5. B!Idle.at = 0 /\ B!Idle.for = "none" /\ B!Idle.kind = "none" /\ B!Idle.ids = {}
  BY DEF B!Idle
<1>6. CallsOK
  <2>1. \A p \in B!Processes : RequestOK(p, B!Idle)
    BY <1>1, <1>5, IdleRequest DEF RequestOK, B!Nothing
  <2> QED
    BY <1>1, <2>1, IdleRequest DEF CallsOK
<1>7. SoleOK
  BY <1>1, IdleRequest DEF SoleOK
<1>8. UndosOK /\ ScheduledOK
  BY <1>1 DEF UndosOK, ScheduledOK, B!NoUndo
<1> QED
  BY <1>3, <1>4, <1>6, <1>7, <1>8 DEF BackupInv

LEMMA BackupHolds ==
  ASSUME BackupInv
  PROVE  B!TypeOK /\ B!UndoLast /\ B!OncePerInstant
BY DEF BackupInv, UndosOK, Newest, ScheduledOK, B!UndoLast, B!OncePerInstant

\* For any sections, browsers, retention and interleaving: restoring the newest
\* entry of a section brings back what was there before its last change, if nothing
\* else ran meanwhile, and an instant of the schedule makes one backup
\* (config_backup/service.py auto_backup_before, restore_backup, run_scheduled_backup_if_due).
THEOREM UndoKept == AllSpec => []UndoLast
<1> DEFINE Inv == part = "backup" => BackupInv
<1>1. AllInit => Inv
  BY PartInit, BackupInit
<1>2. Inv /\ [AllNext]_<<all, others>> => Inv'
  BY PartStep, BackupStep
<1>3. Inv => UndoLast
  BY BackupHolds DEF UndoLast
<1> QED
  BY <1>1, <1>2, <1>3, PTL DEF AllSpec
=============================================================================
