--------------------------- MODULE CandlePipeline ---------------------------
(***************************************************************************)
(* The Secretary's candle pipeline for the pairs of one timeframe: a tick   *)
(* plans a batch of jobs, every job fetches candles into the cache, decides *)
(* whether the bar was analysed before, analyses live candles, remembers    *)
(* the bar and hands the result to the Broker.                              *)
(*                                                                          *)
(* Bars are numbered by their close.  Time is the position of the clock     *)
(* among the instants that matter: 2k is the close of bar k, 2k + 1 is      *)
(* three seconds later (CLOSE_BUFFER), when the schedule calls bar k due.   *)
(* A bar number 0 stands for None.                                          *)
(***************************************************************************)
EXTENDS Naturals, FiniteSets

CONSTANTS
  Pairs,        \* the pairs the runnable strategies trade on this timeframe
  MaxBar,       \* bound: the last bar whose close the clock reaches
  Cross,        \* the bars on which the strategy's crossover completes
  Lookback,     \* how many bars a catch-up analysis scans backwards
  Own,          \* Own[p]: the history level (below) the jobs of p bring p to
  Late,         \* may OANDA publish a bar after its close, or never?
  MaxFaults,    \* bound: failed fetches, analyses and Broker hand-overs
  MaxCrashes    \* bound: crashes of the orchestrator process

(* The history a pair has in the cache.  The strategies of a pair may need  *)
(* fewer bars than the timeframe's merged requirement, which is the maximum *)
(* over its pairs.                                                          *)
NoBars == 0          \* nothing stored
TooFew == 1          \* fewer bars than the pair's own unit needs
UnitMet == 2         \* enough for the unit, too few for the requirement
RequirementMet == 3  \* enough for the requirement

Bars == 1 .. MaxBar
BarOrNone == 0 .. MaxBar
Stages == {"fetch", "analyze", "mark", "hand"}

ASSUME ConstantsAssumption ==
  /\ IsFiniteSet(Pairs)
  /\ MaxBar \in Nat \ {0}
  /\ Cross \subseteq Bars
  /\ Lookback \in Nat \ {0}
  /\ Own \in [Pairs -> {UnitMet, RequirementMet}]
  /\ Late \in BOOLEAN
  /\ MaxFaults \in Nat
  /\ MaxCrashes \in Nat

VARIABLES
  clock,      \* position among the closes and the ends of their buffers
  published,  \* published[p]: the bars OANDA serves as complete
  cache,      \* cache[p]: the latest bar stored in market_data
  held,       \* held[p]: the history level of p in market_data
  up,         \* is the orchestrator process running?
  started,    \* Secretary._startup_done
  next,       \* CandleTimeline._next_fetch_at as a clock position, 0: unset
  rev,        \* rev[p]: GLOBAL_CANDLE_REVISIONS, the last bar marked
  job,        \* job[p]: the job of p in the running batch
  handed,     \* handed[p]: the bars whose analyses the Broker processed
  lost,       \* lost[p]: the bars whose hand-over raised an exception
  fired,      \* fired[p]: the bars whose crossovers were handed over
  lapses      \* faults and crashes so far

env == <<clock, published>>
store == <<cache, held>>
process == <<up, started, next>>
outcome == <<handed, lost, fired>>
pipelineVars == <<clock, published, cache, held, up, started, next, rev, job,
                  handed, lost, fired, lapses>>

NoJob == [stage |-> "none", trig |-> 0, boot |-> FALSE, catchup |-> FALSE,
          bar |-> 0]
Jobs == [stage : Stages, trig : BarOrNone, boot : BOOLEAN, catchup : BOOLEAN,
         bar : BarOrNone]

PipelineTyped ==
  /\ clock \in 2 .. 2 * MaxBar + 1
  /\ published \in [Pairs -> SUBSET Bars]
  /\ cache \in [Pairs -> BarOrNone]
  /\ held \in [Pairs -> NoBars .. RequirementMet]
  /\ up \in BOOLEAN
  /\ started \in BOOLEAN
  /\ next \in 0 .. 2 * MaxBar + 3
  /\ rev \in [Pairs -> BarOrNone]
  /\ job \in [Pairs -> Jobs \cup {NoJob}]
  /\ handed \in [Pairs -> SUBSET Bars]
  /\ lost \in [Pairs -> SUBSET Bars]
  /\ fired \in [Pairs -> SUBSET Cross]
  /\ lapses \in [faults : 0 .. MaxFaults, crashes : 0 .. MaxCrashes]

-----------------------------------------------------------------------------
(* The calendar and the schedule.                                           *)

\* The latest closed bar at the present instant.
Expected == clock \div 2

NextCloseAtMutant == 2 * (Expected + 2) + 1  \* mutant: one close too far

\* The close after the present one, plus the buffer.
NextCloseAt == 2 * (Expected + 1) + 1

\* The newest bar OANDA serves for p, as a set.
Newest(p) == {b \in published[p] : \A c \in published[p] : c <= b}

CoversMutant(p, e) == cache[p] # 0 /\ cache[p] >= e  \* mutant: the cache covers

\* The revision of p is at or past bar e.
Covers(p, e) == rev[p] # 0 /\ rev[p] >= e

CacheComplete(p) == cache[p] # 0 /\ cache[p] = Expected

-----------------------------------------------------------------------------
(* The environment: the clock and OANDA.                                    *)

PipelineInit ==
  /\ clock = 3
  /\ published = [p \in Pairs |-> {1}]
  /\ held \in [Pairs -> NoBars .. RequirementMet]
  /\ cache = [p \in Pairs |-> IF held[p] = NoBars THEN 0 ELSE 1]
  /\ up = TRUE
  /\ started = FALSE
  /\ next = 0
  /\ rev = [p \in Pairs |-> 0]
  /\ job = [p \in Pairs |-> NoJob]
  /\ handed = [p \in Pairs |-> {}]
  /\ lost = [p \in Pairs |-> {}]
  /\ fired = [p \in Pairs |-> {}]
  /\ lapses = [faults |-> 0, crashes |-> 0]

\* Time moves to the next close or to the end of the buffer.  A punctual
\* OANDA publishes the bar that closes for every pair.
Advance ==
  /\ clock < 2 * MaxBar + 1
  /\ clock' = clock + 1
  /\ published' = IF Late \/ clock % 2 = 0 THEN published
                  ELSE [p \in Pairs |-> published[p] \cup {(clock + 1) \div 2}]
  /\ UNCHANGED <<store, process, rev, job, outcome, lapses>>

\* A bar is served late; the bars it jumps over had no ticks.
Publish(p, b) ==
  /\ Late
  /\ b <= Expected /\ \A c \in published[p] : c < b
  /\ published' = [published EXCEPT ![p] = @ \cup {b}]
  /\ UNCHANGED <<clock, store, process, rev, job, outcome, lapses>>

\* An incremental sync stores the bar served after the latest stored one: the
\* bars it may leave as the latest.
NextServed(p) ==
  LET newer == {b \in published[p] : b > cache[p]}
  IN IF newer = {} THEN {cache[p]} ELSE {b \in newer : \A c \in newer : b <= c}

\* Bringing a short history to level h extends it backwards, its newest bar
\* stays; an empty one takes the newest bars.
Extended(p) == IF held[p] = NoBars THEN Newest(p) ELSE {cache[p]}

\* The web API's own Data Manager syncs the shared cache for a chart.
WebSync(p) ==
  /\ \E h \in held[p] .. RequirementMet :
       /\ h # NoBars
       /\ held' = [held EXCEPT ![p] = h]
       /\ \E b \in IF h > held[p] THEN Extended(p) ELSE NextServed(p) :
            cache' = [cache EXCEPT ![p] = b]
  /\ UNCHANGED <<env, process, rev, job, outcome, lapses>>

-----------------------------------------------------------------------------
(* The Secretary's tick: plan one batch, run it to its end.                 *)

Idle == \A p \in Pairs : job[p] = NoJob

\* The batch: a job for every pair of due, a bootstrap job for those of short.
Dispatch(due, short, catchup) ==
  job' = [p \in Pairs |->
            IF p \in due THEN [stage |-> "fetch", trig |-> Expected,
                               boot |-> p \in short, catchup |-> catchup,
                               bar |-> 0]
            ELSE NoJob]

\* The one startup pass: pairs whose cache is short or behind, or whose
\* latest stored bar is not the marked one, are caught up.
Startup ==
  LET short == {p \in Pairs : held[p] < UnitMet \/ ~CacheComplete(p)}
      changed == {p \in Pairs : cache[p] # 0 /\ rev[p] # cache[p]}
  IN /\ up /\ ~started /\ Idle
     /\ started' = TRUE
     /\ next' = NextCloseAt
     /\ Dispatch(short \cup changed, short, TRUE)
     /\ UNCHANGED <<env, store, up, rev, outcome, lapses>>

\* The timeframe is due: a job for every pair, all of them bootstrap jobs when
\* one pair has fewer bars than the merged requirement.
DueTick ==
  LET short == {p \in Pairs : \E q \in Pairs : held[q] # RequirementMet}
  IN /\ up /\ started /\ Idle
     /\ next # 0 /\ clock >= next
     /\ next' = NextCloseAt
     /\ Dispatch(Pairs, short, FALSE)
     /\ UNCHANGED <<env, store, up, started, rev, outcome, lapses>>

\* Nothing is due: the pairs whose cache or whose revision is behind.
FallbackTick ==
  LET behind == {p \in Pairs : ~CacheComplete(p) \/ ~Covers(p, Expected)}
  IN /\ up /\ started /\ Idle
     /\ next # 0 /\ clock < next
     /\ behind # {}
     /\ Dispatch(behind, {}, FALSE)
     /\ UNCHANGED <<env, store, process, rev, outcome, lapses>>

BatchTick == Startup \/ DueTick \/ FallbackTick

-----------------------------------------------------------------------------
(* One job: fetch and decide, analyse, mark, hand over.                     *)

\* The bars that may be the latest stored one after the job's sync.
Bootstraps(p) == job[p].boot /\ held[p] < UnitMet

Synced(p) == IF Bootstraps(p) THEN Extended(p)
             ELSE IF held[p] = NoBars THEN {0}
             ELSE NextServed(p)

SkipsMutant(p, latest) ==  \* mutant: only an unchanged, complete cache skips
  /\ ~job[p].boot /\ ~job[p].catchup
  /\ latest # 0 /\ rev[p] = latest
  /\ latest = cache[p]
  /\ latest = job[p].trig

\* The bar was analysed before: its revision covers the close the job is for,
\* or the fetch brought nothing and the cache ends at that close.
Skips(p, latest) ==
  /\ ~job[p].boot /\ ~job[p].catchup
  /\ \/ Covers(p, job[p].trig)
     \/ /\ latest # 0 /\ rev[p] = latest
        /\ latest = cache[p]
        /\ latest = job[p].trig

Fetch(p) ==
  /\ job[p].stage = "fetch"
  /\ held' = [held EXCEPT ![p] = IF Bootstraps(p) THEN Own[p] ELSE @]
  /\ \E latest \in Synced(p) :
       /\ cache' = [cache EXCEPT ![p] = latest]
       /\ job' = [job EXCEPT ![p] = IF Skips(p, latest) THEN NoJob
                                    ELSE [@ EXCEPT !.stage = "analyze"]]
  /\ UNCHANGED <<env, process, rev, outcome, lapses>>

\* The analyst fetches live candles and evaluates the strategies on them.
Analyze(p) ==
  /\ job[p].stage = "analyze"
  /\ \E b \in Newest(p) :
       job' = [job EXCEPT ![p] = [@ EXCEPT !.stage = "mark", !.bar = b]]
  /\ UNCHANGED <<env, store, process, rev, outcome, lapses>>

\* The bar is marked before the Broker has seen the result.
Mark(p) ==
  /\ job[p].stage = "mark"
  /\ rev' = [rev EXCEPT ![p] = job[p].bar]
  /\ job' = [job EXCEPT ![p] = [@ EXCEPT !.stage = "hand"]]
  /\ UNCHANGED <<env, store, process, outcome, lapses>>

\* The crossover an analysis reports: the one of its bar, or in a catch-up the
\* most recent one of the last Lookback bars.
Signal(p) ==
  LET seen == {b \in Cross : IF job[p].catchup
                               THEN b <= job[p].bar /\ job[p].bar < b + Lookback
                               ELSE b = job[p].bar}
  IN {b \in seen : \A c \in seen : c <= b}

HandOver(p) ==
  /\ job[p].stage = "hand"
  /\ handed' = [handed EXCEPT ![p] = @ \cup {job[p].bar}]
  /\ fired' = [fired EXCEPT ![p] = @ \cup Signal(p)]
  /\ job' = [job EXCEPT ![p] = NoJob]
  /\ UNCHANGED <<env, store, process, rev, lost, lapses>>

\* A fetch or an analysis fails, or the Broker raises: the job ends.
Fail(p) ==
  /\ job[p].stage \in {"fetch", "analyze", "hand"}
  /\ lapses.faults < MaxFaults
  /\ lapses' = [lapses EXCEPT !.faults = @ + 1]
  /\ lost' = IF job[p].stage = "hand"
               THEN [lost EXCEPT ![p] = @ \cup {job[p].bar}] ELSE lost
  /\ job' = [job EXCEPT ![p] = NoJob]
  /\ UNCHANGED <<env, store, process, rev, handed, fired>>

CrashMutant ==  \* mutant: the revisions survive, as if they were stored
  /\ up
  /\ lapses.crashes < MaxCrashes
  /\ lapses' = [lapses EXCEPT !.crashes = @ + 1]
  /\ up' = FALSE
  /\ started' = FALSE
  /\ next' = 0
  /\ job' = [p \in Pairs |-> NoJob]
  /\ UNCHANGED <<env, store, rev, outcome>>

\* The process dies: the schedule, the revisions and the batch go with it.
Crash ==
  /\ up
  /\ lapses.crashes < MaxCrashes
  /\ lapses' = [lapses EXCEPT !.crashes = @ + 1]
  /\ up' = FALSE
  /\ started' = FALSE
  /\ next' = 0
  /\ rev' = [p \in Pairs |-> 0]
  /\ job' = [p \in Pairs |-> NoJob]
  /\ UNCHANGED <<env, store, outcome>>

Restart ==
  /\ ~up
  /\ up' = TRUE
  /\ UNCHANGED <<env, store, started, next, rev, job, outcome, lapses>>

-----------------------------------------------------------------------------
Step(p) == Fetch(p) \/ Analyze(p) \/ Mark(p) \/ HandOver(p)

PipelineNext ==
  \/ Advance
  \/ BatchTick
  \/ Crash
  \/ Restart
  \/ \E p \in Pairs : \/ Step(p)
                      \/ Fail(p)
                      \/ WebSync(p)
                      \/ \E b \in Bars : Publish(p, b)

Pipeline == PipelineInit /\ [][PipelineNext]_pipelineVars

\* Secretary ticks every few seconds, its jobs run, systemd restarts it.
FairPipeline ==
  /\ Pipeline
  /\ WF_pipelineVars(BatchTick)
  /\ WF_pipelineVars(Restart)
  /\ \A p \in Pairs : WF_pipelineVars(Step(p))

-----------------------------------------------------------------------------
(* Properties.                                                              *)

\* A revision never stands for a bar nobody traded on: once the bar is marked
\* and its job is over, the Broker processed its analysis, or raised on it.
\* Marking comes first in the code, so a crash in between must take the mark
\* with it for the restart's catch-up to analyse the bar again.
CoveredDelivered ==
  \A p \in Pairs :
    rev[p] # 0 /\ job[p].stage # "hand" => rev[p] \in handed[p] \cup lost[p]

\* A bar is analysed again only by a bootstrap or a catch-up job, or while
\* OANDA has not served the bar that the job was made for.
ReanalysisExplained ==
  \A p \in Pairs :
    job[p].stage = "mark" /\ rev[p] # 0 /\ job[p].bar = rev[p] =>
      job[p].boot \/ job[p].catchup \/ job[p].bar < job[p].trig

\* A crossover on the newest bar is handed to the Broker, lost to an exception
\* or overtaken by a newer bar; late bars, failed jobs, crashes and restarts
\* only delay it.
Signalled ==
  \A p \in Pairs : \A b \in Cross :
    (b \in Newest(p)) ~> (b \in fired[p] \/ b \in lost[p] \/ b \notin Newest(p))

\* "Run strategy analysis per candle close": outside warm-up and catch-up, no
\* bar is analysed and handed to the Broker a second time.
OncePerClose ==
  \A p \in Pairs :
    job[p].stage = "mark" /\ rev[p] # 0 /\ job[p].bar = rev[p] =>
      job[p].boot \/ job[p].catchup
=============================================================================
