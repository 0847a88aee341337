# A verification project for BrokerAI

BrokerAI trades currencies for one user: bots in an orchestrator process fetch
candles, analyse strategies on them, gate the signals, place orders at OANDA and
watch the exits, while a web API process shows and edits the same Postgres
database and the same files. This directory holds TLA+ modules for the parts of
it whose correctness depends on interleaving, failure and order, the TLC runs
that check them on small instances, and TLAPS proofs of what matters most for
instances of every size.

Paths below are relative to `src/src/brokerai/` unless they start with `docs/`,
`tests/`, `scripts/` or `systemd/`. `PROJECT.json` maps every definition to the
lines it models, and lists the hazards, at the line where each bites, with the
properties that would catch it.

1. [Inventory](#1-inventory)
2. [Modules](#2-modules)
3. [Runs](#3-runs)
4. [Claims the code does not keep](#4-claims-the-code-does-not-keep)
5. [Proofs](#5-proofs)
6. [What is not modelled](#6-what-is-not-modelled)
7. [Plan](#7-plan)

## 1. Inventory

### Processes and what they share

| process | runs | keeps in memory |
|---|---|---|
| orchestrator (`core/orchestrator.py`) | Secretary, Data Manager, Data Analyst, Broker, Associate, Researcher, AI Manager, all asyncio tasks of one event loop; the control loop that serves the file queue | the bots' status, `GLOBAL_CANDLE_REVISIONS`, the candle schedule, `_local_task` and tokens of its background tasks, the process-wide `_SYNC_LOCK`, the OANDA client and its session |
| web API (`web/app.py`) | request handlers, the trade sync timer, the backup and update timers, the backtest coordinator with its pool of worker processes | the same module-level state again, a second copy; `_manual_ready` and `_inflight` of the coordinator, `_inflight_feedback`, the cached update check |
| command line (`cli/`) | one command | nothing |
| updater (`scripts/auto-update.sh`) | one update, as a systemd unit or as a child of the web API | nothing |

They share Postgres (each `session_scope` is a transaction at READ COMMITTED,
and almost every repository method reads a JSON document, changes the copy and
writes it back without a row lock), `background_tasks.json` (under a file
lock), the control inbox and outbox directories, the profile file, the report
store, and the OANDA account. Each process may die at any await; systemd starts
both services again (`Restart=always`).

### Components

The last column names the module; section 6 says what it leaves out.

| component | state | operations | hard because | correct if | module |
|---|---|---|---|---|---|
| **Trade ledger and broker sync** (`trading/broker/`, `trading/oanda_*.py`, `db/repositories/broker_lots.py`, `broker_sync_state.py`) | one row per trade with an overlay (strategy, close reason); cursor, lease, time of the last sync | `run_broker_sync`, `place_from_intent`, `close_lot`, cursor repair, reconciliation | two processes, unlocked read-modify-write, crash between any two steps, a lease that lapses, OANDA moving on meanwhile | no trade is missed, no live trade's row stays closed, closed ones end closed, strategies keep their trades | `TradeLedger` |
| **Broker events, closes and exposure** (`trading/broker/`, `integrations/oanda.py`, `db/repositories/broker_events.py`, `instrument_exposure.py`) | event journal, the close details of a row, exposure rollup | persist, infer a close reason, backfill, recompute, retain | answers of different moments, cursor gaps, rows closed by hand, by stop and by drift | rows, events and exposure agree with the account once synced | `BrokerBook` |
| **Background task runner** (`tasks/`) | the file `{active, recent}`; per process `_local_task`, tokens | `start_task`, `update_task`, `finish_task_*`, `cancel_task`, reconciliation | one record for several kinds, two processes that see different workers, torn file | exclusive kinds exclude each other, records are truthful, nothing is blocked for ever, only what was asked is cancelled | `TaskRunner` |
| **Trade execution** (`trading/broker_execution.py`, `trading/execution_gates.py`, `bots/broker/`, `bots/associate/`) | a run's copies of the day's counts and open pairs; the ledger; the broker's positions | intake of an analysis, exit monitors, gates, priority, order, record | decisions on copies read before awaits, `pipeline_concurrency` runs at a time, the order filled before it is recorded | at most one position of a pair, `max_trades_per_day`, no same-bar flip, no batch that blocks the next | `Execution`, `EntryBook` |
| **OANDA client** (`integrations/oanda_client.py`) | the shared client object, its HTTP session, lock and age | `_ensure_client`, `_recreate_client`, `request`, `close_oanda_client` | a session replaced or closed while others wait on it, retries of orders | the next request gets an open session, every request ends | `OandaClient` |
| **Secretary and the candle pipeline** (`bots/secretary/`, `trading/candle_revision.py`, `bots/data_analyzer/`) | `_startup_done`, `_next_fetch_at`, revisions, the batch of jobs | `run_startup_pass`, `tick`, `run_job`: fetch, skip, analyse, mark, hand over | late bars, failed jobs, crashes, warm-up beside live bars, the cache synced by the web API at the same time | every close is analysed, its signal reaches the Broker, and does so once | `CandlePipeline` |
| **Data Manager and candle cache** (`bots/data_manager/`, `trading/data/`, `db/repositories/market_data.py`) | bars per pair and timeframe, high-water mark | incremental sync, bootstrap, backfill of a window, repair of holes | several callers of two processes, query by query; the broker and the calendar disagree about bars | an answer "covered" is true, syncs tear no hole, the newest bar arrives | `CandleCache` |
| **Orchestrator and bot control** (`core/`, `bots/base.py`) | bots and their asyncio tasks; inbox and outbox files | `start_bot`, `stop_bot`, `_run_bot`, `ControlClient.submit`, `ControlServer.process_pending` | the client gives up while the server acts; a crash between carrying a command out and removing it | a client is told what happened; states are the bots'; no command stays | `BotControl` |
| **Backtesting: the queue** (`backtesting/coordinator.py`, `worker.py`, `db/repositories/backtest_runs.py`, `web/routes/backtest_runs.py`) | a row per run with columns beside a document; the coordinator's tables; a worker process per run | queue, start, cancel, claim, resume, progress, finish | whole-document writes from handlers and workers, broken pool, restart of the API | a run is executed once, cancellations stick, every run ends | `BacktestRuns` |
| **Backtesting: the simulation** (`backtesting/engine.py`, `simulator.py`, `trading/presets/`) | a position, equity, cool-down | one bar after the other: exits, session rules, entries | the order of the rules within a bar, gaps, calendars | a loss is bounded by its risk, positions are held only when the rules allow it | `Simulation`, `Sessions` |
| **Backtest feedback** (`backtesting/ai_feedback.py`, `feedback_suggestions.py`) | status and suggestions on a run's document, `_inflight_feedback` | request, hook, job, validation of suggestions | requests and the hook overlap at awaits, restarts | one job per run at a time, stored suggestions within bounds | `Feedback` |
| **Researcher: schedule** (`bots/secretary/scheduled_research.py`, `tasks/research.py`, `bots/researcher/weekly.py`) | report files, last-run marks, when to look again | the Secretary's tick, runs by hand, deletion, settings | settings saved by pages meanwhile, a mark apart from its file | due reports are written, and once | `Research` |
| **Researcher: the daily report** (`bots/researcher/runner.py`, `news.py`, `llm.py`) | found articles, sections, errors | sources, deduplication, contributors, synthesis | any call may be limited or fail, and the run goes on | nothing is lost below the limit, what lacks is among the errors | `DailyReport` |
| **Analysis history** (`db/repositories/strategy_analysis_runs.py`) | a row per strategy, pair, candle, purpose | persist, mark manual, store the gates' outcome, delete | look-up and write in two transactions | manual results stay | `AnalysisRuns` |
| **Strategies** (`db/repositories/strategies.py`, `strategies/`) | a document, columns and numbered versions | save, switch, delete, badge | whole-document writes, pruning | saved versions can be had back | `Strategies` |
| **Session gate and hold** (`trading/session_gate.py`, `trading/session_hold.py`, `market_sessions.py`) | none | calendar functions of an instant | time zones, week ends, daily breaks | held only in sessions | `Sessions` |
| **Config backup and restore** (`config_backup/`) | entries before changes, full backups, retention, schedule | a change with its backup, scheduled backup, restore, delete | redundant entries, pruning, requests that overlap, crashes | undo of the last change, one scheduled backup at an instant | `ConfigBackup` |
| **Authentication** (`auth/`, `web/routes/auth.py`) | a profile in a file and in Postgres, a user at Supabase, factors, photos | set-up, login, MFA, password, e-mail, photo | three stores without a transaction, any of which may fail | the last password signs in, the photo shown exists | `Account` |
| **AI models and their roles** (`web/routes/models_settings.py`, `db/repositories/ai_models.py`, `data_connections.py`) | a row per model, one settings document, capabilities | create, switch, delete, set roles, merge duplicates | several transactions in a row | a role stays with a model that exists | `Sources` |
| **Updater** (`web/update_runner.py`, `scripts/auto-update.sh`, `systemd/`) | checked-out commit, dependencies, services, lock file, cached check | check, trigger, save settings, run | web server, timer and script run by themselves; steps fail half-way | the lock names what runs, the check is of the track configured | `Updater` |
| **Activity and cost, previews and logs, web API, schema, frontend, deployment** | - | - | - | they call the components above or show them | - |

### How they interact

```
            Secretary.tick ----> research task ---> report store      Research,
                 | jobs (one batch at a time,                         DailyReport
                 |       pipeline_concurrency at a time)
   OANDA ---> Data Manager ---> market_data <--- web API (charts)     CandleCache
  candles        |
                 v
            Data Analyst --- marks the bar ---> GLOBAL_CANDLE_REVISIONS
                 | analysis ---> strategy_analysis_runs               AnalysisRuns
                 |                                      CandlePipeline
  - - - - - - - -|- - - - - - - - - - - - - - - - - - - - - - - - - -
                 v                                          Execution
            Broker.process_analysis: exits, gates, priority
                 | intent                  ^
                 v                         | open pairs, daily counts
            Associate ---> OANDA           |                          OandaClient
  - - - - - - - - | - - - - | - - - - - - -|- - - - - - - - - - - - -
                 v         v              |               TradeLedger, BrokerBook
   place_from_intent, close_lot ---> broker_lots, broker_events
                           ^              ^
             run_broker_sync (both processes: timers and forced)

   start_task, cancel_task, reconcile ---> background_tasks.json   TaskRunner
   API handlers, coordinator, workers ---> backtest_runs           BacktestRuns
                                 worker ---> engine                Simulation
          coordinator's hook, requests ---> feedback               Feedback
   CLI, API ---> inbox ---> control loop ---> bots                 BotControl
   pages ---> settings, strategies, models, profile                ConfigBackup,
                                               Strategies, Sources, Account
   timer, API ---> auto-update.sh ---> both services               Updater
```

The seams between the modules are the places where one abstracts the other:
`Execution!SyncLot` stands for a whole `TradeLedger` sync, `CandlePipeline!HandOver`
for a whole `Execution` run, `CandlePipeline!NextServed` and `Extended` for
`CandleCache`, TaskRunner's work for whatever a kind does, `BacktestRuns`' bars
for `Simulation`, and a research task of `Research` for a `DailyReport`.

## 2. Modules

| module | models | with |
|---|---|---|
| `TradeLedger` | the ledger and `run_broker_sync` in two processes | `MCTradeLedger`, `TradeLedger_proof` |
| `BrokerBook` | what one sync writes: rows, events, exposure, close reasons | `Services`, `Records_proof` |
| `TaskRunner` | the background tasks of two processes | `MCTaskRunner`, `MCEnds`, `TaskRunner_proof` |
| `Execution` | runs from analysis to order | `MCExecution`, `MCEnds`, `Execution_proof` |
| `EntryBook` | abstract: what the execution gates promise about entries | `Execution` refines it (`Implements`) |
| `OandaClient` | the shared HTTP session and its requests | `Services`, `MCEnds` |
| `CandlePipeline` | the Secretary's pipeline for the pairs of a timeframe | `MCCandlePipeline`, `Orchestrator_proof` |
| `CandleCache` | the stored bars of one pair and timeframe and who fills them | `MCCandleCache`, `CandleCache_proof` |
| `BotControl` | the orchestrator's bots and the file queue that controls them | `MCBotControl`, `Orchestrator_proof` |
| `BacktestRuns` | queued backtests: handlers, coordinator, workers | `MCBacktestRuns`, `BacktestRuns_proof` |
| `Simulation`, `Sessions` | one backtest bar by bar; the calendar it asks | `Services` |
| `Feedback` | a model's feedback on a backtest | `Services` |
| `Research` | when reports are due and what was made | `Services` |
| `DailyReport` | one run of the daily report | `Records` |
| `AnalysisRuns` | the history of analyses | `Services` |
| `Strategies` | strategies, versions, badges | `Services` |
| `ConfigBackup` | backups and restores of the settings | `Records` |
| `Account` | profile, provider's user, factors, photos | `Services` |
| `Sources` | AI models and the roles they are given | `Services` |
| `Updater` | checks, triggers and runs of updates | `MCUpdater`, `Services` |
| `Services` | composes `Account`, `Research`, `Simulation`, `Strategies`, `Sources`, `Feedback`, `BrokerBook`, `AnalysisRuns`, `Updater` and `OandaClient`, for any values of their constants | `Records`, `Services_proof`, `Records_proof` |
| `Records` | adds `ConfigBackup` and `DailyReport` on the same terms | `MCServices`, `Records_proof` |

An `MC` module adds model values and the functions a `.cfg` substitutes for
constants; a definition named `...Mutant` is a plausible bug in the definition
that follows it, kept beside the code it distorts and used by no specification.

`Records`, with the parts of `Services`, and `MCEnds` each put several modules side by side. The initial state
chooses a `part`, and only the steps of that part's module happen; a variable
stands for those of its name in all the parts that have one. A property `P` of a
part is stated as `part = "..." => M!P`. The parts do not interact, so a run says
of each exactly what a run of its own would say, and so does a proof: by
`PartStep` a step is one of the part that runs. `Services` and `Records` leave all
constants open and `MCServices` gives them values. `Services` is a module of its own
because a proof is the slower the more its module declares; `PartsKept` proves that
nothing is lost by that: a behaviour of `AllSpec`, which `services` checks, is one of
`Services!Spec` if it runs one of its ten parts.

### TradeLedger

Atomicity is the point of this module. A step is one REST call or one half of a
transaction: `ReadState`/`AcquireLease`, `ReadRow`/`UpsertLot`,
`OpReadRow`/`UpsertPlaced` and so on, with the copy that was read held in
`seen`, `tx` or `opSeen` between the halves. Every other step may come between.

| state | code |
|---|---|
| `lastTxn`, `openTxn`, `closeTxn` | the OANDA account (external): transaction ids of its openings and closings |
| `row[t]` | the `broker_lots` document of trade `t`: state, whether it has a strategy, close reason |
| `doc` | the `broker_sync_state` document: cursor, lock holder, whether the lease runs, whether the last sync is older than the stale threshold |
| `pc`, `from`, `at`, `live`, `lots`, `todo` | where `run_broker_sync` is and its locals: `cursor_before`, the transaction the poll returned, `live_open_lots`, `broker_lots`, the rest of the loop |
| `opPc`, `opTrade`, `opLot` | a placement or a close in flight |

| actions | code |
|---|---|
| `SyncStart` ... `AcquireLease`, `SkipLockHeld` | `_SYNC_LOCK`, `get_cursor`, `try_acquire_sync_lock` (`trading/broker/sync.py`) |
| `Poll`, `Collect` | cursor repair, then the changes or the full account; the second REST call, with every answer `LiveChoices` allows |
| `ReadRow`, `UpsertLot`, `PersistEvents` | the two loops of `upsert_lot`, before and after the events are stored |
| `ListDrifted`, `CloseDrifted`, `Relist`, `Reconciled` | `reconcile_local_open_against_broker` (`trading/broker/reconciliation.py`) |
| `Commit`, `NoteError`, `Release`, `SyncFail` | `set_state`, the `except` and the `finally` |
| `PlaceOrder`, `FetchPlaced`, `UpsertPlaced` | `place_from_intent` |
| `PickLot`, `ReadLot`, `CloseTrade`, `UpsertClosed`, `Annotate`, `Relabel` | the exit monitor's and the page's `close_lot` |
| `OpenElsewhere`, `StopFills`, `Crash`, `Restart`, `LeaseExpires`, `Overrun`, `Outage` | OANDA, time, systemd |

Time is abstract: that a lease runs out under the sync that holds it, or that
nothing synced for longer than the threshold, are actions with bounds of their
own. Dead is a lock holder whose process is gone; it blocks until it expires,
because the holder string contains the process id and the restarted one differs.

### TaskRunner

A step is what a process does under the file lock together with the code up to
its next `await`: the record and the process's own tables change together.
`active` is the active record (id, cancellation, whether it is older than the
stale limit); `verdict` is the status each task has in `recent`. `worker`, `how`
and `thrown` describe the asyncio tasks: where each is, how it ended, whether
`Task.cancel` hit it. `local`, `tokens`, `events` and `busy` are what each
process keeps: `_local_task`, `_tokens`, the tokens that are set, and
`cancel_task` between its record and its local half. `Finalize` is the common
part of `finish_task_*`, which move whatever record is active. `Excl` is the
table of `tasks/kinds.py`; the research kinds are one kind of the model, for
they all exclude each other. A research task records an activity after it
finished its record (`Reports`, stage `reporting`).

### Execution

A run `r` is one `process_analysis` (or a manual analysis, `Batch[r] = 0`): it
reads the day's counts (`Start`), lists and evaluates exits (`ListOpen`, `Keep`,
`Exit`, `RecordExit`, `ExitClosed`, `ExitFails`), passes the gates and resolves
priorities (`Decide`), and has the Associate place and record at most one order
(`Refuse`, `Fill`, `Record`, `RecordFails`). The gates that look only at the
run's own candles, news or model answers are the free choice of `picked` and of
`Decide`'s second disjunct; the gates that look at what other runs write
(`Passes`) are exact. `SlotFree` and `Due` are `gather_limited` and the
Secretary's one batch at a time. In `EntryBook` an entry is one atomic check and
increment; `Implements` says that, although the code's check and its order are
many steps apart, the orders come out as if they were not. With a call that
fails they may not (section 4), so that `EntryBook`'s promise is one until the first
failed call: `sound`, which `Fail` ends.

### CandlePipeline

The clock takes the positions that the code can tell apart: a close (2k) and
the end of `CLOSE_BUFFER` after it (2k + 1). `published` is what OANDA serves as
complete, `cache` and `held` what `market_data` has (newest bar, and how much
history on the scale none, too few, enough for the pair's own unit, enough for
the timeframe's merged requirement). `Startup`, `DueTick` and `FallbackTick` are
the three ways the Secretary makes a batch; `Fetch` (with `Synced` and `Skips`),
`Analyze`, `Mark` and `HandOver` the stages of `run_job`; `Fail` a failed fetch,
analysis or Broker. The revisions are memory, so `Crash` clears them together
with the schedule and the batch.

### BacktestRuns

As in `TradeLedger`, each repository method has a read and a write half
(`ReadStart`/`WriteStart`, `ReadCancel`/`WriteCancel`, `ReadFinish`/`WriteFinish`,
`Check`/`Progress`, `ReadPeriod`/`WritePeriod`); only `claim_next_queued` locks
its row and is one step (`Claim`). SQLAlchemy writes an attribute only if its
new value differs from the loaded one (`Flush`), which is why a stale write can
leave the columns alone and still replace the document: `row` has both. The
coordinator's loop is `Reap`, `PickReady`, `Claim` and `Submit`; a worker goes
through `pooled`, `bars` and `progress`, `ending`, `finish`, `period` and
`badge`. `Restart` ends the workers with the API process: `stop` shuts the pool
down and systemd kills the service's control group.

### BotControl

A client writes one file, polls for its answer and gives up in between
(`Submit`, `WriteCommand`, `ReadAnswer`, `GiveUp`, `Abandon`); creating a file
and filling it are two steps on both sides. `ListInbox`, `Handle`, `Started`,
`Cancelled`, `Stopped`, `CreateAnswer`, `WriteAnswer` and `Remove` are
`process_pending`, with a step at each `await`: `start_bot` waits for
`on_start`, `stop_bot` for the cancelled task and then for `on_stop`. A bot's
task is `Tick`, `TickDone`, `TickFails` and `TaskEnds`. `Terminate`, `StopBots`
and `Exit` are the orderly end, `Die` the other one, `Boot` and `BootDone` the
restart, which starts every bot. `done`, `cut`, `withdrawn` and `broken` only
record what happened, for the properties.

### CandleCache

Bars are numbered; `Quoted` are those the broker has, `Calendar` those
`market_calendar` expects, and they differ. A worker calls `CandleCache.sync`
for its candle or to warm up (`Step`, `Warm`), a reader `ensure_coverage`, a
backfill of a window or the repair of holes (`Ensure`, `Backfill`, `Repair`).
Every query and every HTTP request is a step (`Sync`, `Bootstrap`, `Earliest`,
`FillBackward`, `Incremental`, `FetchNew`, `FetchLast`, `Page`, `Upsert`,
`Check`, `ReadLatest`, `Mark`, ...), with what was read kept in `op[p]`. `Cap`
is OANDA's limit of 5000 bars and `ChunkSize` the setting that pages below it.
`Lookback` is the 500 bars among which `expected_latest_closed_bar` looks for one
the calendar expects; it may find none.

### OandaClient

A request takes the object from the registry, waits for the limiter, takes the
session under the object's lock (`Get`, `Limit`, `Reuse`, `Renew`, `Open`), sends
without it (`Send`, `Act`, `Reply`, `Refuse`) and, after a lost or overloaded answer,
replaces the session and tries again (`Lost`, `Overloaded`, `Recreate`).
`CloseAll` is `close_oanda_client`, which Secretary and Broker call when they stop,
the backtest worker when it ends and the web server when it shuts down.

### BrokerBook

`TradeLedger` has the locks and one bit per row; this module has one sync at a
time and what is in the answers. `log` is the account's transactions in batches
(an order and its fill, a close, a stop); each REST call of the sync sees the
log of its own moment. `event` is the journal, `row` the close details of the
lots, `exposure` the rollup. The sync bootstraps, polls, repairs a cursor gap,
persists events, upserts lots, infers close reasons, reconciles, recomputes
child orders and exposure and backfills closed lots in the order of `sync.py`.

### Simulation and Sessions

`Sessions` has no state: the sessions of Sydney, Asia, London and New York, the
second in hours of UTC and the others in those of New York, the daily break and the weekend, next openings and closings, as
operators of an hour. `Simulation` is the engine for one strategy: `Bar` takes
a bar's open, high, low and close from three prices, closes a position by stop,
target, exit monitor or session rule in the engine's order, and may open one.
Averages are abstracted to the side the fast one is on.

### Feedback, AnalysisRuns, Strategies

Three documents that several callers write, with a step at every `await` or
transaction: in `Feedback` the request's and the hook's checks against
`_inflight_feedback`, the job, and the validation and merging of what the model
wrote (`Normalized` drops values out of bounds and unknown paths); in
`AnalysisRuns` the look-up and the merge of a result, with the unique constraint
between; in `Strategies` the read of a row and the write of document, columns
and version, in which a row lock makes the write one step.

### Research and DailyReport

`Research` counts time in parts of a day and has the Secretary's look at every
tick, the markers (`last_..._date`) written apart from the file, the one
research task of `TaskRunner`, requests of users, and failures of the store.
`DailyReport` is inside that task: the sources of a group answer in any order
under a limit of concurrency, `Gather` merges them without duplicates up to the limit
(`IsMerged` says which articles that keeps), contributors analyse in turn, calls are retried when limited, and the synthesis closes the report.

### ConfigBackup

A request that changes a section first records it as it was, unless that entry
would only complete a to and fro (`Redundant`), prunes, and then changes it, in
transactions of their own. Restores bring back a full backup's sections, or the
configuration at a change by merging later entries.

### Account, Sources

`Account` has the three stores of a profile; a handler is a sequence of calls to
them, each of which may fail, and what earlier calls did stays. `Sources` has a
model's row, the roles in the settings document and the capabilities; merging
duplicates repoints the roles, moves capabilities and deletes rows, one
transaction each, and a request may end between any two.

### Updater

`auto-update.sh` line by line where it can fail: track and pin, `fetch`,
comparison, checkout, dependencies, restarts, lock file. The web server starts
the unit, falls back to a child of its own, checks and caches. The unit is
`Type=oneshot`, which systemd calls "activating" while it runs: so every
question whether an update is running is answered no, and scripts overlap.

## 3. Runs

Every property of a passing run has a mutant in `PROJECT.json`: a bug in a mapped
definition under which TLC finds that property violated.

| run | instance | properties |
|---|---|---|
| `faults` | `TradeLedger`, two processes, one trade, 3 transactions; one crash or failed call, one lease that lapses under its sync, one long outage | `CursorCovered`, `LiveImported` |
| `live` | one process under fairness, two trades of two keys, 4 transactions, two operations (so that a lot that was placed can be closed), one fault | `DriftJustified`, `Healed`, `EventuallyImported` |
| `shared` | `TaskRunner`, two processes, three tasks of up to two kinds, one cancellation, one crash, which may tear the file | `ActiveHonest`, `OrphansDead`, `KindsApart`, `RecordsTrue` |
| `serial` | `Execution`, a batch of two pairs, then the first pair again, two slots, two strategies that may trade once, one failed call | `OnePosition`, `NoFlip`, `Implements` |
| `ends` | three modules under fairness: two tasks with a torn file; three runs of one pair, two timeframes, one slot, one failed call; one order and one read with one lost answer, three tries and one bot that ends | `FinallyFree`, `EveryRunEnds`, `EveryCallEnds` |
| `bars` | `CandlePipeline` under fairness, two pairs, one of which needs less history, two closes, late bars, one failure, one crash | `CoveredDelivered`, `ReanalysisExplained`, `Signalled` |
| `cache` | `CandleCache` under fairness, one worker and one reader, bars up to 5, of which the broker never quotes one that the calendar expects and the calendar does not expect another, so that a lookback of one bar may find none, pages of three bars, one fault | `AnswerHonest`, `Delivered`, `NotTorn`, `CatchesUp` |
| `runs` | `BacktestRuns` under fairness, two runs, one slot, one start by hand, one cancellation, one failure | `NotTwice`, `Settled`, `EveryRunEnds` |
| `control` | `BotControl` under fairness, one bot, two clients, one end of the process (orderly or not), one exception | `Honest`, `WithdrawnNotRun`, `Drained` |
| `services` | twelve parts: `Account`, `ConfigBackup`, `Research`, `Simulation`, `Strategies`, `Sources`, `DailyReport`, `Feedback`, `BrokerBook`, `AnalysisRuns`, `Updater`, `OandaClient` | one for each: the twelve named in "What they show" with its part |
| `cancel`, `update` | see section 4 | one each, violated |

The module's `TypeOK` is a conjunct of `Honest` and of the properties of
`services`; elsewhere it is proved (section 5).

### What they show

**The ledger.** The two processes may both think they hold the lease, overwrite
each other's documents and move the cursor backwards; still the cursor never
passes a trade without a row (`CursorCovered`), because every sync writes its
rows before the cursor and the cursor it writes is the one its own poll
returned. After an outage the repair moves the cursor without the changes of the
gap; then a trade that opened and closed in the gap may stay unknown, but one
that is still open does not (`LiveImported`), for the poll lists every open
trade. Reconciliation compares rows with an older poll; `DriftJustified` says
that with one position per pair and direction it still only lists rows of trades
that have closed by now, or had not opened when it polled. When it does close a
live one's row, or a stale write does, later syncs mend it, and rows of closed
trades end closed as long as some other trade is open (`Healed`; without one
reconciliation is skipped, `sync.py:526`).

**What a sync writes.** Only a trade whose stop filled is taken for a stop-out,
and if the account was never left alone for long every stop-out is known for one
(`ReasonTrue`, on which the cool-down after a loss counts); no event
below the cursor is missing, and when a sync has caught up the open rows have
their units and the exposures are the broker's (`BookBalanced`). Together they are `BookTrue`.

**Tasks.** An active record has a worker that runs, or the means to tell that it
has none (`ActiveHonest`), in whichever process one asks (`OrphansDead`), so
that no record blocks the runner for ever (`FinallyFree`), be the file torn or
not. When all tasks exclude one another they do so across processes, crashes and
cancellations, and only requested cancellations happen (`KindsApart`), their
records are true and completions are recorded (`RecordsTrue`).

**Execution.** As long as no call has failed, and with one run per pair in a
batch, orders are as if each had been checked and booked in one atomic step
(`Implements`), although counts and open pairs are read long before. A run
that closed its trade on a reverse crossover places no order on that bar (`NoFlip`).
Failures do not block a batch: every run ends (`EveryRunEnds`).

**OANDA's client.** Whoever replaces, renews or closes a session, the object
never keeps a closed one (`HeldOpen`), and every request ends (`EveryCallEnds`),
although it may end with an error after a bot closed the session in use.

**Candles.** A mark is memory and comes before the hand-over, so it must not
outlive a crash (`CoveredDelivered`); bars are analysed again only for the three
reasons `ReanalysisExplained` lists; and a crossover on the newest bar reaches the
Broker in the end, unless its hand-over raised or a newer bar overtook it
(`Signalled`). In the cache below, a caller that is told yes has its bars or the
newest the calendar expected when it was compared, if it expected any
(`AnswerHonest`); a backfill
or repair that ends without an error has stored what the broker had
(`Delivered`); a sync stores next to what is stored, whatever was stored since it
looked (`NotTorn`), unless it found the table empty and a backfill of old bars
overtook it, which was seen on a larger instance;
and the cache catches up with the broker after any fault (`CatchesUp`).

**Control.** A client that is told its command was carried out is told the truth,
one that is told it failed is too unless the process ended over it, and the
heartbeat reports the bots as they are (`Honest`); a command taken back in time
is never run (`WithdrawnNotRun`); and no command stays in the inbox (`Drained`),
because a restarted process serves it. It may then be carried out twice, which
`RepeatsAreCut` (section 5) confines to that case.

**Backtests.** Stale copies of a row may be written back at any time, and no run
is executed twice at a time (`NotTwice`); a written cancellation is in the
column the worker reads, whatever `update_progress` does to the document, and
badges settle (`Settled`); and runs end, but for the exceptions `EveryRunEnds`
names. In the simulation no trade loses more than its risk, and positions are
held over session ends only as far as the last covered bar (`RulesHeld`). A model is asked
about a run by one job at a time, and what is offered can be applied (`OneJob`).

**Reports and history.** Reports are made once for their day or week and what is due
is there (`ReportedOnce`); a report that is written has a reason for whatever it
lacks (`NewsAccounted`); the result of a manual analysis is lost only with its
row or to a writer that had read the row before (`ManualStays`).

**Settings and access.** A change made while nothing else ran can be undone from
its backup and a scheduled instant makes one backup (`UndoLast`); saved
strategies can be had back (`SavedKept`); a role stays with a model that is
there (`RolesFollow`); the last password works and the photo named exists, with the
exceptions their statements list (`AccountKept`).

**Updates.** A script that nothing ran beside records only a commit that is
checked out, installed and running, whatever failed before it, and a check that
is shown is of the track configured (`UpdateTrue`).

### Bounds

- `MaxTxn` 3 or 4: the account opens a trade, closes it, and another one; with
  the first transaction of the account that is all a trade can do. A second
  trade with its own opening and closing is what `DriftHealed` needs.
- `MaxOps` 2 in `live`: a placement and then the close of what was placed, each
  beside the sync. None in `faults`, whose second process makes up for it.
- One fault of each kind: after a crash or failure everything starts over from
  stored state, which a second one could not make worse than a sync in progress
  already does. `BacktestRuns` was also explored with two slots, two
  cancellations and two failures (10 million states), with the same result. The
  safety results that are proved hold for any number. `live` was also explored
  with one outage instead of the fault, and with one operation beside both.
- Two processes are what the deployment has. `live` has one, to afford the
  operations; with two processes and no operations `EventuallyImported` (one
  trade, one fault), `LiveHealed` (one trade) and `DriftJustified` (two trades)
  were explored and hold as well.
- Three tasks: the one that is active, the one that replaces it and the one that
  is cancelled by mistake. Two tasks suffice for `FinallyFree`.
- `Runs` of three: two at once and one after; `Limit` 2 is the smallest limit
  that lets runs overlap.
- `MaxBar` 2 in `bars`: the bar before and the bar that closes, which is late,
  missed or repeated; with `Lookback` 2 a catch-up can reach back to it.
- `MaxBar` 5 in `cache`: a stored stretch, one bar the broker lacks, and a window
  that is longer than a page, so that paging, bootstrap and repair all happen.
- `control`: two clients are what makes a pass over the inbox work from an old
  list; one end of the process and one exception are enough for a command that
  is carried out twice and a bot in error.
- `services`: two or three calls by two callers, so that two overlap and a third
  meets what they left (one caller in `ConfigBackup`, which overlaps with the
  ticker, and in `Sources`, whose request overlaps with its own end); limits of one
  or two entries, articles or retries, which two of them exceed; one or two faults.
  `Research` has weeks of a Monday, a Friday and a day of the weekend, since its other days
  do the same, and runs through one of them in half days; `Simulation` runs from
  Thursday evening to the end of the week with three prices, over a night and
  the weekend; `BrokerBook` has six batches of transactions of two trades, enough to open,
  close and stop them around a lull. `ConfigBackup` has two sections, one in a file, and
  two settings: one entry of each kind with an instant and a restart of the web
  server, which pruning and the schedule need, and three changes of four entries,
  which a redundant entry needs. `DailyReport` has a group, three sources and up to two
  contributors, one of which searches by itself.
- `CHECK_DEADLOCK FALSE` in all runs but those of `TradeLedger`, which syncs for
  ever, and of `CandlePipeline`, which can always sync its cache: tasks, runs,
  requests and scripts come to an end.

### Fairness

| module | assumed | because |
|---|---|---|
| `TradeLedger` | syncs are started, their steps taken, dead processes restarted, leases expire | `_trade_sync_loop` and the bots' ticks never stop; HTTP calls have timeouts; `Restart=always`; `lock_until` is a time. Nothing is assumed of orders, closes or OANDA |
| `TaskRunner` | workers proceed, somebody asks `get_active_task`, `cancel_task` returns, restarts, records age | the bots' ticks and the page poll it; research calls have timeouts. Starts and cancellations need not happen |
| `Execution` | the calls of a run return | asyncio and the timeouts of the clients. Nothing is assumed of the ledger's sync |
| `OandaClient` | each request takes its steps | the limiter refills, the lock is held for no longer than a connect, calls have timeouts |
| `CandlePipeline` | ticks, job steps and restarts | the tick interval, `gather_limited`, systemd. Not that the clock moves, that OANDA publishes, or that anybody looks at a chart |
| `CandleCache` | time, queries and calls return; the workers' syncs, strongly | pipelines run again and again, and a sync that is refused once is tried at the next bar. Readers need not come |
| `BacktestRuns` | handlers return, the coordinator loops, workers proceed, and a run has a last bar | strong fairness for taking a run, since the loop visits every run whenever a slot is free; strong fairness for leaving `bars`, since the bars of a run are finite |
| `BotControl` | the control loop serves, a file that was created is written, cancelled tasks unwind, start and end of the process complete, and it is started again | `process_pending` runs every tick; the hooks' calls have timeouts; `Restart=always`. Clients need not send or wait |

The parts of `services` and the violated runs state none.

## 4. Claims the code does not keep

Each is a definition in the module, next to the weaker property that does hold.
The first two are runs; for the others the last column says which constants to
change in which configuration, or which part of `MCServices` to give the
definition as an invariant of.

| claim, and where it is made | what happens | to see it |
|---|---|---|
| `CancelledOnRequest`: a task is cancelled when it "receives a cooperative cancel request." (`tasks/cancellation.py:9`) | `cancel_task` cancels the asyncio task the process started last, which need not be the one whose record it marked (`tasks/runner.py:310`); `update_task` checks the token of whatever record is active | run `cancel` |
| `StartedLooks`: the updater runs "manually with --force" (`scripts/auto-update.sh:7`) | the unit that a manual trigger starts runs the script without `--force`, so with automatic updates switched off "Update started" updates nothing | run `update` |
| `StrategyKept`: "strategy-level attribution" (`docs/architecture/oanda-entity-linkages.md:206`) | a sync reads the row that an earlier sync imported, the placement writes the strategy, the sync writes its copy back without it (`broker_lots.py:459`) | `live` with `Spec`, one trade, `MaxTxn = 3`, `MaxOps = 1`, no fault |
| `OnePosition`: "Block a new entry when the pair already has an open position." (`trading/execution_gates.py:96`) | the jobs of a pair's two timeframes are in one batch, both read the pair as free, both order | `serial` with two runs and lots, `Pair <- OnePair`, `Units <- Frames`, `MaxTrades <- Twice`, `MaxFaults = 0` |
| `Implements`: "Daily trade count below `risk.max_trades_per_day`" (`docs/releases/v0.0.5.md:107`) | a manual analysis beside a batch reads the same counts | `serial` with `Pair <- OnePair`, `Batch <- Manual`, `OnePerPair = FALSE`, `Limit = 1`, `MaxFaults = 0` |
| `NoFlip` with a failing call | an exit that closed its trade at OANDA and then failed is not remembered as a reverse crossover | `serial`, without the antecedent of `NoFlip` |
| `OncePerClose`: "Run strategy analysis per candle close" (`README.md:42` of the repository, and `tests/test_secretary_pipeline.py:270`) | while OANDA has not served the bar that has closed, each tick analyses the bar before it again and hands it to the Broker | `bars` with `Pipeline`, `Own <- Even`, no fault or crash; it holds with `Late = FALSE` |
| `LeaseExclusive`: "Acquire a distributed lease for OANDA account polling." (`db/repositories/broker_sync_state.py:109`) | the lease is read and written in one transaction but without a lock on the row | `faults` with no fault, overrun or outage |
| `ReasonKept`: "Preserve strategy_exit / manual_close when already set" (`trading/broker/close_reason.py:49`) | the first upsert loop of the next sync clears the reason (`sync.py:482`), the second infers another one | `live` with one trade and no fault |
| `DriftJustifiedSameKey`: "Close local open lots that are no longer open on the broker." (`trading/broker/reconciliation.py:36`) | of two live trades of one pair and direction one row is closed as a duplicate (`:96`) and reopened by the next poll | `live` with `Key <- SharedKey`, `MaxOps = 0`, no fault |
| `EventuallyImported` without its exception for outages | the cursor repair skips the changes of the gap, so a trade that opened and closed in it is never imported | drop the disjunct, `live` with one outage |
| `Exclusive`, `CompletionRecorded` without `OneKind` | two kinds that do not exclude each other (research and a broker sync) in one process: the second start replaces the first record, so a third task of the first kind may start, and the first one's completion is not recorded | `shared` with one process, no cancellation and no fault |
| `OrphansResumed`: "Resume orphaned running runs after API restart." (`backtesting/coordinator.py:126`) | a run whose cancellation was requested before the restart is not resumed and stays running for ever | `runs` |
| `ResultsKept`: `request_cancel` looks at the status first | its stale copy, written after `finish_run`, takes the results and the final status of the document back | `runs` |
| `OrderOnce`: an order is placed once | an order whose answer was lost, or answered with a server error, is sent again without an idempotency key (`integrations/oanda_client.py:226`) | `services` or `ends`, their parts for `OandaClient` |
| `Delivered` with pages below the broker's limit: the docstring of `fetch_candles_range` (`integrations/oanda.py:1203`) | a page asks for one bar more than the setting, for the newest may still be forming, and keeps the last ones of what it got: if all were closed, the page's first bar is dropped | `cache` with `ChunkSize = 2` |
| `DetailsTrue`: a closed trade has the price and P/L of its closing fills | a close in several fills keeps the last fill's | `BrokerBook` with `Strays = FALSE`, `MaxLog = 7`, `MaxLulls = 1`, `MaxFaults = 0` |
| `ManualKept`: the reason somebody gave is kept (`close_reason.py:49`) | as `ReasonKept`, from the page's `close_trade` | `BrokerBook` with `MaxLulls = 0` |
| `PointInTime`: a restore to a change is the configuration of that time (`config_backup/incremental_payload.py:25` against `:33`) | other sections come back one change late | `services`, its part `backup` |
| `OnlyBadge`: an update of a badge changes nothing else (`db/repositories/strategies.py:373`) | it writes the whole document it read before (`:379`) | `strategies` |
| `OneSourceKept`: "keeps one source per provider type" (`db/repositories/ai_models.py:179`) | two overlapping requests each create one; no constraint forbids it | `sources` with two callers |

Two more were seen while reading and need no interleaving.
The calls that list transactions return normalized ones, which the bootstrap and the
cursor repair normalize again (`integrations/oanda.py:278`,
`trading/oanda_bootstrap.py:95`); the second pass finds no `tradeID` and drops trade,
order and batch. `tests/test_oanda_bootstrap.py:68` expects the trade, with raw
transactions in place of what the call returns. And `list_open_lots` ends at 200
rows (`db/repositories/broker_lots.py:675`), beyond which reconciliation and
exposure ignore what is open.

None of these is excused by the model: the properties that do hold carry their
exceptions in their statements (`DistinctKeys`, `OneKind`, the assumption
`Serial` of `OneTradePerPair`, "as long as no call has failed", `asked \ byHand`).

## 5. Proofs

Each `_proof` module extends its component's module and proves, with an inductive
invariant checked by TLC first, facts about `Spec` for every value of the
constants that the module's assumptions allow, and whatever the table adds.
`ServicesAssumption` says that bounds are naturals, that a value for "nobody" is no
profile, and what a model's text is parsed into; `BackupAssumption` that the schedule
is no browser, that no section has the name of an occasion such as a restore, that
sections may start with the value 1, and that the retention keeps at least one full
backup (`normalize_full_retention`); `ReportAssumption` that the contributors, sources
and answers are lists, of models and of the four kinds of sources, and that limits are naturals; `CalendarAssumption` that a
day has units, that a report is due within the day of its market, whatever the
time zone, and that the calendar starts after day 2, for 0 means no report.
No theorem assumes a bound: `MaxFaults`, `MaxTxn` and the like are arbitrary
naturals, and processes, trades, tasks, runs, pairs, bots and clients arbitrary
sets (finite where a count is taken).

| theorem | says | further assumption |
|---|---|---|
| `TradeLedger_proof!TypeCorrect` | `[]TypeOK` | - |
| `CursorNeverAhead` | `[]CursorCovered` | - |
| `LiveNeverMissing` | `[]LiveImported` | - |
| `ClosesOnlyDrift` | `[]DriftJustified` | - (its antecedent is `DistinctKeys`) |
| `TaskRunner_proof!TypeCorrect` | `[]TypeOK` | - |
| `ActiveNeverLies` | `[]ActiveHonest` | - |
| `NoFalseOrphan` | `[]OrphansDead` | - |
| `KindsStayApart` | `[]KindsApart` | - (its antecedent is `OneKind`) |
| `RecordsStayTrue` | `[]RecordsTrue` | - (likewise) |
| `Execution_proof!TypeCorrect` | `[]TypeOK` | - |
| `GatesAlwaysSee` | `[]GatesSee` | - |
| `NeverFlips` | `[]NoFlip`, as long as no call has failed: section 4 shows it necessary | - |
| `OneTradePerPair` | `[]OnePosition`, as long as no call has failed | runs of one pair in different batches (`Serial`): section 4 shows it necessary |
| `ImplementsBook` | `Spec => Implements`: `Execution` refines `EntryBook` | `Serial`, likewise |
| `Orchestrator_proof!PipelineTypeCorrect` | `[]PipelineTyped` | - |
| `MarkedMeansDelivered` | `[]CoveredDelivered` | - |
| `RepeatsAreExplained` | `[]ReanalysisExplained` | - |
| `CandleCache_proof!CacheTyped` | `[]TypeOK` | - |
| `AnswersHonestly` | `[]AnswerHonest` | - |
| `Delivers` | `[]Delivered` | pages as large as the broker's limit (`ChunkSize = Cap`), which is the default of the setting: section 4 shows it necessary |
| `NeverTorn` | `Spec => NotTorn` | at most two bars close during one call (`Near`): the last resort of a sync fetches three bars |
| `BacktestRuns_proof!TypeCorrect` | `[]TypeOK`, `max_concurrent` included | - |
| `ExecutedOnceAtATime` | `[]NotTwice` | - |
| `EndsAreSettled` | `[]Settled` | - |
| `Orchestrator_proof!AlwaysHonest` | `[]Honest`, the type invariant included | - |
| `TakenBackNeverRun` | `[]WithdrawnNotRun` | - |
| `RepeatsAreCut` | `[]RepeatExplained` | - |
| `Services_proof!AccountKeeps` | `[]AccountKept` | - |
| `VersionsKept` | `[]SavedKept` | at least one version is kept (`Keep`) |
| `SimulationHolds` | `[]RulesHeld` | time frames of whole hours up to a day, that begin at their multiples; New York four or five hours behind UTC |
| `RolesAreFollowed` | `[]RolesFollow` | one request at a time works on the models: section 6 says what two can do |
| `OneJobAtATime` | `[]OneJob` | - |
| `ManualKept` | `Spec => ManualStays` | - |
| `ReportsOnce` | `[]OncePerSlot` and the types of `Research` | - |
| `ReportsInTime` | `[]ReportedOnce` | the market's date is not behind that of UTC (`Zone >= 0`): section 6 says what happens where it is |
| `SessionsOpen` | `[]HeldOpen`, the bound of tries included | - |
| `UpdatesTrue` | `[]UpdateTrue` | - |
| `Records_proof!BookKept` | `[]BookTrue` | - |
| `ReportAccounted` | `[]NewsAccounted` | - |
| `UndoKept` | `[]UndoLast` | - |
| `PartsKept` | `AllSpec /\ part \notin {"backup", "report"} => Spec` | - |

**TradeLedger.** `CursorCovered` speaks of the stored cursor only, but a cursor
travels: a process reads it, polls from it and writes another one, and copies of
the document lie about in `seen`. The inductive invariant is `TypeInv` (a typed
state whose copies are typed) and `CoverInv`: OANDA's transactions are ordered
(`Ordered`), the document is covered (`DocCover`), and for each process what its
sync has promised so far is covered (`SyncCover`: the cursor it polls from, the
rows it has yet to write, the copies it holds), while an operation that writes a
row back has read one (`OpCover`). The argument is that rows are never deleted, so
a trade's row stays once it is there, and that at each place of the sync every
trade up to `at` has a row or is still in `todo`.

`DriftInv` is for the reconciliation, which compares rows listed now with trades
polled earlier. It says what a sync carries from its poll: a trade that was open
at the transaction it polled up to, and that its second call did not find open,
has closed by now, and so has every such trade whose row it is about to close.
Trades never reopen, and by `DistinctKeys` no open trade is taken for the
duplicate of another, so the steps of everybody else keep it.

**TaskRunner.** `Held` says that the live worker of the active record is the
`_local_task` of its process and that this process has not died; `Started` that
only started tasks are known to anybody; `Shown` that a cancellation in progress
is on the record, so that a task cancelled before its first step leaves one that
can be reconciled. `OrphansDead` follows: `_worker_still_running` compares
with `_local_task` only in the owner's process, and there a live worker means
that `_local_task` is set. For tasks that all exclude one another, `Alone` says
that no worker lives beside the active one, `Fresh` that a task not yet started
has left no trace, `Requested` that whatever carries a cancellation (a token, a
`Task.cancel`, a record) is of a task somebody asked to cancel, and `Left`, `Told`
and `Recorded` follow a task's end from the worker into `recent`.

**Execution.** `Local` ties the lot a run holds to the order it placed; `Behind`
says that the ledger never runs ahead of the broker, so that a row is only
closed after the trade is. With them `GatesSee` is inductive: the ledger lags
behind the broker only over the order that a run is just recording.
`Turned` says that a run which closed a trade on a reverse crossover is still
recording that, or has `flipped` set, or is past its gates without an intent.
`Alone` and `Free` are what the batches and the gate give `OneTradePerPair`: no
two runs of a pair are active at once, and a run that is about to place an order
has seen a ledger, accurate by `GatesSee`, without a trade of its pair.

`ImplementsBook` maps the state to the abstract book step by step: before the
first failure the book's trades are the lots open at the broker, its orders per
pair and strategy those placed today. `FillEnters` shows that a fill is the
book's entry, whose guards (the pair is free, the day's limit is not reached) the
run has checked long before; they still hold because no other run of the pair
was active since (`AloneNext`), and because what the run read is what the book
holds (`Traced`, `Exact`). `CloseLeaves` shows that a close is the book's leave. Every other
step, and every step after the first failure, changes nothing in the book.

**CandlePipeline.** `HandMarked`: a job about to hand over has marked its bar.
`MarkHasBar` and `AheadOfRevision`: a job that got past `Skips` without being a
bootstrap or catch-up job found its close uncovered, so a bar it repeats lies
before that close. A mark is only ever set by the job that hands it over next.

**CandleCache.** Stored bars are never deleted (`Grows`), so what a caller counted
stays a lower bound of what is there. `EnsureOK` follows one call of
`ensure_coverage`, which adds what its sync stored to a count taken before: the
bars it fetches lie before the oldest or after the latest of those it counted,
so the sum never counts a bar twice, and where the cache is complete instead,
the bar that was expected is stored. `RangeOK` follows a backfill or a repair from page to page: everything it owes before
its cursor is stored or among the bars just fetched. Its step is `WholePage`: a page
as large as the limit is not cut at its first bar, and a page that comes back
short is the last (`ShortPage`). `PathOK` says what a sync has read and fetched:
its bars and those it found meet without a quoted bar between them, which
`NewestMeet`, `OlderMeet`, `NewerMeet` and `LastMeet` show for the four kinds of
fetch; `UpsertMeets` derives that storing them opens no hole, whatever was stored
in between. The lemmas about `Min`, `Max`, `FirstN` and `LastN` of finite sets
come from well-founded induction on their subsets (`MinExists`).

**BacktestRuns.** `NotTwice` cannot be read off the rows, since stale copies make
them lie. The invariant says where a run is taken from: the claimed run is not
in the table, a queued row whose document says so has no worker, and the copies
the start and cancel handlers hold cannot make such a row out of one that is
taken (`Taken`, `DocFollows`, `CancelRead`, `StartRead`, `Stored`, `SlotKept`).
`Settled` speaks of runs nobody starts by hand (`HandsOff`), of which no step takes
back the end or, until then, the cancellation (`Forward`): who has read a
cancellation still finds it in the row (`CancelSeen`, `Asked`), a worker at its end
leaves an ended row ended (`Closing`), and a badge is at running only while its
run is claimed or has a worker (`Lit`).

**BotControl.** What a client is told depends on files that outlive the process.
`Hand` ties the command in hand to its file and to what `start_bot` or `stop_bot`
wait for; `Torn` says that a file not yet written is not carried out; `Spent`
that a command which was carried out is being answered, or was cut, or has
neither file nor place in the list; `TakenBack` that one which was taken back
has no file to be read, however old the list; `Accepted` and `Failed` follow the answer back to the
client. For the heartbeat, `Waits` says in which state a bot and its task are
while a command waits, and `Unwinding` that only the bot being stopped has a
cancelled task.

**OandaClient.** A session belongs to one object, and whoever closes it, the
renewal, the replacement or `close_oanda_client`, makes its object forget it in
the same step (`Owned`). An object is made only after its predecessor was closed
(`Counted`). A request is counted before it is sent again (`TriesOK`).

**Updater.** Scripts overlap, so the invariant is about those that are `alone`: the
start of another ends that (`JobsOK`). What such a script has installed is what is
checked out, and what it restarted runs that (`TreeOK`), for no other script
exists that could change it. A check remembers its track or is overtaken by the
settings that change it (`ChecksOK`).

**AnalysisRuns.** A writer's copy is of a row that was there, or it is to insert one
(`WritersOK`); what a merge loses, the copy it was made from had lost too.

**Strategies.** The history of a strategy is numbered without repetition, and the
newest saved version is the last one (`NumbersOK`, `HistoryOK`). A save numbers
its version by the rows it sees and prunes afterwards; `LastOf` of the history is
then what was saved last. That no more are saved than `MaxSaves` allows needs a
count of the edits in flight (`Counting`).

**Feedback.** Whoever is between `check` and the last marker of a job is in
`_inflight_feedback` and nobody else is for that run (`HoldersOK`), through every
failure; so the one who asks is the only one, and had found the run not completed
(`AskingOK`). `Normalized` keeps the best change of each path, found among
finitely many that are ordered (`Earlier`), whose values are within bounds
(`OfferOK`).

**Account.** Passwords, names and photos are numbers that are never given twice, so
that the invariant can say which the stores have (`NumbersUsed`): the provider has
the last password unless a request failed over it (`ProviderOK`), an
upload in flight is in the store and no profile names it yet (`UploadsOK`), and
a photo is removed only when neither profile names it (`NamedOK`), so that the
requests of other browsers cannot take it away.

**Sources.** Models that are merged are of one provider, and the kept one stays
while the others go (`Mergeable`); the settings that are read for it are those
that are stored, since one request works at a time (`Timely`). So a role whose
model goes was repointed before (`Followed`). With two requests it is false
(section 6), hence the instance.

**Research.** Marks are written apart from the files and overwritten by users, so
`MarksTrue` says of every copy of the settings, wherever it is held, that what
it marks as made was made or has been deleted since (`Settled`, which only grows).
`OnceMade` says that who works unforced works on what is not there. Looks that
are put off are the hard half: `Awaited(k)` says that at every time before the
next look, each report of k that is due then is settled. It rests on `NothingNew`:
from now to the next run, nothing becomes due that is not due now. That is
arithmetic of the calendar: days of UTC and of the market differ by at most one
(`Days`), a run lies within the day of its market (`RunDay`), and the week of a
debrief is the last one whose Friday has run (`WeeksAre`). `LooksTrue` collects
what an undisturbed tick has looked at (`Quiet`), `GivenUp` is for the looks put
off for ever when a model is off. TLC checked `ResearchInv` with the market's date
ahead of UTC, the same, and behind.

**Simulation.** A position is never beyond its stop at the close of a bar that left
it open, since the stop is looked at before everything else (`ExitsAt`), and its
size is rounded to the nearest unit (`UnitsAre`); so whatever closes it costs the
stop's distance at most (`LossBounded`, where the product of a number of units and a
price is). A bar at which a position was kept is not the last before a gap (`KeptOn`),
which says of the first bar outside of the sessions that the position was opened in
the bar before. Of the calendar this needs that the next bar is a bar (`NextHour`):
wherever the market is closed it is open a bar, a day or two days later
(`Reopens`), and that the week closes at some hour (`ClosesAt`), for an exit that is
forced no earlier than entries are refused to come after them (`EntersEarly`).

**BrokerBook.** A poll shows every lot as it is at some moment between the position it
reads up to and now, and each call a moment of its own (`LotsOK`); what the poll leaves
out has not changed since the cursor, for the account's log tells of every change
(`ShownAt`, `Still`). So a row that nothing has changed since the cursor is true
(`RowsTrue`), a reason is given for a stop-out only after the stop filled (`RowsOK`),
and whatever lies below the position is read or stored before the cursor moves there
(`NewsOK`, `EventsOK`). A lull or a failed transaction may end that, and the
property says what is left then. A transaction is in the log for ever and names
only earlier ones (`LogInv`); a trade ends once (`OneEnd`). The exposures are recomputed
from the rows at the end of each sync, so they are true where the rows were
(`ExposureOK`).

**DailyReport.** A list of articles is a set of places in the sources' lists, so that
merging them is no recursion: whether a place is kept depends on the places kept
before it (`IsMerged`). The last place kept has fewer than the limit before it, so that
no more than the limit are kept, and where fewer are, a place that is not kept is the
same as an earlier one (`MergeKeeps`; that there is a last one, `LastPlace`, is
well-founded induction on finite sets). The rest follows the stages: what a source answered is found once all have ended
(`SearchOK`), one contributor works at a time on the groups that have news and what
those before it lack was told (`AnalysisOK`, `Told`), and a merge is asked for once
(`TailOK`).

**ConfigBackup.** `Newest(s, v)` says that the newest change that holds section `s` holds
`v`. A request that ran alone has seen what is configured (`AloneOK`), and from its
entry on `Newest` holds for all it saw, for nobody else was there to record a later
one; if its entry was redundant, an equal one is the newest of those that stay
(`RedundantIs`). Its own change turns that into `UndosOK`, which the others keep: whoever
records a change of the section ends it (`Superseded`), and pruning removes a newer
entry only with all older ones (`ExcessIs`). `RequestOK` ties what a request has seen and
drops to its trigger, since what is dropped must not hold another section; no id
that is to be dropped is given to a new entry. `ScheduledOK` says that the backup of this
instant is the latest full one, which pruning keeps, so that the schedule marks it
instead of making another, be its mark lost to a crash or overwritten.

**Only model-checked.** Liveness under fairness (`Healed`, `EventuallyImported`,
`FinallyFree`, `EveryRunEnds` twice, `EveryCallEnds`, `Signalled`, `CatchesUp`,
`Drained`), which needs ENABLED. Every safety property of a passing run is a theorem.

## 6. What is not modelled

**Data.** Prices (but for the bars of `Simulation`), indicators, signals, prompts,
language model answers, news texts, position sizes and wording are free choices
where the control flow depends on them and absent where it does not.

**Whole components.** Activity and cost, previews and logs of the Secretary,
the web API's routing, migrations, frontend and deployment have no module:
they call the components above, show them, or are generated. `PROJECT.json` names
the reason for each.

Within the modules, what is left out and what was seen there while reading:

- **TradeLedger, BrokerBook.** Paper lots and a reset of the practice account. In a
  lull longer than the stale threshold closes are only seen as drift. Details of a
  close of ours count its last fill only. Event expiry is written and nothing
  purges. A cursor gap repair without deduplication may be refused by PostgreSQL.
  A partially closed trade's stop order disappears until the next sync.
  Exposure is validated before it is recomputed. `set_state` always
  refreshes `last_sync_at`.
- **TaskRunner.** Progress texts and the length of `recent`; kinds are reduced to
  their exclusion and to whether they go on after their record.
- **Execution.** The change of day (the day's counts only grow), partial closes,
  settings that change under a run.
- **CandlePipeline.** Other timeframes and watches. A startup pass without a
  runnable strategy consumes `_startup_done`; this is fixed in the initial state.
- **CandleCache.** The charts' streams and `watch`. A warm-up of a short and stale
  cache fetches backwards only and reports yes; the incremental sync neither fills
  an empty store nor a hole that a window left, and the properties say so.
- **OandaClient.** The other integrations, which have no shared state. An object
  that was closed and is used once more opens a session nobody closes.
- **BotControl.** What the bots do in a tick. A start of a bot in error whose task
  still runs is accepted and clears nothing; `heartbeat.json` keeps saying running
  after the process ended; answers nobody read stay in the outbox.
- **BacktestRuns.** Deletion of a run, a change of `max_concurrent`, failing
  database calls.
- **Simulation.** Missing bars and indicator values. The engine's view of the
  indicators may reach ahead of the bar (`engine.py:56`, against its docstring at
  `:60`); a gap through a stop fills at the stop's price; a position opened in the
  last covered bar is held across the gap; live trading evaluates one bar earlier.
- **Feedback.** Prompts. A restart leaves status "running" for ever; a database
  failure at the first marker leaves the run in `_inflight_feedback` until then;
  the hook may repeat what was just completed; the sample of the equity curve
  drops its tail when the stride is one (`ai_feedback.py:179`).
- **AnalysisRuns.** A manual mark or an outcome may be lost to overlapping
  whole-document writes (`ManualHolds` excludes the writer that had read before); a
  restart between merge and gates leaves no outcome.
- **Research.** Daily files per model and a skipped broker. A weekly report is never
  looked at again after its model was off and on; one that failed is launched
  every minute; a daily report due before the opening of Tokyo or Sydney is made at UTC midnight; in a
  market behind UTC (New York) the run of the day before makes the new day's report
  due from UTC midnight on, but it is looked for then only after a restart or a
  change of the settings, and otherwise at its own run (`ReportedInTime` holds there for the
  weekly reports only, for which it is proved in every market); a settings page saved meanwhile loses the mark (what `OncePerSlot` survives).
- **DailyReport.** Costs, written without waiting. Contributors of one slug overwrite
  each other's file; the limit filled by free sources drops the paid ones.
- **The report library.** Its migration from disk to bucket may upload an older
  file over a newer one (`report_store.py:285`), and marks of what was read are
  written without a lock. Not modelled.
- **Strategies.** A badge writes the whole document; a deletion that overlaps an
  update leaves a version without a strategy; the deadlock of prune and delete,
  which PostgreSQL resolves by failing one, is left out.
- **Sources.** Names, efforts and schedules. Settings read while duplicates merge
  can lose a role; `data_connections` has no unique constraint.
- **ConfigBackup.** Export and import.
- **Account.** OIDC, onboarding, expiry of sessions, local photos, display
  settings. The remark at `store.py:212` ("File profile remains authoritative if
  Postgres is briefly unavailable") is not so: the database's copy is read first. A
  change of the password that fails half-way leaves two that work; a set-up that failed
  over its photo leaves a user at the provider that blocks the address.
- **Updater.** The status page. The unit is never "active" and `update-state.json`
  never written; a failed install is followed by a check that says up to date; the
  fallback script is a child of the web server that it restarts.
- **Liveness tried and left to safety.** `serial` and `shared` under fairness with
  their full instances take more than five minutes; `ends` checks the same
  properties on smaller ones.

## 7. Plan

Written, in this order: `TradeLedger` (it decides what the whole system believes
about money), `TaskRunner`, `Execution` with `EntryBook`, `CandlePipeline`,
`BacktestRuns`; then `BotControl`, `CandleCache` and `OandaClient`, which surround
them, `BrokerBook` and `Simulation`, and the services with documents of their own.

Left:

1. Proofs: `RolesFollow` with several requests, once its exceptions for settings read
   while duplicates merge are stated; of restores to a change, what does come back.
2. Compositions: `Execution` with `TradeLedger`'s sync in place of `SyncLot`;
   `CandlePipeline` with `CandleCache` in place of `NextServed` and `Extended`.
3. The report library, sign-in through a provider and the expiry of sessions.
4. A larger instance of `OandaClient` with two orders, and of `BotControl` with two
   bots, as runs by themselves.
