---------------------------- MODULE ConfigBackup ----------------------------
(***************************************************************************)
(* The history of the settings.  Every request that changes a section of    *)
(* the settings first records the section as it was, unless that only       *)
(* completes a to and fro; full backups are made by hand, by schedule, by   *)
(* import, or as a baseline.  A backup can be restored: its sections only,  *)
(* or the whole configuration as it was at a change.                        *)
(*                                                                          *)
(* A section's value is a number, 0 for an empty one.  Each step of a       *)
(* request is a transaction of its own; other requests run in between.      *)
(***************************************************************************)
EXTENDS Naturals, FiniteSets, Sequences

CONSTANTS
  Browsers, Ticker,     \* each runs one request at a time
  Order,        \* the names of the sections, as they are read
  Files,        \* those in files, never empty; the others are tables
  Values,       \* what a request can set a section to
  Setups        \* settings of the retention, each with bounds

Sections == {Order[i] : i \in DOMAIN Order}
Processes == Browsers \cup {Ticker}

VARIABLES
  setup,    \* setup.changes, setup.fulls: retention; bounds: setup.made backups,
            \* setup.slots scheduled instants, setup.crashes of the web process
  config,   \* config[s]: the value of section s
  history,  \* history[i]: the backup with id i, a newer one has a greater id
  made,     \* backups made so far, the last one's id
  aged,     \* the newest id that is older than CHANGE_FLATTEN_WINDOW
  call,     \* call[p]: the request of browser p, or the scheduled backup
  slot,     \* scheduled instants passed
  marked,   \* last_scheduled_at
  crashes,
  undo,     \* history: undo[s]: the value before the last change, and whether
            \* it was made while nothing else ran
  restored, \* history: the configuration the last restore was to bring back
  inslot    \* history: scheduled backups since this slot began, or since
            \* another full one

vars == <<setup, config, history, made, aged, call, slot, marked, crashes, undo, restored, inslot>>

Nothing == [s \in {} |-> 0]   \* no section
Idle ==
  [do |-> "idle", kind |-> "none", trigger |-> "none", for |-> "none", value |-> 0,
   seen |-> Nothing, ids |-> {}, base |-> 0, entry |-> 0, world |-> Nothing,
   payload |-> Nothing, before |-> Nothing, whole |-> FALSE, resolve |-> FALSE, at |-> 0,
   alone |-> FALSE]
NoUndo == [was |-> 0, alone |-> FALSE]

TypeOK ==
  /\ setup \in Setups
  /\ config \in [Sections -> Values \cup {0}]
  /\ DOMAIN history \subseteq 1..made
  /\ \A i \in DOMAIN history : DOMAIN history[i].payload \subseteq Sections
  /\ made \in 0..setup.made /\ aged \in 0..made /\ DOMAIN call = Processes
  /\ slot \in 0..setup.slots /\ marked \in 0..slot /\ crashes \in 0..setup.crashes
  /\ undo \in [Sections -> [was : Values \cup {0}, alone : BOOLEAN]]

Init ==
  /\ setup \in Setups
  /\ config \in {c \in [Sections -> {0, 1}] : \A s \in Files : c[s] = 1}
  /\ history = Nothing /\ made = 0 /\ aged = 0
  /\ call = [p \in Processes |-> Idle]
  /\ slot = 0 /\ marked = 0 /\ crashes = 0
  /\ undo = [s \in Sections |-> NoUndo] /\ restored = Nothing /\ inslot = 0

----------------------------------------------------------------------------
(* What is recorded.                                                        *)
Changes == {i \in DOMAIN history : history[i].kind = "change"}
Fulls == {i \in DOMAIN history : history[i].kind = "full"}
Without(ids) == [i \in DOMAIN history \ ids |-> history[i]]
IsLast(i, ids) == i \in ids /\ \A j \in ids : j <= i
Latest(ids) == CHOOSE i \in ids : IsLast(i, ids)
Holding(s) == {i \in Changes : s \in DOMAIN history[i].payload}

\* sections_for_trigger: a change touches the section it is named for.
SectionsFor(trigger) == IF trigger \in Sections THEN {trigger} ELSE Sections

\* extract_scoped_sections: an empty list is left out.
Scoped(snapshot, trigger) ==
  [s \in {t \in SectionsFor(trigger) : snapshot[t] # 0} |-> snapshot[s]]

\* The last recent changes, as long as they have this trigger.
Streak(trigger) ==
  {i \in Changes : i > aged /\ \A j \in Changes : j >= i => history[j].trigger = trigger}

\* Those of them, but the last, that recorded this payload.
Equal(trigger, payload) ==
  {i \in Streak(trigger) : history[i].payload = payload /\ ~IsLast(i, Streak(trigger))}

\* A bug: the entry the new one equals is dropped as well.
RedundantMutant(trigger, payload) ==
  {i \in Streak(trigger) : \E j \in Equal(trigger, payload) : j <= i /\ IsLast(j, Equal(trigger, payload))}

\* The changes to drop when the new payload equals an earlier one but the last.
Redundant(trigger, payload) ==
  {i \in Streak(trigger) : \E j \in Equal(trigger, payload) : j < i /\ IsLast(j, Equal(trigger, payload))}

LatestFull == IF Fulls = {} THEN 0 ELSE Latest(Fulls)

\* resolve_payload_at_change: the full backup it was based on, or the latest one
\* before it, and over it the newest value of each section since, up to the entry.
AtChange(id) ==
  LET before == {i \in Fulls : i < id}
      base == IF history[id].base \in Fulls THEN history[id].base ELSE Latest(before)
      since(s) == {i \in Holding(s) : base < i /\ i <= id}
  IN IF history[id].base \notin Fulls /\ before = {} THEN history[id].payload
     ELSE [s \in DOMAIN history[base].payload \cup {t \in Sections : since(t) # {}} |->
             IF since(s) = {} THEN history[base].payload[s] ELSE history[Latest(since(s))].payload[s]]

\* _apply_payload replaces every table, also by nothing; _apply_scoped_payload
\* those that are in the payload.
Applied(payload, whole) ==
  [s \in Sections |-> IF s \in DOMAIN payload THEN payload[s]
                      ELSE IF whole /\ s \notin Files THEN 0 ELSE config[s]]

----------------------------------------------------------------------------
(* The steps of every request that records an entry: its kind and trigger,  *)
(* what is seen of the configuration, and what else the request is for.     *)
Does(p, do) == call[p].do = do
Becomes(p, r) == call' = [call EXCEPT ![p] = r]
End(p) == Becomes(p, Idle)
Active == {p \in Processes : call[p] # Idle}
Lonely(r) == [r EXCEPT !.alone = FALSE]

\* Whatever starts ends the solitude of the others.
Begin(p, r) ==
  /\ call[p] = Idle /\ made < setup.made
  /\ call' = [q \in Processes |->
                IF q = p THEN [r EXCEPT !.alone = (Active = {})] ELSE Lonely(call[q])]

Recording(kind, trigger, for) ==
  [Idle EXCEPT !.do = "capture", !.kind = kind, !.trigger = trigger, !.for = for]

clocks == <<setup, aged, slot, marked, crashes>>
ghosts == <<undo, restored>>

\* capture_snapshot, one section after the other.
Unread(p) == SectionsFor(call[p].trigger) \ DOMAIN call[p].seen
Capture(p) ==
  /\ Does(p, "capture")
  /\ \E i \in DOMAIN Order :
       /\ Order[i] \in Unread(p) /\ \A j \in DOMAIN Order : j < i => Order[j] \notin Unread(p)
       /\ LET seen == call[p].seen IN
          Becomes(p, [call[p] EXCEPT !.seen = [s \in DOMAIN seen \cup {Order[i]} |->
                        IF s = Order[i] THEN config[s] ELSE seen[s]]])
  /\ UNCHANGED <<config, history, made, clocks, ghosts, inslot>>

\* The recent changes decide whether some are dropped instead.
Decide(p) ==
  /\ Does(p, "capture") /\ Unread(p) = {}
  /\ LET r == call[p]
         drop == IF r.kind = "change" THEN Redundant(r.trigger, Scoped(r.seen, r.trigger)) ELSE {}
     IN Becomes(p, IF drop # {} THEN [r EXCEPT !.do = "drop", !.ids = drop]
                   ELSE [r EXCEPT !.do = "insert", !.base = LatestFull])
  /\ UNCHANGED <<config, history, made, clocks, ghosts, inslot>>

\* From here on the last change of these sections is not the last entry.
Superseded(trigger) ==
  [s \in Sections |-> IF s \in SectionsFor(trigger) THEN NoUndo ELSE undo[s]]

Drop(p) ==
  /\ Does(p, "drop")
  /\ history' = Without(call[p].ids)
  /\ undo' = Superseded(call[p].trigger)
  /\ Becomes(p, [call[p] EXCEPT !.do = "apply"])
  /\ UNCHANGED <<config, made, clocks, restored, inslot>>

Insert(p) ==
  /\ Does(p, "insert") /\ made < setup.made
  /\ made' = made + 1
  /\ LET r == call[p]
         entry == [kind |-> r.kind, trigger |-> r.trigger, base |-> r.base,
                   payload |-> IF r.kind = "change" THEN Scoped(r.seen, r.trigger) ELSE r.seen,
                   slot |-> slot, world |-> config] IN
       /\ history' = [i \in DOMAIN history \cup {made + 1} |->
                        IF i = made + 1 THEN entry ELSE history[i]]
       /\ inslot' = IF r.kind # "full" THEN inslot ELSE IF r.trigger = "schedule" THEN inslot + 1 ELSE 0
       /\ undo' = IF r.kind = "full" THEN undo ELSE Superseded(r.trigger)
  /\ Becomes(p, [call[p] EXCEPT !.do = "prune"])
  /\ UNCHANGED <<config, clocks, restored>>

\* Down to the limit, oldest first.
Excess(kind) ==
  LET all == IF kind = "change" THEN Changes ELSE Fulls
      limit == IF kind = "change" THEN setup.changes ELSE setup.fulls
  IN {i \in all : Cardinality({j \in all : j > i}) >= limit}

Prune(p) ==
  /\ Does(p, "prune")
  /\ history' = Without(Excess(call[p].kind))
  /\ Becomes(p, [call[p] EXCEPT !.do = "apply"])
  /\ UNCHANGED <<config, made, clocks, ghosts, inslot>>

----------------------------------------------------------------------------
(* The requests.                                                            *)
Change(b, s, v) ==
  /\ v # config[s]
  /\ Begin(b, [Recording("change", s, "change") EXCEPT !.value = v])
  /\ restored' = Nothing
  /\ UNCHANGED <<config, history, made, clocks, undo, inslot>>

\* What was recorded, the handler now changes, or finds invalid.
Set(b) ==
  /\ Does(b, "apply") /\ call[b].for = "change"
  /\ LET r == call[b] IN
       \/ /\ config' = [config EXCEPT ![r.trigger] = r.value]
          /\ undo' = [undo EXCEPT ![r.trigger] = [was |-> config[r.trigger], alone |-> r.alone]]
       \/ UNCHANGED <<config, undo>>
  /\ End(b)
  /\ UNCHANGED <<history, made, clocks, restored, inslot>>

Manual(b) ==
  /\ Begin(b, Recording("full", "manual", "backup"))
  /\ UNCHANGED <<config, history, made, clocks, ghosts, inslot>>

\* list_backups makes a baseline when there is nothing.
Baseline(b) ==
  /\ DOMAIN history = {}
  /\ Begin(b, Recording("full", "baseline", "backup"))
  /\ UNCHANGED <<config, history, made, clocks, ghosts, inslot>>

BackedUp(b) ==
  /\ Does(b, "apply") /\ call[b].for = "backup"
  /\ End(b)
  /\ UNCHANGED <<config, history, made, clocks, ghosts, inslot>>

Delete(b, id) ==
  /\ call[b] = Idle /\ id \in DOMAIN history
  /\ history' = Without({id})
  /\ call' = [p \in Processes |-> Lonely(call[p])]
  /\ undo' = [s \in Sections |-> NoUndo] /\ inslot' = 0
  /\ UNCHANGED <<config, made, clocks, restored>>

\* A restore reads the backup, records everything, and looks a change up again when
\* the whole configuration is to be that of its time.
Restore(b, id, whole) ==
  /\ id \in DOMAIN history
  /\ LET e == history[id]
         change == e.kind = "change" IN
     Begin(b, [Recording("change", "restore", "restore") EXCEPT
                 !.entry = id, !.payload = e.payload, !.world = e.world,
                 !.whole = whole \/ ~change, !.resolve = whole /\ change])
  /\ UNCHANGED <<config, history, made, clocks, ghosts, inslot>>

Lookup(b) ==
  /\ Does(b, "apply") /\ call[b].for = "restore"
  /\ LET r == call[b] IN
       IF r.resolve /\ r.entry \notin DOMAIN history
       THEN End(b)
       ELSE Becomes(b, [r EXCEPT !.do = "files",
                          !.payload = IF r.resolve THEN AtChange(r.entry) ELSE @])
  /\ UNCHANGED <<config, history, made, clocks, ghosts, inslot>>

\* The sections in files are written before the transaction with the others.
RestoreFiles(b) ==
  /\ Does(b, "files")
  /\ LET r == call[b] IN
       /\ config' = [s \in Sections |-> IF s \in Files THEN Applied(r.payload, r.whole)[s] ELSE config[s]]
       /\ Becomes(b, [r EXCEPT !.do = "tables", !.before = config])
  /\ UNCHANGED <<history, made, clocks, ghosts, inslot>>

RestoreTables(b) ==
  /\ Does(b, "tables")
  /\ LET r == call[b] IN
       /\ config' = Applied(r.payload, r.whole)
       /\ undo' = [s \in Sections |->
                     IF config'[s] = r.before[s] THEN undo[s]
                     ELSE [was |-> r.before[s], alone |-> r.alone]]
       /\ restored' = IF r.whole /\ r.alone THEN r.world ELSE Nothing
  /\ End(b)
  /\ UNCHANGED <<history, made, clocks, inslot>>

\* A change of the schedule is recorded with every section; then the settings
\* are read and written back in two transactions.
Schedule(b) ==
  /\ Begin(b, Recording("change", "backup.schedule", "schedule"))
  /\ UNCHANGED <<config, history, made, clocks, ghosts, inslot>>

ReadSchedule(b) ==
  /\ Does(b, "apply") /\ call[b].for = "schedule"
  /\ Becomes(b, [call[b] EXCEPT !.do = "save", !.at = marked])
  /\ UNCHANGED <<config, history, made, clocks, ghosts, inslot>>

SaveSchedule(b) ==
  /\ Does(b, "save")
  /\ marked' = call[b].at
  /\ End(b)
  /\ UNCHANGED <<setup, config, history, made, aged, slot, crashes, ghosts, inslot>>

----------------------------------------------------------------------------
(* The loop that makes the scheduled backups.                               *)
\* Due once the instant has passed and no run since is marked; a scheduled
\* backup that is the latest full one since then is only marked.
Due ==
  /\ call[Ticker] = Idle /\ marked < slot
  /\ IF \E i \in Fulls : IsLast(i, Fulls) /\ history[i].slot = slot /\ history[i].trigger = "schedule"
     THEN marked' = slot /\ UNCHANGED call
     ELSE /\ Begin(Ticker, [Recording("full", "schedule", "mark") EXCEPT !.at = slot])
          /\ UNCHANGED marked
  /\ UNCHANGED <<setup, config, history, made, aged, slot, crashes, ghosts, inslot>>

Mark ==
  /\ Does(Ticker, "apply")
  /\ marked' = call[Ticker].at
  /\ End(Ticker)
  /\ UNCHANGED <<setup, config, history, made, aged, slot, crashes, ghosts, inslot>>

SlotBegins ==
  /\ slot < setup.slots
  /\ slot' = slot + 1 /\ inslot' = 0
  /\ UNCHANGED <<setup, config, history, made, aged, marked, crashes, call, ghosts>>

FiveMinutes ==
  /\ aged < made /\ aged' = made
  /\ UNCHANGED <<setup, config, history, made, slot, marked, crashes, call, ghosts, inslot>>

\* The web process dies with all it was doing.
Crash ==
  /\ Active # {} /\ crashes < setup.crashes
  /\ crashes' = crashes + 1
  /\ call' = [p \in Processes |-> Idle]
  /\ undo' = [s \in Sections |-> NoUndo]
  /\ UNCHANGED <<setup, config, history, made, aged, slot, marked, restored, inslot>>

Next ==
  \/ \E p \in Processes : Capture(p) \/ Decide(p) \/ Drop(p) \/ Insert(p) \/ Prune(p)
  \/ \E b \in Browsers :
       \/ \E s \in Sections, v \in Values : Change(b, s, v)
       \/ Set(b) \/ Manual(b) \/ Baseline(b) \/ BackedUp(b)
       \/ \E id \in 1..made : Delete(b, id)
       \/ \E id \in 1..made, whole \in BOOLEAN : Restore(b, id, whole)
       \/ Schedule(b) \/ ReadSchedule(b) \/ SaveSchedule(b)
       \/ Lookup(b) \/ RestoreFiles(b) \/ RestoreTables(b)
  \/ Due \/ Mark \/ SlotBegins
  \/ FiveMinutes \/ Crash

Spec == Init /\ [][Next]_vars

----------------------------------------------------------------------------
\* Restoring the newest entry of a section undoes its last change, if that was
\* made while nothing else ran, the section was not empty before, and the entry
\* is still there: the retention drops the older ones first.
UndoLast ==
  \A s \in Sections : undo[s].alone /\ undo[s].was # 0 =>
    \A i \in Holding(s) : IsLast(i, Holding(s)) => history[i].payload[s] = undo[s].was

\* No scheduled instant makes a second backup while the first is the latest
\* full one, although marking it is a step of its own and is overwritten.
OncePerInstant == inslot <= 1

\* The whole configuration, restored to a change while nothing else ran, is the
\* one of that time.
PointInTime == restored # Nothing => config = restored
=============================================================================
