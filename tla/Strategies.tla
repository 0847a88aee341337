----------------------------- MODULE Strategies -----------------------------
(***************************************************************************)
(* The strategies: a document in a row of its own, beside the columns the   *)
(* bots select by, and a numbered version of every definition that was      *)
(* saved.  Users edit, switch and delete strategies; the backtests set a    *)
(* badge in the same document.                                              *)
(*                                                                          *)
(* A transaction reads the row, changes its copy of the document and writes *)
(* the whole copy, and only those columns that differ from what it read.    *)
(* The write locks the row until the commit, so number, version and pruning *)
(* are one step with it.                                                    *)
(***************************************************************************)
EXTENDS Integers, FiniteSets, FiniteSetsExt

CONSTANTS
  Ids,        \* the strategies that may be created
  Callers,    \* requests of users and updates of badges that overlap
  Values,     \* values of a field of a definition
  Keep,       \* versions that are kept of a strategy (50 in the code)
  MaxSaves,   \* bound: definitions that are saved
  MaxCalls    \* bound: other requests

Fields == {"name", "params"}
Badges == {"not_run", "queued", "running", "completed"}

VARIABLES
  rows,      \* rows[s]: NoRow or the document's def, on and badge, and the column
  versions,  \* versions[s]: numbered definitions
  call,      \* call[c]: what c is in the middle of
  saved,     \* history: every version that was ever made
  saves, calls

vars == <<rows, versions, call, saved, saves, calls>>

NoRow == [exists |-> FALSE]
Row(def, on, badge, column) ==
  [exists |-> TRUE, def |-> def, on |-> on, badge |-> badge, column |-> column]
Idle == [op |-> "none"]

TypeOK ==
  /\ \A s \in Ids : rows[s] = NoRow
       \/ rows[s] \in [exists : {TRUE}, def : [Fields -> Values], on : BOOLEAN,
                       badge : Badges, column : BOOLEAN]
  /\ \A s \in Ids : versions[s] \subseteq saved[s]
  /\ \A s \in Ids : saved[s] \subseteq [n : 1..MaxSaves, def : [Fields -> Values]]
  /\ saves \in 0..MaxSaves /\ calls \in 0..MaxCalls

Init ==
  /\ rows = [s \in Ids |-> NoRow] /\ versions = [s \in Ids |-> {}]
  /\ call = [c \in Callers |-> Idle]
  /\ saved = [s \in Ids |-> {}] /\ saves = 0 /\ calls = 0

-----------------------------------------------------------------------------

NextNumber(vs) == 1 + Max({v.n : v \in vs} \cup {0})

\* A bug: the oldest versions are the ones that stay.
PrunedMutant(vs) == {v \in vs : Cardinality({w \in vs : w.n < v.n}) < Keep}

Pruned(vs) == {v \in vs : Cardinality({w \in vs : w.n > v.n}) < Keep}

AppendVersion(s, def) ==
  LET v == [n |-> NextNumber(versions[s]), def |-> def] IN
  /\ versions' = [versions EXCEPT ![s] = Pruned(@ \cup {v})]
  /\ saved' = [saved EXCEPT ![s] = @ \cup {v}]

Create(s, on) ==
  /\ rows[s] = NoRow /\ saved[s] = {} /\ saves < MaxSaves
  /\ \E def \in [Fields -> Values] :
       /\ rows' = [rows EXCEPT ![s] = Row(def, on, "not_run", on)]
       /\ AppendVersion(s, def)
  /\ saves' = saves + 1
  /\ UNCHANGED <<call, calls>>

\* The document with the fields that a request gives.
Edited(doc, given) ==
  [doc EXCEPT !.def = [f \in Fields |-> IF f \in DOMAIN given THEN given[f] ELSE doc.def[f]]]
Switched(doc, on) == [doc EXCEPT !.on = on]
Badged(doc, badge) == [doc EXCEPT !.badge = badge]

Takes(c, op, s, doc) ==
  call' = [call EXCEPT ![c] = [op |-> op, id |-> s, doc |-> doc, column |-> rows[s].column]]

\* An edit of some fields, of which another may be in the middle.
Edit(c, s) ==
  /\ call[c] = Idle /\ rows[s].exists /\ saves < MaxSaves
  /\ \E fs \in SUBSET Fields \ {{}} : \E given \in [fs -> Values] :
       Takes(c, "edit", s, Edited(rows[s], given))
  /\ saves' = saves + 1
  /\ UNCHANGED <<rows, versions, saved, calls>>

Switch(c, s) ==
  /\ call[c] = Idle /\ rows[s].exists /\ calls < MaxCalls
  /\ \E on \in BOOLEAN : Takes(c, "switch", s, Switched(rows[s], on))
  /\ calls' = calls + 1
  /\ UNCHANGED <<rows, versions, saved, saves>>

\* The backtests that are queued, run and end.
SetBadge(c, s) ==
  /\ call[c] = Idle /\ rows[s].exists /\ calls < MaxCalls
  /\ \E badge \in Badges \ {"not_run"} : Takes(c, "badge", s, Badged(rows[s], badge))
  /\ calls' = calls + 1
  /\ UNCHANGED <<rows, versions, saved, saves>>

\* The copy replaces the document; the column is written only if the copy
\* differs from the column that was read with it.
Synced(row, k) ==
  [k.doc EXCEPT !.column = IF k.doc.on # k.column THEN k.doc.on ELSE row.column]

\* The row may have been deleted meanwhile: the request fails.
Write(c) ==
  LET k == call[c] IN
  /\ k.op \in {"edit", "switch", "badge"}
  /\ call' = [call EXCEPT ![c] = Idle]
  /\ IF ~rows[k.id].exists THEN UNCHANGED <<rows, versions, saved>>
     ELSE /\ rows' = [rows EXCEPT ![k.id] = Synced(@, k)]
          /\ IF k.op = "edit" THEN AppendVersion(k.id, k.doc.def)
             ELSE UNCHANGED <<versions, saved>>
  /\ UNCHANGED <<saves, calls>>

\* A deletion first takes the versions it sees, then the row.
DeleteVersions(c, s) ==
  /\ call[c] = Idle /\ rows[s].exists /\ calls < MaxCalls
  /\ call' = [call EXCEPT ![c] = [op |-> "delete", id |-> s, seen |-> versions[s]]]
  /\ calls' = calls + 1
  /\ UNCHANGED <<rows, versions, saved, saves>>

DeleteRow(c) ==
  LET k == call[c] IN
  /\ k.op = "delete"
  /\ rows' = [rows EXCEPT ![k.id] = NoRow]
  /\ versions' = [versions EXCEPT ![k.id] = @ \ k.seen]
  /\ call' = [call EXCEPT ![c] = Idle]
  /\ UNCHANGED <<saved, saves, calls>>

Next ==
  \/ \E s \in Ids, on \in BOOLEAN : Create(s, on)
  \/ \E c \in Callers :
       \/ \E s \in Ids : Edit(c, s) \/ Switch(c, s) \/ SetBadge(c, s) \/ DeleteVersions(c, s)
       \/ Write(c) \/ DeleteRow(c)

Spec == Init /\ [][Next]_vars

-----------------------------------------------------------------------------

\* The strategies the bots run.
Runnable == {s \in Ids : rows[s].exists /\ rows[s].column}

\* Whatever overlaps, each of the latest definitions that were saved can be had
\* back under a number of its own while the strategy is there.
SavedKept ==
  \A s \in Ids : rows[s].exists =>
    /\ \A v, w \in saved[s] : v.n = w.n => v = w
    /\ {v \in saved[s] : Cardinality({w \in saved[s] : v.n < w.n}) < Keep} \subseteq versions[s]

\* The update of a badge "only" changes the badge (strategies.py:373): neither
\* the definition nor whether the bots run the strategy.
OnlyBadge ==
  [][\A c \in Callers : call[c].op = "badge" /\ Write(c) =>
       LET s == call[c].id IN rows[s].exists =>
         rows'[s].def = rows[s].def /\ rows'[s].column = rows[s].column]_vars
=============================================================================
