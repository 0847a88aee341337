------------------------------- MODULE Sources -------------------------------
(***************************************************************************)
(* The AI models a user has connected, the roles the research settings give *)
(* them, and their capabilities.  A role names a model; the settings are one *)
(* document, the capabilities one row per model, and nothing in the database *)
(* ties them to the models.  A request keeps them together by several       *)
(* transactions in a row, and may end between any two of them.              *)
(*                                                                          *)
(* The names, efforts and schedules in the settings are left out; a model   *)
(* is the number it was created with.                                       *)
(***************************************************************************)
EXTENDS Integers, FiniteSets, FiniteSetsExt, Sequences

CONSTANTS
  Count,       \* bound: models that are ever created
  Types,       \* providers
  Roles,       \* roles of one model: synthesis, brief, debrief, web, x
  Callers,     \* requests that overlap
  MaxCalls,    \* bound: requests
  MaxCrashes   \* bound: requests that end half-way

Models == 1..Count
AllRoles == Roles \cup {"contributor"}
None == "none"

VARIABLES
  type,      \* type[m]: the provider of m; None without a row
  enabled,   \* the models that are switched on
  settings,  \* pairs of a role and a model
  ticked,    \* ticked[m]: whether m may search: None without a row, "on" or "off"
  call,
  expected,  \* history: the provider a user gave a role to and has not removed
  calls, crashes

vars == <<type, enabled, settings, ticked, call, expected, calls, crashes>>

Idle == [pc |-> "idle"]
Known(m) == type[m] # None
Given(doc) == {<<x[1], type[x[2]]>> : x \in doc}

TypeOK ==
  /\ type \in [Models -> Types \cup {None}] /\ enabled \subseteq Models
  /\ settings \subseteq AllRoles \X Models
  /\ ticked \in [Models -> {None, "on", "off"}]
  /\ expected \subseteq AllRoles \X Types
  /\ calls \in 0..MaxCalls /\ crashes \in 0..MaxCrashes

\* Two overlapping requests may have created a provider twice before.
Init ==
  /\ type \in {f \in [Models -> Types \cup {None}] :
                 \A m \in Models \ {1} : f[m] # None => f[m - 1] # None}
  /\ enabled \in SUBSET {m \in Models : Known(m)}
  /\ ticked \in {f \in [Models -> {None, "on", "off"}] :
                   \A m \in Models : ~Known(m) => f[m] = None}
  /\ settings \in {s \in SUBSET (AllRoles \X {m \in Models : Known(m)}) :
                     \A x, y \in s : x[1] = y[1] /\ x[1] \in Roles => x = y}
  /\ expected = Given(settings)
  /\ call = [c \in Callers |-> Idle] /\ calls = 0 /\ crashes = 0

Starts(c, k) ==
  /\ call[c] = Idle /\ calls < MaxCalls
  /\ call' = [call EXCEPT ![c] = k] /\ calls' = calls + 1
  /\ UNCHANGED crashes

Goes(c, k) == call' = [call EXCEPT ![c] = k] /\ UNCHANGED <<calls, crashes>>

-----------------------------------------------------------------------------
(* Creating and switching models                                            *)

\* Each provider may be connected once.
Create(c) ==
  \E t \in Types :
    /\ \A m \in Models : type[m] # t
    /\ Starts(c, [pc |-> "insert", type |-> t])
    /\ UNCHANGED <<type, enabled, settings, ticked, expected>>

Insert(c) ==
  /\ call[c].pc = "insert"
  /\ \E m \in Models, on \in BOOLEAN :
       /\ m = 1 + Max({0} \cup {k \in Models : Known(k)})
       /\ type' = [type EXCEPT ![m] = call[c].type]
       /\ enabled' = IF on THEN enabled \cup {m} ELSE enabled
  /\ Goes(c, Idle)
  /\ UNCHANGED <<settings, ticked, expected>>

\* One transaction on the row; a model that is gone is not found.
Toggle(c, m) ==
  /\ Known(m)
  /\ enabled' = IF m \in enabled THEN enabled \ {m} ELSE enabled \cup {m}
  /\ Starts(c, Idle)
  /\ UNCHANGED <<type, settings, ticked, expected>>

Tick(c, m) ==
  /\ Known(m)
  /\ \E v \in {"on", "off"} : Starts(c, [pc |-> "tick", model |-> m, value |-> v])
  /\ UNCHANGED <<type, enabled, settings, ticked, expected>>

SaveTick(c) ==
  /\ call[c].pc = "tick"
  /\ ticked' = [ticked EXCEPT ![call[c].model] = call[c].value]
  /\ Goes(c, Idle)
  /\ UNCHANGED <<type, enabled, settings, expected>>

-----------------------------------------------------------------------------
(* Reading and changing the settings                                        *)

Read(c) ==
  /\ Starts(c, [pc |-> "load", op |-> "read", doc |-> {}])
  /\ UNCHANGED <<type, enabled, settings, ticked, expected>>

\* A role is given to a model that is on; a search also asks for the capability.
Allowed(role, m) ==
  /\ Known(m) /\ m \in enabled
  /\ role \in {"web", "x"} => ticked[m] = "on"

Assign(c) ==
  /\ \E role \in AllRoles, ms \in SUBSET Models :
       /\ role \in Roles => Cardinality(ms) <= 1
       /\ \A m \in ms : Allowed(role, m)
       /\ Starts(c, [pc |-> "load", op |-> "assign", role |-> role, models |-> ms, doc |-> {}])
  /\ UNCHANGED <<type, enabled, settings, ticked, expected>>

\* Whoever reads the settings also takes out of them, in a transaction of its
\* own, the models that are gone.
Load(c) ==
  /\ call[c].pc = "load"
  /\ Goes(c, [call[c] EXCEPT !.pc = "prune", !.doc = settings])
  /\ UNCHANGED <<type, enabled, settings, ticked, expected>>

Prune(c) ==
  LET k == call[c]
      kept == {x \in k.doc : Known(x[2])}
  IN /\ k.pc = "prune"
     /\ settings' = IF kept = k.doc THEN settings ELSE kept
     /\ Goes(c, IF k.op = "read" THEN Idle ELSE [k EXCEPT !.pc = "store", !.doc = kept])
     /\ UNCHANGED <<type, enabled, ticked, expected>>

Without(doc, m) == {x \in doc : x[2] # m}
Remapped(doc, from, to) ==
  {IF x[2] = from THEN <<x[1], to>> ELSE x : x \in doc}
Assigned(doc, role, ms) == {x \in doc : x[1] # role} \cup ({role} \X ms)

Changed(k) ==
  CASE k.op = "assign" -> Assigned(k.doc, k.role, k.models)
    [] k.op = "delete" -> Without(k.doc, k.model)
    [] k.op = "merge" -> Remapped(k.doc, k.extra, k.keep)

Rest(k) == IF k.op = "assign" THEN Idle ELSE [k EXCEPT !.pc = "ticks", !.doc = {}]

Store(c) ==
  LET k == call[c] IN
  /\ k.pc = "store"
  /\ settings' = IF Changed(k) = k.doc /\ k.op # "assign" THEN settings ELSE Changed(k)
  /\ expected' = IF k.op = "assign" THEN Given(Changed(k)) ELSE expected
  /\ Goes(c, Rest(k))
  /\ UNCHANGED <<type, enabled, ticked>>

-----------------------------------------------------------------------------
(* Deleting a model, and merging those of one provider                      *)

Delete(c, m) ==
  /\ Known(m)
  /\ type' = [type EXCEPT ![m] = None]
  /\ enabled' = enabled \ {m}
  /\ expected' = expected \cap Given(Without(settings, m))
  /\ Starts(c, [pc |-> "load", op |-> "delete", model |-> m, doc |-> {}])
  /\ UNCHANGED <<settings, ticked>>

\* Of the models of a provider the newest stays, before it an enabled one.
Better(m, k) == IF m \in enabled /\ k \notin enabled THEN TRUE
                ELSE (m \in enabled <=> k \in enabled) /\ m > k
Best(t) == CHOOSE m \in Models : type[m] = t /\ \A k \in Models \ {m} : type[k] = t => Better(m, k)
Extras == {m \in Models : Known(m) /\ m # Best(type[m])}

Merging(plan, first) ==
  [pc |-> first, op |-> "merge", extra |-> plan[1][1], keep |-> plan[1][2], plan |-> Tail(plan),
   doc |-> {}]

\* A bug: the model is deleted before what names it has been rewritten.
ListMutant(c) ==
  \E order \in [1..Cardinality(Extras) -> Extras] :
    LET plan == [n \in DOMAIN order |-> <<order[n], Best(type[order[n]])>>] IN
    /\ Extras = {order[n] : n \in DOMAIN order}
    /\ Starts(c, IF plan = <<>> THEN Idle ELSE Merging(plan, "row"))
    /\ UNCHANGED <<type, enabled, settings, ticked, expected>>

\* Listing the models first merges those of one provider, one by one.
List(c) ==
  \E order \in [1..Cardinality(Extras) -> Extras] :
    LET plan == [n \in DOMAIN order |-> <<order[n], Best(type[order[n]])>>] IN
    /\ Extras = {order[n] : n \in DOMAIN order}
    /\ Starts(c, IF plan = <<>> THEN Idle ELSE Merging(plan, "load"))
    /\ UNCHANGED <<type, enabled, settings, ticked, expected>>

\* What the one that stays has not decided it takes from the other.
Ticks(c) ==
  LET k == call[c] IN
  /\ k.pc = "ticks"
  /\ IF k.op = "delete" THEN ticked' = [ticked EXCEPT ![k.model] = None]
     ELSE ticked' = [ticked EXCEPT ![k.extra] = None,
                                   ![k.keep] = IF @ = None THEN ticked[k.extra] ELSE @]
  /\ Goes(c, IF k.op = "delete" THEN Idle ELSE [k EXCEPT !.pc = "row"])
  /\ UNCHANGED <<type, enabled, settings, expected>>

DropExtra(c) ==
  LET k == call[c] IN
  /\ k.pc = "row"
  /\ type' = [type EXCEPT ![k.extra] = None]
  /\ enabled' = enabled \ {k.extra}
  /\ Goes(c, IF k.plan = <<>> THEN Idle ELSE Merging(k.plan, "load"))
  /\ UNCHANGED <<settings, ticked, expected>>

\* The process ends, or a transaction fails, before the next step.
Crash(c) ==
  /\ call[c] # Idle /\ crashes < MaxCrashes
  /\ call' = [call EXCEPT ![c] = Idle] /\ crashes' = crashes + 1
  /\ UNCHANGED <<type, enabled, settings, ticked, expected, calls>>

Next ==
  \E c \in Callers :
    \/ Create(c) \/ Insert(c) \/ Read(c) \/ Assign(c) \/ List(c)
    \/ \E m \in Models : Toggle(c, m) \/ Tick(c, m) \/ Delete(c, m)
    \/ SaveTick(c) \/ Load(c) \/ Prune(c) \/ Store(c) \/ Ticks(c) \/ DropExtra(c)
    \/ Crash(c)

Spec == Init /\ [][Next]_vars

-----------------------------------------------------------------------------

\* A role that a user has given to a provider stays with a model of it that is
\* there, however its models are merged and wherever a request ends.
RolesFollow ==
  \A x \in expected : \E m \in Models : type[m] = x[2] /\ <<x[1], m>> \in settings

\* Merging "keeps one source per provider type" (ai_models.py:179).
OneSourceKept ==
  [][\A c \in Callers : call[c].pc = "row" /\ DropExtra(c) =>
       \A m \in Models : type[m] # None => \E k \in Models : type'[k] = type[m]]_vars
=============================================================================
