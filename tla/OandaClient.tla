---------------------------- MODULE OandaClient ----------------------------
(***************************************************************************)
(* The HTTP client every bot of a process shares to reach the broker.       *)
(*                                                                          *)
(* A registry holds one client object for the credentials; the object holds *)
(* one HTTP session.  A request takes the session, opening it when there is *)
(* none or it is too old, and is retried when its answer is an overload or  *)
(* does not come; then the session is replaced.  The lock of the object     *)
(* covers taking and replacing the session, not the use of it: a caller may *)
(* close the session another one is waiting on.                             *)
(***************************************************************************)
EXTENDS Naturals, FiniteSets

CONSTANTS
  Orders,      \* calls of place_market_order
  Reads,       \* calls that only read
  NoCaller,
  MaxTries,    \* stop_after_attempt
  MaxFaults,   \* bound: answers lost or overloaded
  MaxCloses,   \* bound: bots that stop and close the clients
  MaxSessions  \* bound: sessions replaced for their age stay below this

Requesters == Orders \cup Reads
Objects == 1..MaxCloses + 1

VARIABLES
  current,  \* _CLIENTS: the client object, 0 for none
  made,     \* client objects made so far
  session,  \* session[k]: _client of object k, 0 for none
  lock,     \* lock[k]: who holds _client_lock of object k
  opened,   \* sessions opened so far
  closed,   \* the sessions that are closed
  call,     \* call[c]: the request c is carrying out
  faults, closes

vars == <<current, made, session, lock, opened, closed, call, faults, closes>>

Steps == {"idle", "get", "limit", "ensure", "opening", "send", "inflight",
          "acted", "recreate", "reopening", "ended"}

TypeOK ==
  /\ current \in {0} \cup Objects /\ made \in {0} \cup Objects
  /\ session \in [Objects -> Nat] /\ lock \in [Objects -> Requesters \cup {NoCaller}]
  /\ opened \in Nat /\ closed \subseteq 1..opened
  /\ call \in [Requesters -> [pc : Steps, object : {0} \cup Objects, on : Nat,
                           tries : 0..MaxTries, done : 0..MaxTries,
                           told : {"none", "ok", "refused", "failed"}]]
  /\ faults \in 0..MaxFaults /\ closes \in 0..MaxCloses

Init ==
  /\ current = 0 /\ made = 0
  /\ session = [k \in Objects |-> 0] /\ lock = [k \in Objects |-> NoCaller]
  /\ opened = 0 /\ closed = {}
  /\ call = [c \in Requesters |-> [pc |-> "idle", object |-> 0, on |-> 0,
                                tries |-> 0, done |-> 0, told |-> "none"]]
  /\ faults = 0 /\ closes = 0

----------------------------------------------------------------------------
At(c, where) == call[c].pc = where
Goto(c, where) == call' = [call EXCEPT ![c].pc = where]
sessions == <<session, lock, opened, closed>>
registry == <<current, made>>
bounds == <<faults, closes>>

Call(c) ==
  /\ At(c, "idle")
  /\ call' = [call EXCEPT ![c].pc = "get", ![c].tries = 1]
  /\ UNCHANGED <<registry, sessions, bounds>>

\* get_oanda_client: the registered object, or a new one.
Get(c) ==
  /\ At(c, "get")
  /\ current' = IF current = 0 THEN made + 1 ELSE current
  /\ made' = IF current = 0 THEN made + 1 ELSE made
  /\ call' = [call EXCEPT ![c].pc = "limit", ![c].object = current']
  /\ UNCHANGED <<sessions, bounds>>

\* The rate limiter lets the attempt through.
Limit(c) ==
  /\ At(c, "limit")
  /\ Goto(c, "ensure")
  /\ UNCHANGED <<registry, sessions, bounds>>

\* _ensure_client with a session that is young enough.
Reuse(c) ==
  /\ At(c, "ensure")
  /\ LET k == call[c].object IN
       /\ lock[k] = NoCaller /\ session[k] # 0
       /\ call' = [call EXCEPT ![c].pc = "send", ![c].on = session[k]]
  /\ UNCHANGED <<registry, sessions, bounds>>

\* A bug: the old session is closed and forgotten only as the new one opens.
CloseMutant(c, k, where) ==
  /\ lock[k] = NoCaller
  /\ lock' = lock
  /\ closed' = closed \cup ({session[k]} \ {0})
  /\ Goto(c, where)
  /\ UNCHANGED <<registry, session, opened, bounds>>

\* Under the lock of object k the old session is closed; the new one is opened
\* when the connection gate lets it.
Close(c, k, where) ==
  /\ lock[k] = NoCaller
  /\ lock' = [lock EXCEPT ![k] = c]
  /\ closed' = closed \cup ({session[k]} \ {0})
  /\ session' = [session EXCEPT ![k] = 0]
  /\ Goto(c, where)
  /\ UNCHANGED <<registry, opened, bounds>>

Renew(c) ==
  /\ At(c, "ensure")
  /\ session[call[c].object] = 0 \/ opened < MaxSessions
  /\ Close(c, call[c].object, "opening")

Recreate(c) == At(c, "recreate") /\ Close(c, call[c].object, "reopening")

\* The next attempt, or the end of the last.
Retried(r) ==
  IF r.tries < MaxTries THEN [r EXCEPT !.pc = "limit", !.tries = @ + 1]
  ELSE [r EXCEPT !.pc = "ended", !.told = "failed"]

\* A bug: the lock is given back on the way out of a first opening only.
OpenMutant(c) ==
  /\ call[c].pc \in {"opening", "reopening"}
  /\ LET k == call[c].object IN
       /\ session' = [session EXCEPT ![k] = opened + 1]
       /\ lock' = IF call[c].pc = "opening" THEN [lock EXCEPT ![k] = NoCaller] ELSE lock
  /\ opened' = opened + 1
  /\ call' = [call EXCEPT ![c] =
                IF @.pc = "opening" THEN [@ EXCEPT !.pc = "send", !.on = opened + 1]
                ELSE Retried(@)]
  /\ UNCHANGED <<registry, closed, bounds>>

\* The gate has let it through: the new session is opened and the lock given
\* back; the first opening goes on to send, a replacement raises to be retried.
Open(c) ==
  /\ call[c].pc \in {"opening", "reopening"}
  /\ LET k == call[c].object IN
       /\ session' = [session EXCEPT ![k] = opened + 1]
       /\ lock' = [lock EXCEPT ![k] = NoCaller]
  /\ opened' = opened + 1
  /\ call' = [call EXCEPT ![c] =
                IF @.pc = "opening" THEN [@ EXCEPT !.pc = "send", !.on = opened + 1]
                ELSE Retried(@)]
  /\ UNCHANGED <<registry, closed, bounds>>

\* A closed session refuses to send, which is not retried.
Send(c) ==
  /\ At(c, "send")
  /\ call' = [call EXCEPT ![c] =
                IF @.on \in closed
                THEN [@ EXCEPT !.pc = "ended", !.told = "refused"]
                ELSE [@ EXCEPT !.pc = "inflight"]]
  /\ UNCHANGED <<registry, sessions, bounds>>

\* The broker carries the request out, which for an order fills it.
Act(c) ==
  /\ At(c, "inflight")
  /\ call' = [call EXCEPT ![c].pc = "acted",
                          ![c].done = IF c \in Orders THEN @ + 1 ELSE @]
  /\ UNCHANGED <<registry, sessions, bounds>>

Reply(c) ==
  /\ At(c, "acted") /\ call[c].on \notin closed
  /\ call' = [call EXCEPT ![c].pc = "ended", ![c].told = "ok"]
  /\ UNCHANGED <<registry, sessions, bounds>>

\* The broker rejects the order, or cancels it without a fill.
Refuse(c) ==
  /\ At(c, "inflight") /\ c \in Orders /\ call[c].on \notin closed
  /\ call' = [call EXCEPT ![c].pc = "ended", ![c].told = "failed"]
  /\ UNCHANGED <<registry, sessions, bounds>>

\* 429 or 5xx: tried again on the same session.
Overloaded(c) ==
  /\ call[c].pc \in {"inflight", "acted"} /\ call[c].on \notin closed
  /\ faults < MaxFaults /\ faults' = faults + 1
  /\ call' = [call EXCEPT ![c] = Retried(@)]
  /\ UNCHANGED <<registry, sessions, closes>>

\* No answer comes: the network failed, or another caller closed the session.
Lost(c) ==
  /\ call[c].pc \in {"inflight", "acted"}
  /\ \/ call[c].on \in closed /\ faults' = faults
     \/ faults < MaxFaults /\ faults' = faults + 1
  /\ Goto(c, "recreate")
  /\ UNCHANGED <<registry, sessions, closes>>

\* A bot stops: close_oanda_client closes and forgets the registered object,
\* whoever still uses it.
CloseAll ==
  /\ closes < MaxCloses /\ current # 0 /\ lock[current] = NoCaller
  /\ closes' = closes + 1
  /\ closed' = closed \cup ({session[current]} \ {0})
  /\ session' = [session EXCEPT ![current] = 0]
  /\ current' = 0
  /\ UNCHANGED <<made, lock, opened, call, faults>>

Step(c) ==
  \/ Get(c) \/ Limit(c) \/ Reuse(c) \/ Renew(c) \/ Recreate(c) \/ Open(c)
  \/ Send(c) \/ Act(c) \/ Refuse(c) \/ Reply(c) \/ Lost(c)

Next ==
  \/ \E c \in Requesters : Call(c) \/ Step(c) \/ Overloaded(c)
  \/ CloseAll

Spec == Init /\ [][Next]_vars
FairSpec == Spec /\ \A c \in Requesters : WF_vars(Step(c))

----------------------------------------------------------------------------
\* The session an object hands out is open unless its lock is held: renewals,
\* replacements after a lost answer and the end of a bot never leave a closed
\* session behind for the next request.
HeldOpen ==
  \A k \in Objects : session[k] # 0 /\ lock[k] = NoCaller => session[k] \notin closed

\* Every request ends: no wait for a lock, no retry and no renewal goes on for
\* ever, whoever closes the sessions meanwhile.
EveryCallEnds == \A c \in Requesters : At(c, "get") ~> At(c, "ended")

\* One call of place_market_order fills one order.
OrderOnce == \A c \in Orders : call[c].done <= 1
=============================================================================
