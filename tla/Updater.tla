------------------------------ MODULE Updater ------------------------------
(***************************************************************************)
(* Updates: the web server checks for one and triggers it, a systemd timer  *)
(* runs it, and a script carries it out.                                    *)
(*                                                                          *)
(* The script runs as root in the unit brokerai-update, or, when systemctl  *)
(* refuses or the unit failed, as a child of the web server that asked.     *)
(* Commits are the natural numbers of a linear history.  The unit is of     *)
(* type oneshot: systemctl calls it "activating" while it runs and never    *)
(* "active", nothing sets _UPDATE_PROC and nothing writes the state file,   *)
(* so the questions whether an update is running are answered no.           *)
(***************************************************************************)
EXTENDS Naturals

CONSTANTS
  Callers,    \* requests of the web server
  Tracks,     \* values of BROKERAI_UPDATE_TRACK
  Pinned,     \* the track "release"
  MaxCommit,  \* bound: commits published
  MaxCalls,   \* bound: triggers, checks, timer events and settings saved
  MaxFaults   \* bound: steps that fail

Unit == "unit"
Jobs == Callers \cup {Unit}

VARIABLES
  dev,      \* a development install: updates are only simulated
  track, auto,              \* the configuration file
  tip,      \* tip[t]: the commit track t points at
  head, deps, served, lock, \* commits checked out, installed, running, recorded
  job,      \* job[j]: the script of j
  request,  \* request[c]: the trigger c waits for
  answer,   \* answer[c]: what c was told, and what had become of the update
  checks,   \* checks[c]: a check under way
  cached,   \* _CACHED_CHECK
  sim,      \* the simulated update
  calls, faults

vars == <<dev, track, auto, tip, head, deps, served, lock, job, request, answer,
          checks, cached, sim, calls, faults>>
tree == <<head, deps, served, lock>>
config == <<track, auto>>
web == <<request, answer, checks, cached, sim>>

None == [track |-> "none"]
Off == [at |-> "off"]
Silent == [told |-> "nothing"]
Running(j) == job[j] # Off

TypeOK ==
  /\ dev \in BOOLEAN /\ track \in Tracks /\ auto \in BOOLEAN
  /\ tip \in [Tracks -> 1..MaxCommit] /\ {head, deps, served, lock} \subseteq 1..MaxCommit
  /\ \A j \in Jobs : job[j].at \in {"off", "resolve", "checkout", "install", "restart", "lock"}
  /\ request \in [Callers -> {"idle", "start", "force"}]
  /\ sim \in {"idle", "running", "success"}
  /\ calls \in 0..MaxCalls /\ faults \in 0..MaxFaults

Init ==
  /\ dev \in BOOLEAN /\ track \in Tracks /\ auto \in BOOLEAN
  /\ track \in Pinned => ~auto
  /\ tip = [t \in Tracks |-> 1] /\ head = 1 /\ deps = 1 /\ served = 1 /\ lock = 1
  /\ job = [j \in Jobs |-> Off] /\ request = [c \in Callers |-> "idle"]
  /\ answer = [c \in Callers |-> Silent]
  /\ checks = [c \in Callers |-> None] /\ cached = None
  /\ sim = "idle" /\ calls = 0 /\ faults = 0

Call == calls < MaxCalls /\ calls' = calls + 1
Fault == faults < MaxFaults /\ faults' = faults + 1

\* A commit is pushed to a branch, or released; a pinned release stays.
Push(t) ==
  /\ t \notin Pinned /\ tip[t] < MaxCommit
  /\ tip' = [tip EXCEPT ![t] = @ + 1]
  /\ UNCHANGED <<dev, config, tree, job, web, calls, faults>>

-----------------------------------------------------------------------------
(* The script                                                               *)

\* A script that starts beside another is not alone, nor is the other.
Started(jobs, j) ==
  LET others == \E i \in Jobs \ {j} : jobs[i] # Off
      fresh == [at |-> "resolve", track |-> "none", target |-> 0, alone |-> ~others]
  IN [i \in Jobs |-> IF i = j THEN fresh
                     ELSE IF jobs[i] = Off THEN Off ELSE [jobs[i] EXCEPT !.alone = FALSE]]

\* The callers that wait for j are told, or try the script themselves: a
\* failure of the unit is followed by the second command of trigger_update.
Ended(j, how) ==
  LET waiting == {c \in Callers : \/ j = Unit /\ request[c] = "start"
                                  \/ j = c /\ request[c] = "force"}
      again == {c \in waiting : how = "failed" /\ j = Unit}
      told == IF how = "failed" THEN "unavailable" ELSE "started"
  IN /\ request' = [c \in Callers |-> IF c \in again THEN "force"
                                      ELSE IF c \in waiting THEN "idle" ELSE request[c]]
     /\ answer' = [c \in Callers |-> IF c \in waiting \ again
                                     THEN [told |-> told, how |-> how] ELSE answer[c]]
     /\ IF again = {} THEN job' = [job EXCEPT ![j] = Off]
        ELSE \E c \in again :
               /\ again = {c} \* several would each start one: a bound of the model
               /\ job' = Started([job EXCEPT ![j] = Off], c)

Step(j, at) == job' = [job EXCEPT ![j].at = at] /\ UNCHANGED <<request, answer>>

\* Only a caller's script is forced.  A target that is checked out, or older
\* than what is, ends it.
Resolve(j) ==
  /\ job[j].at = "resolve"
  /\ LET target == tip[track]
     IN IF j = Unit /\ ~auto THEN Ended(j, "skipped")
        ELSE IF target <= head THEN Ended(j, "current")
        ELSE /\ job' = [job EXCEPT ![j].at = "checkout", ![j].track = track, ![j].target = target]
             /\ UNCHANGED <<request, answer>>
  /\ UNCHANGED <<dev, config, tip, tree, checks, cached, sim, calls, faults>>

\* A branch is reset to what the last fetch of anyone brought.
Checkout(j) ==
  /\ job[j].at = "checkout"
  /\ head' \in job[j].target..tip[job[j].track]
  /\ Step(j, "install")
  /\ UNCHANGED <<dev, config, tip, deps, served, lock, checks, cached, sim, calls, faults>>

\* A bug: a failed installation does not end the script.
InstallMutant(j) ==
  /\ job[j].at = "install"
  /\ \/ deps' = head /\ UNCHANGED faults
     \/ Fault /\ UNCHANGED deps
  /\ Step(j, "restart")
  /\ UNCHANGED <<dev, config, tip, head, served, lock, checks, cached, sim, calls>>

Install(j) ==
  /\ job[j].at = "install"
  /\ deps' = head /\ Step(j, "restart")
  /\ UNCHANGED <<dev, config, tip, head, served, lock, checks, cached, sim, calls, faults>>

\* The web server is restarted: its requests, its cached check and, as they
\* run in its control group, the scripts of its callers end.
Restart(j) ==
  /\ job[j].at = "restart" /\ served' = head
  /\ job' = [i \in Jobs |-> IF i = Unit /\ j = Unit THEN [job[Unit] EXCEPT !.at = "lock"]
                            ELSE IF i = Unit THEN job[Unit] ELSE Off]
  /\ request' = [c \in Callers |-> "idle"] /\ checks' = [c \in Callers |-> None]
  /\ cached' = None
  /\ UNCHANGED <<dev, config, tip, head, deps, lock, answer, sim, calls, faults>>

Lock(j) ==
  /\ job[j].at = "lock" /\ lock' = head
  /\ Ended(j, "updated")
  /\ UNCHANGED <<dev, config, tip, head, deps, served, checks, cached, sim, calls, faults>>

\* set -e: what was done stays done.
Fails(j) ==
  /\ Running(j) /\ Fault
  /\ Ended(j, "failed")
  /\ UNCHANGED <<dev, config, tip, tree, checks, cached, sim, calls>>

Timer ==
  /\ ~dev /\ auto /\ ~Running(Unit) /\ Call
  /\ job' = Started(job, Unit)
  /\ UNCHANGED <<dev, config, tip, tree, web, faults>>

-----------------------------------------------------------------------------
(* The web server                                                           *)

\* systemctl joins the start of a unit that is starting.
Trigger(c) ==
  /\ ~dev /\ request[c] = "idle" /\ Call
  /\ request' = [request EXCEPT ![c] = "start"]
  /\ job' = IF Running(Unit) THEN job ELSE Started(job, Unit)
  /\ UNCHANGED <<dev, config, tip, tree, answer, checks, cached, sim, faults>>

\* systemctl, or sudo, is refused.
Refused(c) ==
  /\ ~dev /\ request[c] = "idle" /\ Call /\ Fault
  /\ request' = [request EXCEPT ![c] = "force"] /\ job' = Started(job, c)
  /\ UNCHANGED <<dev, config, tip, tree, answer, checks, cached, sim>>

Simulate(c) ==
  /\ dev /\ Call
  /\ sim' = "running"
  /\ answer' = [answer EXCEPT ![c] = [told |-> "started", how |-> "simulated"]]
  /\ UNCHANGED <<dev, config, tip, tree, job, request, checks, cached, faults>>

Simulated ==
  /\ sim = "running" /\ sim' = "success" /\ cached' = None
  /\ UNCHANGED <<dev, config, tip, tree, job, request, answer, checks, calls, faults>>

\* A check asked for, or the status while none is cached; it runs in a
\* process of its own with the settings of the moment.
Check(c) ==
  /\ checks[c] = None /\ Call
  /\ checks' = [checks EXCEPT ![c] = [track |-> track, overtaken |-> FALSE]]
  /\ UNCHANGED <<dev, config, tip, tree, job, request, answer, cached, sim, faults>>

\* The check ends and is cached; a check that could not compare is cached
\* as an error, which the next status replaces.
Checked(c) ==
  /\ checks[c] # None
  /\ checks' = [checks EXCEPT ![c] = None]
  /\ LET target == tip[checks[c].track]
         status == IF target > head THEN "update-available"
                   ELSE IF target < head THEN "downgrade-blocked" ELSE "up-to-date"
     IN \/ /\ cached' = [track |-> checks[c].track, status |-> status,
                         overtaken |-> checks[c].overtaken]
           /\ UNCHANGED faults
        \/ Fault /\ cached' = None
  /\ UNCHANGED <<dev, config, tip, tree, job, request, answer, sim, calls>>

\* A bug: the cached check outlives the settings it was made with.
ClearedMutant == cached

Cleared == None

\* put_update_settings; a pinned release is not updated automatically.
Save(c) ==
  /\ Call
  /\ \E t \in Tracks, a \in BOOLEAN :
       track' = t /\ auto' = (a /\ t \notin Pinned)
  /\ cached' = Cleared
  /\ checks' = [i \in Callers |-> IF checks[i] = None THEN None
                                  ELSE [checks[i] EXCEPT !.overtaken = TRUE]]
  /\ UNCHANGED <<dev, tip, tree, job, request, answer, sim, faults>>

Next ==
  \/ \E t \in Tracks : Push(t)
  \/ Timer \/ Simulated
  \/ \E j \in Jobs : Resolve(j) \/ Checkout(j) \/ Install(j) \/ Restart(j) \/ Lock(j) \/ Fails(j)
  \/ \E c \in Callers : Trigger(c) \/ Refused(c) \/ Simulate(c) \/ Check(c) \/ Checked(c) \/ Save(c)

Spec == Init /\ [][Next]_vars

-----------------------------------------------------------------------------
(* Properties                                                               *)

\* A script that no other ran beside records a commit only when that commit
\* is the one checked out, its dependencies are installed and the services
\* run it, whatever failed in the scripts before it.
LockTrue ==
  \A j \in Jobs :
    (job[j].at = "lock" /\ job[j].alone) => head = deps /\ head = served

\* The check the page shows was made for the track that is configured, save
\* one that was under way while the settings were saved.
CheckCurrent ==
  (cached # None /\ ~cached.overtaken) => cached.track = track

\* A manual trigger that is answered "Update started" has run the updater,
\* which is to happen "manually with --force" (auto-update.sh:7): the unit
\* the trigger starts runs the script without it.
StartedLooks ==
  \A c \in Callers :
    (answer[c] # Silent /\ answer[c].told = "started") => answer[c].how # "skipped"
=============================================================================
