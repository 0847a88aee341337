------------------------------ MODULE Feedback ------------------------------
(***************************************************************************)
(* AI feedback on a completed backtest: a request or the coordinator's hook *)
(* begins a job on the event loop, which asks a model and writes its answer *)
(* with the suggestions in it onto the run's document.                      *)
(*                                                                          *)
(* What the model is shown is not modelled: it is text.  Every await is a   *)
(* place where another request may go on; what lies between two awaits is   *)
(* one step.                                                                *)
(***************************************************************************)
EXTENDS Integers, FiniteSets, Sequences

CONSTANTS
  Runs,         \* completed backtests
  Callers,      \* requests and hooks that overlap
  Paths,        \* SUGGESTION_ALLOWLIST
  Raw,          \* sequences of suggestions a model may write
  Low, High,    \* the bounds of a path's value
  MaxCalls,     \* bound: requests
  MaxFaults,    \* bound: failures of the model or the database
  MaxCrashes    \* bound: restarts of the web server

None == "none"

VARIABLES
  status,       \* status[r]: the feedback of r; "gone" once r is deleted
  suggestions,  \* suggestions[r]: those stored with it
  ready,        \* whether feedback is on and a model is chosen
  inflight,     \* _inflight_feedback
  call,
  calls, faults, crashes

vars == <<status, suggestions, ready, inflight, call, calls, faults, crashes>>

Idle == [pc |-> "idle"]
At(c, pc) == call[c].pc = pc
Jobs == {"settings", "running", "asking", "save", "unsaved", "raised"}

\* What the document may say; anything else reads as no feedback.
Statuses == {None, "running", "completed", "failed"}

TypeOK ==
  /\ status \in [Runs -> Statuses \cup {"gone"}]
  /\ ready \in BOOLEAN /\ inflight \subseteq Runs
  /\ \A c \in Callers : call[c].pc \in Jobs \cup {"idle", "auto", "begin", "check", "mark"}
  /\ calls \in 0..MaxCalls /\ faults \in 0..MaxFaults /\ crashes \in 0..MaxCrashes

Init ==
  /\ status \in [Runs -> {None, "completed", "failed"}]
  /\ suggestions = [r \in Runs |-> <<>>]
  /\ ready \in BOOLEAN /\ inflight = {} /\ call = [c \in Callers |-> Idle]
  /\ calls = 0 /\ faults = 0 /\ crashes = 0

Goes(c, pc) == call' = [call EXCEPT ![c].pc = pc]
Ends(c) == call' = [call EXCEPT ![c] = Idle]
Same == UNCHANGED <<calls, crashes>>
Broken(bad) == faults' = IF bad THEN faults + 1 ELSE faults
Fault(bad) == /\ bad => faults < MaxFaults
              /\ Broken(bad)

\* The document of a run that was deleted is not written.
Put(r, st, offered) ==
  IF status[r] = "gone" THEN UNCHANGED <<status, suggestions>>
  ELSE /\ status' = [status EXCEPT ![r] = st]
       /\ suggestions' = [suggestions EXCEPT ![r] = offered]

-----------------------------------------------------------------------------
(* Suggestions                                                              *)

Valid(s) == s.path \in Paths /\ s.to \in Low..High

\* A bug: a value is taken as the model wrote it.
NormalizedMutant(raw) ==
  SelectSeq(raw, LAMBDA s : s.path \in Paths)

\* A priority of 0 counts as none, which is 99.
Rank(s) == IF s.priority = 0 THEN 99 ELSE s.priority

\* By priority, then by path.
Before(a, b) ==
  \/ Rank(a) < Rank(b)
  \/ Rank(a) = Rank(b) /\ a.path < b.path

\* Of the valid suggestions the first for each path, in order.
Normalized(raw) ==
  LET first == {i \in DOMAIN raw : /\ Valid(raw[i])
                                   /\ \A j \in 1..(i - 1) :
                                        Valid(raw[j]) => raw[j].path # raw[i].path}
      best == {raw[i] : i \in first}
  IN CHOOSE s \in [1..Cardinality(best) -> best] :
       \A i, j \in DOMAIN s : i < j => Before(s[i], s[j])

-----------------------------------------------------------------------------
(* Beginning a job                                                          *)

Ask(c, r) ==
  /\ At(c, "idle") /\ calls < MaxCalls /\ status[r] # "gone"
  /\ call' = [call EXCEPT ![c] = [pc |-> "begin", run |-> r]]
  /\ calls' = calls + 1
  /\ UNCHANGED <<status, suggestions, ready, inflight, faults, crashes>>

\* The coordinator has seen the run complete.
Hook(c, r) ==
  /\ At(c, "idle") /\ calls < MaxCalls /\ ready
  /\ call' = [call EXCEPT ![c] = [pc |-> "auto", run |-> r]]
  /\ calls' = calls + 1
  /\ UNCHANGED <<status, suggestions, ready, inflight, faults, crashes>>

HookReads(c) ==
  /\ At(c, "auto")
  /\ IF status[call[c].run] \in {"running", "completed", "gone"} THEN Ends(c)
     ELSE Goes(c, "begin")
  /\ UNCHANGED <<status, suggestions, ready, inflight, faults>> /\ Same

Reads(c) ==
  /\ At(c, "begin")
  /\ IF status[call[c].run] = "gone" THEN Ends(c)
     ELSE call' = [call EXCEPT ![c] = [pc |-> "check", run |-> call[c].run,
                                       seen |-> status[call[c].run]]]
  /\ UNCHANGED <<status, suggestions, ready, inflight, faults>> /\ Same

\* A bug: only the status that was read before the settings were is looked at.
CheckMutant(c) ==
  LET r == call[c].run IN
  /\ At(c, "check")
  /\ IF ~ready \/ call[c].seen = "running"
     THEN Ends(c) /\ UNCHANGED inflight
     ELSE Goes(c, "mark") /\ inflight' = inflight \cup {r}
  /\ UNCHANGED <<status, suggestions, ready, faults>> /\ Same

\* The settings are read; then, in one step, the run is taken if it is free.
Check(c) ==
  LET r == call[c].run IN
  /\ At(c, "check")
  /\ IF ~ready \/ call[c].seen = "running" \/ r \in inflight
     THEN Ends(c) /\ UNCHANGED inflight
     ELSE Goes(c, "mark") /\ inflight' = inflight \cup {r}
  /\ UNCHANGED <<status, suggestions, ready, faults>> /\ Same

\* If the document cannot be written the request fails, and the run stays taken.
Mark(c, bad) ==
  /\ At(c, "mark") /\ Fault(bad)
  /\ IF bad THEN Ends(c) /\ UNCHANGED <<status, suggestions>>
     ELSE Goes(c, "settings") /\ Put(call[c].run, "running", <<>>)
  /\ UNCHANGED <<ready, inflight>> /\ Same

-----------------------------------------------------------------------------
(* The job                                                                  *)

\* A model that is no longer chosen or on ends the job.
Settles(c, found) ==
  /\ At(c, "settings")
  /\ found => ready
  /\ Goes(c, IF found THEN "running" ELSE "raised")
  /\ inflight' = IF found THEN inflight ELSE inflight \ {call[c].run}
  /\ UNCHANGED <<status, suggestions, ready, faults>> /\ Same

Remark(c, bad) ==
  /\ At(c, "running") /\ Fault(bad)
  /\ IF bad THEN /\ Goes(c, "raised") /\ inflight' = inflight \ {call[c].run}
                 /\ UNCHANGED <<status, suggestions>>
     ELSE /\ Goes(c, "asking") /\ Put(call[c].run, "running", <<>>)
          /\ UNCHANGED inflight
  /\ UNCHANGED ready /\ Same

\* The run is packed and the model answers, the run deleted meanwhile or not.
Answered(c) ==
  /\ At(c, "asking")
  /\ \E raw \in Raw :
       call' = [call EXCEPT ![c] = [pc |-> "save", run |-> call[c].run, raw |-> raw]]
  /\ UNCHANGED <<status, suggestions, ready, inflight, faults>> /\ Same

\* The run was deleted, or the model fails or writes nothing usable.
Unanswered(c) ==
  LET gone == status[call[c].run] = "gone" IN
  /\ At(c, "asking") /\ Fault(~gone)
  /\ Goes(c, "unsaved")
  /\ UNCHANGED <<status, suggestions, ready, inflight>> /\ Same

Save(c, bad) ==
  /\ At(c, "save") /\ Fault(bad)
  /\ IF bad THEN Goes(c, "unsaved") /\ UNCHANGED <<status, suggestions, inflight>>
     ELSE /\ Put(call[c].run, "completed", Normalized(call[c].raw)) /\ Ends(c)
          /\ inflight' = inflight \ {call[c].run}
  /\ UNCHANGED ready /\ Same

\* The failure is written by the job, and once more by the task around it.
SaveFailure(c, bad) ==
  /\ At(c, "unsaved") /\ Fault(bad)
  /\ inflight' = inflight \ {call[c].run}
  /\ IF bad THEN Goes(c, "raised") /\ UNCHANGED <<status, suggestions>>
     ELSE Put(call[c].run, "failed", <<>>) /\ Ends(c)
  /\ UNCHANGED ready /\ Same

Raised(c, bad) ==
  /\ At(c, "raised") /\ Fault(bad)
  /\ Ends(c)
  /\ IF bad THEN UNCHANGED <<status, suggestions>> ELSE Put(call[c].run, "failed", <<>>)
  /\ UNCHANGED <<ready, inflight>> /\ Same

-----------------------------------------------------------------------------

Configure ==
  /\ calls < MaxCalls /\ calls' = calls + 1 /\ ready' = ~ready
  /\ UNCHANGED <<status, suggestions, inflight, call, faults, crashes>>

Delete(r) ==
  /\ calls < MaxCalls /\ calls' = calls + 1
  /\ status[r] # "gone" /\ status' = [status EXCEPT ![r] = "gone"]
  /\ UNCHANGED <<suggestions, ready, inflight, call, faults, crashes>>

\* Jobs and what is taken are gone; the documents stay.
Crash ==
  /\ crashes < MaxCrashes /\ crashes' = crashes + 1
  /\ inflight' = {} /\ call' = [c \in Callers |-> Idle]
  /\ UNCHANGED <<status, suggestions, ready, calls, faults>>

Next ==
  \/ \E c \in Callers :
       \/ \E r \in Runs : Ask(c, r) \/ Hook(c, r)
       \/ HookReads(c) \/ Reads(c) \/ Check(c) \/ Answered(c) \/ Unanswered(c)
       \/ \E bad \in BOOLEAN :
            Mark(c, bad) \/ Settles(c, bad) \/ Remark(c, bad) \/ Save(c, bad)
            \/ SaveFailure(c, bad) \/ Raised(c, bad)
  \/ Configure \/ Crash
  \/ \E r \in Runs : Delete(r)

Spec == Init /\ [][Next]_vars

-----------------------------------------------------------------------------

\* However requests and the hook overlap, a model is asked about a run by one job
\* at a time, and while it is the run says so or an earlier job's failure.
OneJob ==
  \A c \in Callers : At(c, "asking") =>
    /\ \A d \in Callers \ {c} : At(d, "asking") => call[d].run # call[c].run
    /\ status[call[c].run] # "completed"

\* What is offered to the user can be applied: known paths, each once, with values
\* in bounds; and only completed feedback has any.
Offered ==
  \A r \in Runs : LET s == suggestions[r] IN
    /\ \A i \in DOMAIN s : s[i].path \in Paths /\ s[i].to \in Low..High
    /\ \A i, j \in DOMAIN s : s[i].path = s[j].path => i = j
=============================================================================
