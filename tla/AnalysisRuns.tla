---------------------------- MODULE AnalysisRuns ----------------------------
(***************************************************************************)
(* The history of analyses: one row for a strategy, pair, candle, purpose   *)
(* and trade.  The Secretary's pass writes one for every strategy it runs,  *)
(* a request for a manual analysis writes and marks one, the exit monitor   *)
(* writes one for every open trade, and a page deletes them.                *)
(*                                                                          *)
(* Every session is a transaction of its own: a row is looked up in one and *)
(* written, from the copy read, in the next; the unique constraint of the   *)
(* table is what keeps two writers from inserting twice.                    *)
(***************************************************************************)
EXTENDS Naturals, FiniteSets

CONSTANTS
  Keys,      \* keys of the unique constraint
  Exits,     \* those of the exit monitor
  Callers,   \* passes and requests that overlap
  MaxCalls,  \* bound: analyses
  MaxGone,   \* bound: deletions
  MaxFaults  \* bound: passes that end half-way

None == [id |-> 0]

VARIABLES
  rows,    \* rows[k]: the row of k, or None
  gone,    \* the identifiers deleted
  call,    \* call[c]: the analysis c is persisting
  calls, faults

vars == <<rows, gone, call, calls, faults>>

Idle == [at |-> "idle"]
At(c, step) == call[c].at = step

\* An analysis is known by its number, which is also its identifier, its
\* result and the outcome the gates give it; outcome 0 is none.
Row == [id : 1..MaxCalls, result : 1..MaxCalls, type : {"live", "manual"},
        execution : 0..MaxCalls]

TypeOK ==
  /\ rows \in [Keys -> Row \cup {None}]
  /\ gone \subseteq 1..MaxCalls
  /\ \A c \in Callers : call[c].at \in {"idle", "find", "insert", "again", "merge", "stored", "gates"}
  /\ calls \in 0..MaxCalls /\ faults \in 0..MaxFaults

Init ==
  /\ rows = [k \in Keys |-> None] /\ gone = {}
  /\ call = [c \in Callers |-> Idle] /\ calls = 0 /\ faults = 0

\* The row of a strategy, pair, candle and purpose, and of a trade if it is an
\* exit's.
Existing(k) == rows[k]
Holds(k, id) == rows[k] # None /\ rows[k].id = id

Goes(c, step) == call' = [call EXCEPT ![c].at = step]
Ends(c) == call' = [call EXCEPT ![c] = Idle]
Stored(c, id) == call' = [call EXCEPT ![c].at = "stored", ![c].id = id]

\* analysis_result_to_document: every document starts as a live one; the
\* exit monitor gives its outcome with it.
Document(c) ==
  [id |-> call[c].nr, result |-> call[c].nr, type |-> "live",
   execution |-> IF call[c].key \in Exits THEN call[c].nr ELSE 0]

-----------------------------------------------------------------------------
(* insert_from_result, insert_from_document                                 *)

Begin(c) ==
  /\ At(c, "idle") /\ calls < MaxCalls /\ calls' = calls + 1
  /\ \E k \in Keys, manual \in BOOLEAN :
       /\ manual => k \notin Exits
       /\ call' = [call EXCEPT ![c] = [at |-> "find", key |-> k, nr |-> calls + 1,
                                       manual |-> manual, copy |-> None, id |-> 0]]
  /\ UNCHANGED <<rows, gone, faults>>

\* A row that vanished between the refused insertion and the second look-up
\* is an error.
Find(c) ==
  /\ At(c, "find") \/ At(c, "again")
  /\ LET found == Existing(call[c].key)
     IN IF found # None
        THEN call' = [call EXCEPT ![c].at = "merge", ![c].copy = found]
        ELSE IF At(c, "find") THEN Goes(c, "insert") ELSE Ends(c)
  /\ UNCHANGED <<rows, gone, calls, faults>>

Insert(c) ==
  /\ At(c, "insert")
  /\ IF rows[call[c].key] = None
     THEN /\ rows' = [rows EXCEPT ![call[c].key] = Document(c)]
          /\ Stored(c, call[c].nr)
     ELSE Goes(c, "again") /\ UNCHANGED rows
  /\ UNCHANGED <<gone, calls, faults>>

\* A bug: a manual row's result is replaced as any other.
MergedMutant(copy, doc, exit) ==
  [copy EXCEPT !.result = doc.result,
               !.execution = IF exit THEN doc.execution ELSE @]

\* _merge_fields: a manual row keeps its result and its mark, and only the
\* exit monitor's outcome replaces the one stored.
Merged(copy, doc, exit) ==
  [copy EXCEPT !.result = IF copy.type = "manual" THEN @ ELSE doc.result,
               !.execution = IF exit THEN doc.execution ELSE @]

\* The whole document is written from the copy; a row deleted since is left
\* deleted, and the caller goes on with the identifier it had.
Merge(c) ==
  /\ At(c, "merge")
  /\ LET k == call[c].key
         copy == call[c].copy
     IN /\ IF Holds(k, copy.id)
           THEN rows' = [rows EXCEPT ![k] = Merged(copy, Document(c), k \in Exits)]
           ELSE UNCHANGED rows
        /\ Stored(c, copy.id)
  /\ UNCHANGED <<gone, calls, faults>>

-----------------------------------------------------------------------------
(* What follows                                                             *)

\* A request marks its row, and fails when the row is gone.
Mark(c) ==
  LET k == call[c].key
  IN /\ At(c, "stored") /\ call[c].manual
     /\ IF Holds(k, call[c].id)
        THEN rows' = [rows EXCEPT ![k].type = "manual"] /\ Goes(c, "gates")
        ELSE UNCHANGED rows /\ Ends(c)
     /\ UNCHANGED <<gone, calls, faults>>

\* The outcome of this analysis, whatever result the row keeps; nothing is
\* recorded on a row that is gone.  An exit analysis ends with its row.
Outcome(c) ==
  LET k == call[c].key
  IN /\ \/ At(c, "gates")
        \/ At(c, "stored") /\ ~call[c].manual
     /\ rows' = IF k \notin Exits /\ Holds(k, call[c].id)
                THEN [rows EXCEPT ![k].execution = call[c].nr] ELSE rows
     /\ Ends(c)
     /\ UNCHANGED <<gone, calls, faults>>

Delete(k) ==
  /\ rows[k] # None /\ Cardinality(gone) < MaxGone
  /\ gone' = gone \cup {rows[k].id}
  /\ rows' = [rows EXCEPT ![k] = None]
  /\ UNCHANGED <<call, calls, faults>>

\* The process restarts, the database fails, or the gates raise.
Fault(c) ==
  /\ ~At(c, "idle") /\ faults < MaxFaults /\ faults' = faults + 1
  /\ Ends(c)
  /\ UNCHANGED <<rows, gone, calls>>

Next ==
  \/ \E c \in Callers : Begin(c) \/ Find(c) \/ Insert(c) \/ Merge(c) \/ Mark(c)
                        \/ Outcome(c) \/ Fault(c)
  \/ \E k \in Keys : Delete(k)

Spec == Init /\ [][Next]_vars

-----------------------------------------------------------------------------
(* Properties                                                               *)

\* The result of a manual analysis and its mark are lost only with the row,
\* or to a writer that had read the row before it held them: the merge of
\* strategy_analysis_runs.py writes a whole document from an old copy.
ManualHolds ==
  \A k \in Keys :
    (rows[k] # None /\ rows[k].type = "manual" /\ rows'[k] # None) =>
      \/ rows'[k].type = "manual" /\ rows'[k].result = rows[k].result
      \/ \E c \in Callers : At(c, "merge") /\ call[c].key = k
                            /\ \/ call[c].copy.type = "live"
                               \/ call[c].copy.result # rows[k].result

ManualStays == [][ManualHolds]_vars

\* A row that was deleted never comes back, whoever was about to write it.
GoneStays == \A k \in Keys : rows[k] # None => rows[k].id \notin gone
=============================================================================
