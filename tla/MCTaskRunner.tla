---------------------------- MODULE MCTaskRunner ----------------------------
(* Small instances of TaskRunner: research and trade sync, in one or two    *)
(* processes.                                                               *)
EXTENDS TaskRunner, TLC

CONSTANTS orchestrator, web, t1, t2, t3, research, sync

\* RESEARCH_KINDS exclude each other, and so do the broker syncs.
OwnKind == [k \in Kinds |-> {k}]

\* Tasks are told apart by nothing but their kind and owner, which the initial
\* state leaves open, and the processes run the same code.
Symmetry == Permutations(Tasks) \cup Permutations(Procs)
=============================================================================
