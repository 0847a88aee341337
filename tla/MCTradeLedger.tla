---------------------------- MODULE MCTradeLedger ----------------------------
(* Instances of TradeLedger for TLC.                                       *)
EXTENDS TradeLedger, TLC

CONSTANTS orchestrator, web, t1, t2, long, short

OwnKey    == [t \in Trades |-> IF t = t1 THEN long ELSE short]
SharedKey == [t \in Trades |-> long]

=============================================================================
