-------------------------- MODULE MCCandlePipeline --------------------------
(* Two pairs on one timeframe.  In Uneven, the strategies of p2 need fewer   *)
(* bars than the requirement their timeframe shares with p1.                *)
EXTENDS CandlePipeline

CONSTANTS p1, p2

Even == [p \in Pairs |-> RequirementMet]
Uneven == [p \in Pairs |-> IF p = p2 THEN UnitMet ELSE RequirementMet]
=============================================================================
