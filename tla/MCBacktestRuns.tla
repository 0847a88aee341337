--------------------------- MODULE MCBacktestRuns ---------------------------
(* Small instances of BacktestRuns.                                         *)
EXTENDS BacktestRuns

CONSTANTS r1, r2
=============================================================================
