--------------------------- MODULE MCCandleCache ---------------------------
(* Five bars, the fourth of which the calendar expects and the broker lacks,  *)
(* while the third is the other way round and leaves the calendar without an  *)
(* expectation; backfills of a part or of all of them.                        *)
EXTENDS CandleCache

CONSTANTS w1, w2, r1

Windows0  == {<<1, 2>>, <<1, 5>>}
Quoted0   == 1..5 \ {4}
Calendar0 == 1..5 \ {3}
=============================================================================
