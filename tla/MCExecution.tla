---------------------------- MODULE MCExecution ----------------------------
(* Small instances of Execution: the runs of one or two batches.            *)
EXTENDS Execution

CONSTANTS r1, r2, r3, l1, l2, l3, ema, macd, eur, gbp

\* Both strategies may trade twice a day; the ema strategy has the better
\* priority.
Twice == [s \in Strategies |-> 2]
Once  == [s \in Strategies |-> 1]
Ranks == [s \in Strategies |-> IF s = ema THEN 10 ELSE 50]

\* Runs of one pair.
OnePair   == [r \in Runs |-> eur]
Both      == [r \in Runs |-> Strategies]

\* A batch of two pairs, and a later run of the first pair.
TwoPairs  == [r \in Runs |-> IF r = r2 THEN gbp ELSE eur]
Two       == [r \in Runs |-> IF r = r3 THEN 2 ELSE 1]

\* A batch with two timeframes of one pair, the ema strategy on one and the macd
\* strategy on the other, and a later run of the first.
Frames    == [r \in Runs |-> IF r = r2 THEN {macd} ELSE {ema}]

\* A manual analysis beside a batch.
Manual    == [r \in Runs |-> IF r = r1 THEN 1 ELSE 0]
=============================================================================
