------------------------------- MODULE EntryBook -------------------------------
(* What the execution gates promise about entries: of a pair at most one     *)
(* position is held, and of a pair and strategy at most so many orders are   *)
(* placed in a day, whoever places them and however they interleave.  The    *)
(* promise ends with the first call that fails.                              *)
EXTENDS Naturals

CONSTANTS Pairs, Strategies, OnePerPair, MaxTrades

VARIABLES
    held,   \* held[p]: the number of positions held in pair p
    orders, \* orders[p][s]: the number of orders of strategy s in pair p today
    sound   \* whether no call has failed

vars == <<held, orders, sound>>

Init ==
    /\ held = [p \in Pairs |-> 0]
    /\ orders = [p \in Pairs |-> [s \in Strategies |-> 0]]
    /\ sound = TRUE

Enter(p, s) ==
    /\ sound =>
        /\ OnePerPair => held[p] = 0
        /\ orders[p][s] < MaxTrades[s]
    /\ held' = [held EXCEPT ![p] = @ + 1]
    /\ orders' = [orders EXCEPT ![p][s] = @ + 1]
    /\ UNCHANGED sound

Leave(p) ==
    /\ held[p] > 0
    /\ held' = [held EXCEPT ![p] = @ - 1]
    /\ UNCHANGED <<orders, sound>>

Fail == sound' = FALSE /\ UNCHANGED <<held, orders>>

Next ==
    \/ \E p \in Pairs : Leave(p) \/ \E s \in Strategies : Enter(p, s)
    \/ Fail

Spec == Init /\ [][Next]_vars
=============================================================================
