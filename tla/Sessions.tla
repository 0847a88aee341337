------------------------------ MODULE Sessions ------------------------------
(***************************************************************************)
(* The calendar of the forex market and of its four trading sessions, and   *)
(* the rules that keep a position from being held across their gaps.        *)
(* Operators of one instant, without a state.                               *)
(*                                                                          *)
(* An instant is a number of hours; 0 is a Monday midnight of UTC.  Minutes  *)
(* are left out: every session begins and ends at a full hour.              *)
(***************************************************************************)
EXTENDS Integers, FiniteSets, FiniteSetsExt

CONSTANT Et   \* hours New York is behind UTC: 5 in winter, 4 in summer

SessionIds == {"sydney", "asia", "london", "ny"}
Begins == [sydney |-> 17, asia |-> 0, london |-> 3, ny |-> 8]
Ends == [sydney |-> 2, asia |-> 9, london |-> 12, ny |-> 17]

\* Asia keeps the hours of UTC, the others those of New York.
Behind(id) == IF id = "asia" THEN 0 ELSE Et
Hour(t) == t % 24
Date(t) == t \div 24
Weekday(t) == Date(t) % 7          \* 0 is a Monday, 5 a Saturday

\* Closed from Friday 17:00 to Sunday 17:00, and for an hour every other day.
ForexOpen(t) ==
  LET et == t - Et IN
  CASE Weekday(et) = 5 -> FALSE
    [] Weekday(et) = 6 -> Hour(et) >= 17
    [] Weekday(et) = 4 -> Hour(et) < 17
    [] OTHER -> Hour(et) # 17

Active(id, t) ==
  LET h == Hour(t - Behind(id)) IN
  IF Begins[id] <= Ends[id] THEN Begins[id] <= h /\ h < Ends[id]
                            ELSE Begins[id] <= h \/ h < Ends[id]

\* A strategy without sessions trades in all that are enabled.
Effective(enabled, chosen) == IF chosen = {} THEN enabled ELSE enabled \cap chosen

Covered(ids, t) == ForexOpen(t) /\ \E id \in ids : Active(id, t)

BarOpen(t, frame) == t - (t % frame)

\* The next bar in which the market is open.  It is never closed for 72 hours,
\* nor for the 500 bars after which the code gives up.
NextBar(bar, frame) ==
  IF ForexOpen(bar + frame) THEN bar + frame
  ELSE bar + frame * Min({n \in 2..72 \div frame : ForexOpen(bar + frame * n)})

\* The bar of t is the last one of an island of sessions.
Leaves(ids, t, frame) ==
  /\ Covered(ids, BarOpen(t, frame)) \/ Covered(ids, t)
  /\ ~Covered(ids, NextBar(BarOpen(t, frame), frame))

\* On the Friday of a date of New York the last of the sessions ends, at the
\* latest with the week of the market.  The date in UTC of that noon is the same.
FridayClose(ids, friday) ==
  LET week == 24 * friday + 17 + Et
      ends == {24 * friday + Ends[id] + Behind(id) : id \in ids}
  IN Max({e \in ends : e <= week} \cup (IF \E e \in ends : e <= week THEN {} ELSE {week}))

FridayFrom(t) == Date(t - Et) + ((4 - Weekday(t - Et)) % 7)

\* The next close for the week, of this Friday or, once it is over, the next.
MajorClose(ids, t) ==
  Min({c \in {FridayClose(ids, FridayFrom(t) + 7 * k) : k \in 0..2} : t < c})

NearClose(ids, t, hours) == ids # {} /\ MajorClose(ids, t) - t <= hours

\* The rules, for the parameters p of a strategy and the sessions that are on.
ForceBoundary(p, on, t, frame) ==
  p.between /\ Leaves(Effective(on, p.sessions), t, frame)

ForceMarket(p, on, t) ==
  p.market /\ p.closeHours > 0 /\ NearClose(Effective(on, p.sessions), t, p.closeHours)

BlockLate(p, on, t) == p.late /\ NearClose(Effective(on, p.sessions), t, p.lateHours)
=============================================================================
