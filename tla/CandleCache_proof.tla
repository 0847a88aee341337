------------------------- MODULE CandleCache_proof -------------------------
(***************************************************************************)
(* Proofs about CandleCache, for any bars, calendar, sizes of pages and    *)
(* number of callers: what ensure_coverage answers is true, a backfill or  *)
(* a repair delivers what it promised, and the syncs leave no hole.        *)
(***************************************************************************)
EXTENDS CandleCache, FiniteSetTheorems, WellFoundedInduction, TLAPS

-----------------------------------------------------------------------------
(* Least and greatest elements, and the first and the last of a set.       *)

\* The sets of smaller elements are ordered by inclusion: the smallest of them
\* is that of the least element.
LEMMA MinExists ==
  ASSUME NEW S, S \subseteq Nat, IsFiniteSet(S), S # {}
  PROVE  Min(S) \in S /\ \A x \in S : Min(S) <= x
<1> DEFINE Below(x) == {y \in S : y < x}
           T == {Below(x) : x \in S}
<1>1. T \subseteq FiniteSubsetsOf(S) /\ T # {}
  <2>1. \A x : Below(x) \subseteq S /\ IsFiniteSet(Below(x))
    BY FS_Subset
  <2> QED
    BY <2>1 DEF FiniteSubsetsOf
<1>2. PICK u \in T : \A v \in T : <<v, u>> \notin StrictSubsetOrdering(S)
  <2> HIDE DEF T
  <2> QED
    BY <1>1, FS_StrictSubsetOrderingWellFounded, WFMin
<1>3. PICK x \in S : u = Below(x)
  BY <1>2
<1>4. ASSUME NEW y \in S, y < x PROVE FALSE
  <2>1. <<Below(y), Below(x)>> \notin StrictSubsetOrdering(S)
    BY <1>2, <1>3
  <2>2. ~ (Below(y) \subseteq Below(x) /\ Below(y) # Below(x))
    BY <2>1 DEF StrictSubsetOrdering
  <2>3. y \in Below(x) /\ y \notin Below(y)
    BY <1>4
  <2>4. ASSUME NEW z \in Below(y) PROVE z \in Below(x)
    <3>1. z \in S /\ z < y /\ z \in Nat /\ y \in Nat /\ x \in Nat
      BY <2>4
    <3> QED
      BY <1>4, <3>1
  <2> HIDE DEF Below
  <2> QED
    BY <2>2, <2>3, <2>4
<1>5. \A y \in S : x <= y
  BY <1>4
<1> QED
  BY <1>5 DEF Min

LEMMA MaxExists ==
  ASSUME NEW S, S \subseteq Nat, IsFiniteSet(S), S # {}
  PROVE  Max(S) \in S /\ \A x \in S : x <= Max(S)
<1> DEFINE Above(x) == {y \in S : y > x}
           T == {Above(x) : x \in S}
<1>1. T \subseteq FiniteSubsetsOf(S) /\ T # {}
  <2>1. \A x : Above(x) \subseteq S /\ IsFiniteSet(Above(x))
    BY FS_Subset
  <2> QED
    BY <2>1 DEF FiniteSubsetsOf
<1>2. PICK u \in T : \A v \in T : <<v, u>> \notin StrictSubsetOrdering(S)
  <2> HIDE DEF T
  <2> QED
    BY <1>1, FS_StrictSubsetOrderingWellFounded, WFMin
<1>3. PICK x \in S : u = Above(x)
  BY <1>2
<1>4. ASSUME NEW y \in S, y > x PROVE FALSE
  <2>1. <<Above(y), Above(x)>> \notin StrictSubsetOrdering(S)
    BY <1>2, <1>3
  <2>2. ~ (Above(y) \subseteq Above(x) /\ Above(y) # Above(x))
    BY <2>1 DEF StrictSubsetOrdering
  <2>3. y \in Above(x) /\ y \notin Above(y)
    BY <1>4
  <2>4. ASSUME NEW z \in Above(y) PROVE z \in Above(x)
    <3>1. z \in S /\ z > y /\ z \in Nat /\ y \in Nat /\ x \in Nat
      BY <2>4
    <3> QED
      BY <1>4, <3>1
  <2> HIDE DEF Above
  <2> QED
    BY <2>2, <2>3, <2>4
<1>5. \A y \in S : x >= y
  BY <1>4
<1> QED
  BY <1>5 DEF Max

\* Sets of bars.
LEMMA BarSet ==
  ASSUME CacheAssumption, NEW S, S \subseteq Bars
  PROVE  /\ S \subseteq Nat /\ IsFiniteSet(S)
         /\ Cardinality(S) \in Nat /\ Cardinality(S) <= MaxBar
         /\ \A T \in SUBSET S : Cardinality(T) \in Nat /\ Cardinality(T) <= Cardinality(S)
<1>1. IsFiniteSet(Bars) /\ Cardinality(Bars) = MaxBar
  BY FS_Interval DEF Bars, CacheAssumption
<1>2. IsFiniteSet(S) /\ Cardinality(S) <= MaxBar
  BY <1>1, FS_Subset
<1>3. \A T \in SUBSET S : IsFiniteSet(T) /\ Cardinality(T) <= Cardinality(S)
  BY <1>2, FS_Subset
<1> QED
  BY <1>2, <1>3, FS_CardinalityType DEF Bars

\* The oldest and the latest of the stored bars.
LEMMA Ends ==
  ASSUME CacheAssumption, NEW S, S \subseteq Bars, S # {}
  PROVE  /\ Latest(S) = Max(S) /\ Oldest(S) = Min(S)
         /\ Latest(S) \in S /\ \A b \in S : b <= Latest(S)
         /\ Oldest(S) \in S /\ \A b \in S : Oldest(S) <= b
BY BarSet, MinExists, MaxExists DEF Latest, Oldest

\* The first bars of a set are closed downwards in it and no more than asked;
\* the last ones are closed upwards.
LEMMA FirstPart ==
  ASSUME CacheAssumption, NEW S, S \subseteq Bars, NEW n \in Nat
  PROVE  /\ FirstN(S, n) \subseteq S
         /\ \A b \in S, g \in FirstN(S, n) : b <= g => b \in FirstN(S, n)
         /\ Cardinality(FirstN(S, n)) \in Nat /\ Cardinality(FirstN(S, n)) <= n
<1> DEFINE F == FirstN(S, n)
           Below(x) == {c \in S : c < x}
<1>1. F \subseteq S /\ F \subseteq Bars /\ S \subseteq Nat
  BY BarSet DEF FirstN
<1>2. ASSUME NEW b \in S, NEW g \in F, b <= g PROVE b \in F
  <2>1. Below(g) \subseteq Bars /\ Below(b) \in SUBSET Below(g)
    <3>1. g \in Nat /\ b \in Nat /\ \A c \in S : c \in Nat /\ c \in Bars
      BY <1>1
    <3>2. \A c \in S : c < b => c < g
      BY <1>2, <3>1
    <3> QED
      BY <3>1, <3>2
  <2>2. Cardinality(Below(g)) < n
    BY DEF FirstN
  <2>3. Cardinality(Below(b)) <= Cardinality(Below(g)) /\ Cardinality(Below(b)) \in Nat
          /\ Cardinality(Below(g)) \in Nat
    BY <2>1, BarSet
  <2> QED
    BY <2>2, <2>3 DEF FirstN
<1>3. Cardinality(F) <= n
  <2>1. CASE F = {}
    BY <2>1, FS_EmptySet
  <2>2. CASE F # {}
    <3>1. Max(F) \in F /\ \A x \in F : x <= Max(F)
      BY <1>1, <2>2, BarSet, MaxExists
    <3>2. F \ {Max(F)} \in SUBSET Below(Max(F)) /\ Below(Max(F)) \subseteq Bars
      <4>1. Max(F) \in Nat /\ \A c \in F : c \in Nat /\ c \in S
        BY <1>1, <3>1
      <4>2. \A c \in F : c # Max(F) => c < Max(F)
        BY <3>1, <4>1
      <4> HIDE DEF F
      <4> QED
        BY <1>1, <4>1, <4>2
    <3>3. Cardinality(Below(Max(F))) < n
      BY <3>1 DEF FirstN
    <3>4. Cardinality(F \ {Max(F)}) = Cardinality(F) - 1
      BY <1>1, <3>1, BarSet, FS_RemoveElement
    <3> HIDE DEF F, Below
    <3>5. Cardinality(F \ {Max(F)}) <= Cardinality(Below(Max(F)))
            /\ Cardinality(Below(Max(F))) \in Nat /\ Cardinality(F) \in Nat
      BY <1>1, <3>2, BarSet
    <3> QED
      BY <3>3, <3>4, <3>5
  <2> QED
    BY <2>1, <2>2
<1> QED
  BY <1>1, <1>2, <1>3, BarSet

LEMMA LastPart ==
  ASSUME CacheAssumption, NEW S, S \subseteq Bars, NEW n \in Nat
  PROVE  /\ LastN(S, n) \subseteq S
         /\ \A b \in S, g \in LastN(S, n) : g <= b => b \in LastN(S, n)
         /\ \A b \in S : Cardinality(S) <= n => b \in LastN(S, n)
<1> DEFINE Above(x) == {c \in S : c > x}
<1>1. LastN(S, n) \subseteq S /\ S \subseteq Nat
  BY BarSet DEF LastN
<1>2. ASSUME NEW b \in S, NEW g \in LastN(S, n), g <= b PROVE b \in LastN(S, n)
  <2>1. Above(g) \subseteq Bars /\ Above(b) \in SUBSET Above(g)
    <3>1. g \in Nat /\ b \in Nat /\ \A c \in S : c \in Nat /\ c \in Bars
      BY <1>1
    <3>2. \A c \in S : c > b => c > g
      BY <1>2, <3>1
    <3> QED
      BY <3>1, <3>2
  <2>2. Cardinality(Above(g)) < n
    BY DEF LastN
  <2>3. Cardinality(Above(b)) <= Cardinality(Above(g)) /\ Cardinality(Above(b)) \in Nat
          /\ Cardinality(Above(g)) \in Nat
    BY <2>1, BarSet
  <2> QED
    BY <2>2, <2>3 DEF LastN
<1>3. ASSUME NEW b \in S, Cardinality(S) <= n PROVE b \in LastN(S, n)
  <2>1. Above(b) \in SUBSET (S \ {b}) /\ S \ {b} \subseteq Bars
    BY <1>1
  <2>2. Cardinality(S \ {b}) = Cardinality(S) - 1
    BY BarSet, FS_RemoveElement
  <2>3. Cardinality(Above(b)) < n
    BY <1>3, <2>1, <2>2, BarSet
  <2> QED
    BY <2>3 DEF LastN
<1> QED
  BY <1>1, <1>2, <1>3
-----------------------------------------------------------------------------
(* Types.                                                                  *)

\* What a call has counted before it stores its bars is no more than all bars.
CountedOne(o) == o.pc \notin {"check", "latest", "mark"} => o.count <= MaxBar

TypeInv == TypeOK /\ \A p \in Procs : CountedOne(op[p])

\* A record of a call, field by field.
LEMMA OpTyped ==
  ASSUME NEW o
  PROVE  o \in OpType <=>
           /\ o = [kind |-> o.kind, pc |-> o.pc, count |-> o.count, mark |-> o.mark,
                   got |-> o.got, from |-> o.from, to |-> o.to, cursor |-> o.cursor,
                   owed |-> o.owed, ask |-> o.ask, due |-> o.due,
                   complete |-> o.complete, ans |-> o.ans]
           /\ o.kind \in {"none", "step", "warm", "ensure", "window", "repair"}
           /\ o.pc \in {"idle"} \cup Fetching \cup Querying
           /\ o.count \in 0..2 * MaxBar /\ o.mark \in 0..MaxBar /\ o.got \in SUBSET Bars
           /\ o.from \in 0..MaxBar /\ o.to \in 0..MaxBar /\ o.cursor \in 0..MaxBar + 1
           /\ o.owed \in SUBSET Bars /\ o.ask \in 0..MaxBar /\ o.due \in 0..MaxBar
           /\ o.complete \in BOOLEAN /\ o.ans \in {"none", "yes", "no"}
BY DEF OpType

LEMMA BlankTyped ==
  ASSUME CacheAssumption
  PROVE  Blank \in OpType /\ CountedOne(Blank)
BY DEF Blank, OpType, CountedOne, CacheAssumption, Bars

\* The ends of a set of bars, and what the broker returns.
LEMMA EndsTyped ==
  ASSUME CacheAssumption, NEW S, S \subseteq Bars
  PROVE  Latest(S) \in 0..MaxBar /\ Oldest(S) \in 0..MaxBar
<1>1. CASE S = {}
  BY <1>1 DEF Latest, Oldest, CacheAssumption
<1>2. CASE S # {}
  <2>1. Latest(S) \in Bars /\ Oldest(S) \in Bars
    BY <1>2, Ends
  <2> QED
    BY <2>1 DEF Bars, CacheAssumption
<1> QED
  BY <1>1, <1>2

LEMMA CountTyped ==
  ASSUME CacheAssumption, NEW n \in Nat
  PROVE  RequestCount(n) \in Nat
BY DEF RequestCount, Smaller, CacheAssumption

LEMMA FetchTyped ==
  ASSUME CacheAssumption, NEW n \in Nat, NEW t, NEW done
  PROVE  /\ FetchCount(n, done) \subseteq {b \in Offered : b <= done}
         /\ FetchTo(t, n) \subseteq {b \in Offered : b < t /\ b <= marked}
         /\ FetchFrom(t, n) \subseteq {b \in Offered : b >= t /\ b <= marked}
BY DEF FetchCount, FetchTo, FetchFrom, Closed, LastN, FirstN

LEMMA OfferedBars ==
  ASSUME CacheAssumption PROVE Offered \subseteq Bars /\ Offered \subseteq Quoted
BY DEF Offered, CacheAssumption

LEMMA ExpectedTyped ==
  ASSUME CacheAssumption PROVE Expected \in 0..MaxBar
<1>1. {b \in Calendar : b <= now /\ b + Lookback > now} \subseteq Bars
  BY DEF CacheAssumption
<1> QED
  BY <1>1, EndsTyped DEF Expected

\* A call that stands still or is answered.
LEMMA PutTyped ==
  ASSUME TypeInv, NEW p \in Procs, NEW r \in OpType, CountedOne(r), Put(p, r)
  PROVE  /\ op' \in [Procs -> OpType] /\ op' = [op EXCEPT ![p] = r]
         /\ \A q \in Procs : CountedOne(op'[q])
BY DEF TypeInv, TypeOK, Put

LEMMA AnswerTyped ==
  ASSUME CacheAssumption, TypeInv, NEW p \in Procs, NEW o \in OpType,
         NEW ans \in {"none", "yes", "no"}
  PROVE  /\ Ended(o, ans) \in OpType /\ CountedOne(Ended(o, ans))
         /\ Answer(p, o, ans) =>
              /\ op' \in [Procs -> OpType]
              /\ \A q \in Procs : CountedOne(op'[q])
<1>1. Ended(o, ans) \in OpType /\ CountedOne(Ended(o, ans))
  <2>1. {b \in o.owed \cap Quoted : b < o.ask} \in SUBSET Bars
    BY DEF OpType, CacheAssumption
  <2> HIDE DEF Fetching, Querying
  <2> QED
    BY <2>1, BlankTyped DEF Ended, OpType, CountedOne, Blank
<1>2. Answer(p, o, ans) =>
        \E r \in OpType : CountedOne(r) /\ Put(p, r)
  BY <1>1, BlankTyped DEF Answer
<1> QED
  BY <1>1, <1>2, PutTyped
\* A step of a call.
Moves(p) == Start(p) \/ Continue(p) \/ FetchFails(p)

\* What such a step leaves in the record of its call.
LEMMA MoveTyped ==
  ASSUME CacheAssumption, TypeInv, NEW p \in Procs, Moves(p)
  PROVE  /\ op' \in [Procs -> OpType] /\ \A q \in Procs : CountedOne(op'[q])
         /\ \A q \in Procs : q # p => op'[q] = op[q]
<1> DEFINE Fine == /\ op' \in [Procs -> OpType] /\ \A q \in Procs : CountedOne(op'[q])
                   /\ \A q \in Procs : q # p => op'[q] = op[q]
           o == op[p]
<1> SUFFICES Fine
  OBVIOUS
<1>0. /\ op \in [Procs -> OpType] /\ o \in OpType /\ CountedOne(o)
      /\ stored \subseteq Bars /\ now \in 0..MaxBar /\ MaxBar \in Nat
  BY DEF TypeInv, TypeOK, CacheAssumption
<1>1. ASSUME NEW r \in OpType, CountedOne(r), Put(p, r) PROVE Fine
  BY <1>0, <1>1, PutTyped DEF Put
<1>2. ASSUME NEW r \in OpType, NEW ans \in {"yes", "no"}, Answer(p, r, ans) PROVE Fine
  BY <1>0, <1>2, AnswerTyped DEF Answer, Put
<1>3. Cardinality(stored) \in 0..MaxBar /\ Expected \in 0..MaxBar
        /\ Latest(stored) \in 0..MaxBar /\ Oldest(stored) \in 0..MaxBar
        /\ IsComplete \in BOOLEAN
  BY <1>0, BarSet, ExpectedTyped, EndsTyped DEF IsComplete
<1>4. \A n \in Nat : \A t, done : /\ FetchCount(n, done) \in SUBSET Bars
                                  /\ FetchTo(t, n) \in SUBSET Bars
                                  /\ FetchFrom(t, n) \in SUBSET Bars
  BY FetchTyped, OfferedBars
<1>5. Need \in Nat /\ ChunkSize \in Nat /\ Extra \in Nat
  BY DEF CacheAssumption
<1>29. /\ Blank \in OpType /\ {} \in SUBSET Bars /\ 0 \in 0..MaxBar /\ 0 \in 0..MaxBar + 1
       /\ \A m \in 1..MaxBar : m \in 0..MaxBar /\ m \in 0..MaxBar + 1
       /\ \A m \in 0..MaxBar : m \in 0..2 * MaxBar
       /\ {"counted", "upsert", "check"} \subseteq Querying /\ "pages" \in Fetching
  BY <1>0, BlankTyped DEF Querying, Fetching
<1> HIDE DEF Fine, o
<1>6. ASSUME NEW kind \in {"step", "warm"}, Begin(p, kind, "sync") PROVE Fine
  <2>1. [Blank EXCEPT !.kind = kind, !.pc = "sync", !.ask = now] \in OpType
    BY <1>0, BlankTyped DEF Blank, OpType, Querying
  <2>2. CountedOne([Blank EXCEPT !.kind = kind, !.pc = "sync", !.ask = now])
    BY <1>0 DEF Blank, CountedOne
  <2> QED
    BY <1>1, <1>6, <2>1, <2>2 DEF Begin
<1>7. ASSUME Ensure(p) PROVE Fine
  <2> DEFINE r == [Blank EXCEPT !.kind = "ensure", !.pc = "counted", !.ask = now,
                                !.count = Cardinality(stored)]
  <2>1. r \in OpType
    BY <1>0, <1>3, <1>29 DEF OpType
  <2>2. CountedOne(r)
    BY <1>0, <1>3 DEF Blank, CountedOne
  <2> QED
    BY <1>1, <1>7, <2>1, <2>2 DEF Ensure
<1>8. ASSUME Backfill(p) PROVE Fine
  <2> PICK w \in Windows :
       Put(p, [Blank EXCEPT
                 !.kind = "window", !.ask = now,
                 !.pc = "pages", !.from = w[1], !.to = w[2], !.cursor = w[1],
                 !.owed = {b \in w[1]..w[2] : b <= now}])
    BY <1>8 DEF Backfill
  <2>1. w[1] \in 1..MaxBar /\ w[2] \in 1..MaxBar
    BY DEF CacheAssumption, Bars
  <2>2. {b \in w[1]..w[2] : b <= now} \in SUBSET Bars
    BY <1>0, <2>1 DEF Bars
  <2> DEFINE S == {b \in w[1]..w[2] : b <= now}
             r == [Blank EXCEPT
                 !.kind = "window", !.ask = now,
                 !.pc = "pages", !.from = w[1], !.to = w[2], !.cursor = w[1],
                 !.owed = S]
  <2>3. r \in OpType
    <3> HIDE DEF S
    <3> QED
      BY <1>0, <1>29, <2>1, <2>2 DEF OpType, S
  <2>4. CountedOne(r)
    BY <1>0 DEF Blank, CountedOne
  <2> QED
    BY <1>1, <2>3, <2>4
<1>9. ASSUME Repair(p) PROVE Fine
  <2>1. Missing \in SUBSET Bars
    BY DEF Missing, CacheAssumption
  <2>2. CASE Missing = {}
    <3>1. [Blank EXCEPT !.kind = "repair", !.ans = "yes"] \in OpType
      BY <1>0, BlankTyped DEF Blank, OpType
    <3>2. CountedOne([Blank EXCEPT !.kind = "repair", !.ans = "yes"])
      BY <1>0 DEF Blank, CountedOne
    <3> QED
      BY <1>1, <1>9, <2>2, <3>1, <3>2 DEF Repair
  <2>3. CASE Missing # {}
    <3> DEFINE r == [Blank EXCEPT
                    !.kind = "repair", !.pc = "pages", !.ask = now,
                    !.owed = Missing, !.from = Min(Missing),
                    !.to = Max(Missing), !.cursor = Min(Missing)]
    <3>1. Min(Missing) \in 1..MaxBar /\ Max(Missing) \in 1..MaxBar
      BY <2>1, <2>3, Ends DEF Bars
    <3>2. r \in OpType
      BY <1>0, <1>29, <2>1, <3>1 DEF OpType
    <3>3. CountedOne(r)
      BY <1>0 DEF Blank, CountedOne
    <3> QED
      BY <1>1, <1>9, <2>3, <3>2, <3>3 DEF Repair
  <2> QED
    BY <2>2, <2>3
<1>10. ASSUME EnsureComplete(p) PROVE Fine
  <2> DEFINE c == [o EXCEPT !.complete = IsComplete, !.due = Expected]
             w == IF c.count < Need THEN "sync" ELSE "inc"
             r == [c EXCEPT !.pc = w]
  <2>1. c \in OpType /\ c.count = o.count
    BY <1>0, <1>3 DEF OpType
  <2>2. o.pc = "counted"
    BY <1>10 DEF EnsureComplete, o
  <2>3. r \in OpType /\ CountedOne(r)
    <3>1. w \in {"sync", "inc"}
      OBVIOUS
    <3> HIDE DEF c, w
    <3>2. r \in OpType /\ r.count = c.count
      BY <2>1, <3>1 DEF OpType, Querying
    <3> QED
      BY <1>0, <2>1, <2>2, <3>2 DEF CountedOne
  <2> HIDE DEF w, r, c
  <2>4. Answer(p, c, "yes") \/ Put(p, r)
    BY <1>10 DEF EnsureComplete, o, w, r, c
  <2> QED
    BY <1>1, <1>2, <2>1, <2>3, <2>4
<1>11. ASSUME NEW w \in {"boot", "inc", "count"}, Goto(p, w),
              o.pc \notin {"check", "latest", "mark"}
       PROVE  Fine
  <2>1. [o EXCEPT !.pc = w] \in OpType /\ CountedOne([o EXCEPT !.pc = w])
    BY <1>0, <1>11 DEF OpType, Querying, Fetching, CountedOne
  <2> QED
    BY <1>1, <1>11, <2>1 DEF Goto, o
<1>12. ASSUME Sync(p) PROVE Fine
  BY <1>11, <1>12 DEF Sync, o
<1>13. ASSUME Bootstrap(p) PROVE Fine
  <2>1. CASE stored = {}
    BY <1>11, <1>13, <2>1 DEF Bootstrap, o, Goto
  <2>2. CASE stored # {}
    <3> DEFINE n == Cardinality(stored)
               r == [o EXCEPT !.pc = "earliest", !.cursor = n]
    <3>1. n \in 0..MaxBar + 1
      BY <1>0, <1>3
    <3> HIDE DEF n
    <3>2. r \in OpType /\ CountedOne(r)
      BY <1>0, <3>1, <1>13 DEF OpType, Querying, CountedOne, Bootstrap, o
    <3> QED
      BY <1>1, <1>13, <2>2, <3>2 DEF Bootstrap, o, n
  <2> QED
    BY <2>1, <2>2
<1>14. ASSUME Earliest(p) PROVE Fine
  <2>1. [o EXCEPT !.pc = "to", !.mark = Oldest(stored)] \in OpType
    BY <1>0, <1>3 DEF OpType, Fetching
  <2>2. CountedOne([o EXCEPT !.pc = "to", !.mark = Oldest(stored)])
    BY <1>0, <1>14 DEF OpType, CountedOne, Earliest, o
  <2> QED
    BY <1>1, <1>14, <2>1, <2>2 DEF Earliest, o
<1>15. ASSUME NEW S \in SUBSET Bars, NEW w \in {"upsert", "last3"},
              Put(p, [o EXCEPT !.got = S, !.pc = w]),
              o.pc \notin {"check", "latest", "mark"}
       PROVE  Fine
  <2>1. [o EXCEPT !.got = S, !.pc = w] \in OpType
    BY <1>0 DEF OpType, Fetching, Querying
  <2>2. CountedOne([o EXCEPT !.got = S, !.pc = w])
    BY <1>0, <1>15 DEF OpType, CountedOne
  <2> QED
    BY <1>1, <1>15, <2>1, <2>2
<1>16. ASSUME FillEmpty(p) PROVE Fine
  <2>1. PICK done : Put(p, [o EXCEPT !.pc = "upsert", !.got = FetchCount(Need, done)])
    BY <1>16 DEF FillEmpty, o
  <2>2. [o EXCEPT !.pc = "upsert", !.got = FetchCount(Need, done)]
          = [o EXCEPT !.got = FetchCount(Need, done), !.pc = "upsert"]
    BY <1>0 DEF OpType
  <2> QED
    BY <1>4, <1>5, <1>15, <1>16, <2>1, <2>2 DEF FillEmpty, o
<1>17. ASSUME FillBackward(p) PROVE Fine
  <2>1. PICK S \in SUBSET Bars :
          Put(p, [o EXCEPT !.pc = "upsert", !.cursor = 0, !.got = S])
    <3> DEFINE missing == IF op[p].cursor < Need THEN Need - op[p].cursor ELSE 0
               chunk == Smaller(Larger(missing + Extra, Need), ChunkSize)
    <3>1. o.cursor \in Nat
      BY <1>0 DEF OpType
    <3>2. chunk \in Nat
      BY <1>5, <3>1 DEF Smaller, Larger, o
    <3> HIDE DEF chunk
    <3>3. {b \in FetchTo(o.mark, chunk) : b < o.mark} \in SUBSET Bars
      BY <1>4, <3>2
    <3>4. Put(p, [o EXCEPT !.pc = "upsert", !.cursor = 0,
                           !.got = {b \in FetchTo(o.mark, chunk) : b < o.mark}])
      BY <1>17 DEF FillBackward, o, chunk
    <3> QED
      BY <3>3, <3>4
  <2> DEFINE r == [o EXCEPT !.pc = "upsert", !.cursor = 0, !.got = S]
  <2>2. r \in OpType
    BY <1>0, <1>29 DEF OpType
  <2>3. CountedOne(r)
    BY <1>0, <1>17 DEF OpType, CountedOne, FillBackward, o
  <2> QED
    BY <1>1, <2>1, <2>2, <2>3
<1>18. ASSUME Incremental(p) PROVE Fine
  <2> DEFINE w == IF stored = {} THEN "upsert" ELSE "from"
             r == [o EXCEPT !.pc = w, !.mark = Latest(stored)]
  <2>1. w \in {"upsert", "from"}
    OBVIOUS
  <2>2. Put(p, r) /\ o.pc = "inc"
    BY <1>18 DEF Incremental, o
  <2> HIDE DEF w
  <2>3. r \in OpType
    BY <1>0, <1>3, <2>1 DEF OpType, Querying, Fetching
  <2>4. CountedOne(r)
    BY <1>0, <2>2 DEF OpType, CountedOne
  <2> QED
    BY <1>1, <2>2, <2>3, <2>4
<1>19. ASSUME FetchNew(p) PROVE Fine
  <2> DEFINE new == {b \in FetchFrom(op[p].mark, 2) : b > op[p].mark}
             w == IF new # {} \/ Expected \in {0, op[p].mark} THEN "upsert" ELSE "last3"
  <2>1. new \in SUBSET Bars
    BY <1>4
  <2>2. w \in {"upsert", "last3"}
    OBVIOUS
  <2>3. Put(p, [o EXCEPT !.got = new, !.pc = w]) /\ o.pc = "from"
    BY <1>19 DEF FetchNew, o
  <2> HIDE DEF new, w
  <2> QED
    BY <1>15, <2>1, <2>2, <2>3
<1>20. ASSUME FetchLast(p) PROVE Fine
  <2>1. PICK done : Put(p, [o EXCEPT !.pc = "upsert",
                                     !.got = {b \in FetchCount(3, done) : b > o.mark}])
    BY <1>20 DEF FetchLast, o
  <2> DEFINE S == {b \in FetchCount(3, done) : b > o.mark}
  <2>2. S \in SUBSET Bars
    BY <1>4
  <2>3. Put(p, [o EXCEPT !.pc = "upsert", !.got = S])
    BY <2>1
  <2> HIDE DEF S
  <2>4. [o EXCEPT !.pc = "upsert", !.got = S] = [o EXCEPT !.got = S, !.pc = "upsert"]
    BY <1>0 DEF OpType
  <2> QED
    BY <1>15, <1>20, <2>2, <2>3, <2>4 DEF FetchLast, o
<1>21. ASSUME Page(p) PROVE Fine
  <2> DEFINE batch == FetchFrom(o.cursor, ChunkSize)
             last == \/ batch = {}
                     \/ Max(batch) >= o.to
                     \/ Cardinality(batch) < ChunkSize
             G == o.got \cup {b \in batch : b \in o.from..o.to}
             c == IF last THEN 0 ELSE Max(batch) + 1
             w == IF last THEN "keep" ELSE "pages"
             r == [o EXCEPT !.got = G, !.cursor = c, !.pc = w]
  <2>1. batch \in SUBSET Bars /\ o.got \in SUBSET Bars
    BY <1>0, <1>4, <1>5 DEF OpType
  <2>2. G \in SUBSET Bars
    BY <2>1
  <2>3. batch # {} => Max(batch) \in 1..MaxBar
    BY <2>1, Ends DEF Bars
  <2>4. c \in 0..MaxBar + 1
    BY <1>0, <2>3
  <2>5. w \in {"keep", "pages"}
    OBVIOUS
  <2>6. Put(p, r) /\ o.pc = "pages"
    <3>1. Put(p, [o EXCEPT !.got = @ \cup {b \in batch : b \in o.from..o.to},
                           !.cursor = c, !.pc = w])
      BY <1>21 DEF Page, o
    <3>2. [o EXCEPT !.got = @ \cup {b \in batch : b \in o.from..o.to},
                    !.cursor = c, !.pc = w] = r
      <4> HIDE DEF c, w, batch
      <4> QED
        BY <1>0 DEF OpType
    <3> QED
      BY <1>21, <3>1, <3>2 DEF Page, o
  <2> HIDE DEF c, w, G
  <2>7. r \in OpType
    BY <1>0, <2>2, <2>4, <2>5 DEF OpType, Fetching, Querying
  <2>8. CountedOne(r)
    BY <1>0, <2>6 DEF OpType, CountedOne
  <2> QED
    BY <1>1, <2>6, <2>7, <2>8
<1>22. ASSUME KeepMissing(p) PROVE Fine
  <2>1. Put(p, Ended(o, "yes"))
    BY <1>22 DEF KeepMissing, o
  <2> QED
    BY <1>0, <1>1, <2>1, AnswerTyped
<1>23. ASSUME KeepWindow(p) PROVE Fine
  <2>1. o.got \in SUBSET Bars /\ o.pc = "keep"
    BY <1>0, <1>23 DEF KeepWindow, OpType, o
  <2> DEFINE r == [o EXCEPT !.pc = "pages", !.got = {}, !.from = Max(o.got),
                            !.cursor = Max(o.got)]
  <2>2. \/ o.got # {} /\ Put(p, r)
        \/ Put(p, Ended(o, "yes"))
    BY <1>23 DEF KeepWindow, o
  <2>3. CASE o.got # {} /\ Put(p, r)
    <3>1. Max(o.got) \in 1..MaxBar
      BY <2>1, <2>3, Ends DEF Bars
    <3>2. r \in OpType
      BY <1>0, <1>29, <3>1 DEF OpType
    <3>3. CountedOne(r)
      BY <1>0, <2>1 DEF OpType, CountedOne
    <3> QED
      BY <1>1, <2>3, <3>2, <3>3
  <2>4. CASE Put(p, Ended(o, "yes"))
    BY <1>0, <1>1, <2>4, AnswerTyped
  <2> QED
    BY <2>2, <2>3, <2>4
<1>24. ASSUME Upsert(p) PROVE Fine
  <2> DEFINE n == o.count + Cardinality(o.got)
             r == [o EXCEPT !.pc = "check", !.got = {}, !.mark = 0, !.count = n]
  <2>1. o.got \in SUBSET Bars /\ o.pc = "upsert" /\ o.count \in 0..MaxBar
    BY <1>0, <1>24 DEF Upsert, OpType, CountedOne, o
  <2>2. n \in 0..2 * MaxBar
    BY <1>0, <2>1, BarSet
  <2>3. Put(p, r)
    <3>1. Put(p, [o EXCEPT !.pc = "check", !.got = {}, !.mark = 0,
                           !.count = @ + Cardinality(o.got)])
      BY <1>24 DEF Upsert, o
    <3>2. [o EXCEPT !.pc = "check", !.got = {}, !.mark = 0,
                    !.count = @ + Cardinality(o.got)] = r
      BY <1>0 DEF OpType
    <3> QED
      BY <3>1, <3>2
  <2> HIDE DEF n
  <2>4. r \in OpType
    BY <1>0, <1>29, <2>2 DEF OpType
  <2>5. CountedOne(r)
    BY <1>0 DEF OpType, CountedOne
  <2> QED
    BY <1>1, <2>3, <2>4, <2>5
<1>25. ASSUME Check(p) PROVE Fine
  <2> DEFINE r == [o EXCEPT !.pc = "latest", !.complete = IsComplete, !.due = Expected]
  <2>1. Put(p, r)
    BY <1>25 DEF Check, o
  <2>2. r \in OpType /\ CountedOne(r)
    BY <1>0, <1>3 DEF OpType, Querying, CountedOne
  <2> QED
    BY <1>1, <2>1, <2>2
<1>26. ASSUME ReadLatest(p) PROVE Fine
  <2> DEFINE r == [o EXCEPT !.pc = "mark", !.mark = Latest(stored)]
  <2>1. Put(p, r)
    BY <1>26 DEF ReadLatest, o
  <2>2. r \in OpType /\ CountedOne(r)
    BY <1>0, <1>3 DEF OpType, Querying, CountedOne
  <2> QED
    BY <1>1, <2>1, <2>2
<1>27. ASSUME Mark(p) PROVE Fine
  BY <1>0, <1>2, <1>27 DEF Mark, o
<1>28. ASSUME FetchFails(p) PROVE Fine
  BY <1>0, <1>2, <1>28 DEF FetchFails, o
<1> QED
  BY <1>6, <1>7, <1>8, <1>9, <1>10, <1>12, <1>13, <1>14, <1>16, <1>17, <1>18, <1>19,
     <1>20, <1>21, <1>22, <1>23, <1>24, <1>25, <1>26, <1>27, <1>28
     DEF Moves, Start, Continue, Step, Warm
\* The table, the mark and the counter under a step of a call: bars are stored
\* and never taken out again.
LEMMA MoveFrame ==
  ASSUME CacheAssumption, TypeInv, NEW p \in Procs, Moves(p)
  PROVE  /\ UNCHANGED <<now, marked>>
         /\ stored' = stored \/ (stored' = stored \cup op[p].got /\ op[p].pc \in {"keep", "upsert"})
              \/ (stored' = stored \cup (op[p].got \cap op[p].owed) /\ op[p].pc = "keep")
         /\ high' \in 0..MaxBar /\ faults' \in 0..MaxFaults
<1> DEFINE Fine ==
      /\ UNCHANGED <<now, marked>>
      /\ stored' = stored \/ (stored' = stored \cup op[p].got /\ op[p].pc \in {"keep", "upsert"})
              \/ (stored' = stored \cup (op[p].got \cap op[p].owed) /\ op[p].pc = "keep")
      /\ high' \in 0..MaxBar /\ faults' \in 0..MaxFaults
<1> SUFFICES Fine
  OBVIOUS
<1>0. high \in 0..MaxBar /\ faults \in 0..MaxFaults /\ MaxFaults \in Nat
        /\ op[p].mark \in 0..MaxBar
  BY DEF TypeInv, TypeOK, CacheAssumption, OpType
<1>1. Only(p) => Fine
  BY <1>0 DEF Only
<1> HIDE DEF Fine
<1>2. Start(p) => Fine
  BY <1>1 DEF Start, Step, Warm, Begin, Ensure, Backfill, Repair
<1>3. EnsureComplete(p) \/ Sync(p) \/ Bootstrap(p) \/ Earliest(p) \/ FillEmpty(p) => Fine
  BY <1>1 DEF EnsureComplete, Sync, Bootstrap, Earliest, FillEmpty
<1>4. FillBackward(p) \/ Incremental(p) \/ FetchNew(p) \/ FetchLast(p) \/ Page(p) => Fine
  BY <1>1 DEF FillBackward, Incremental, FetchNew, FetchLast, Page
<1>5. Check(p) \/ ReadLatest(p) => Fine
  BY <1>1 DEF Check, ReadLatest
<1>6. KeepMissing(p) \/ KeepWindow(p) \/ Upsert(p) => Fine
  BY <1>0 DEF KeepMissing, KeepWindow, Upsert, Fine
<1>7. Mark(p) => Fine
  BY <1>0 DEF Mark, Fine
<1>8. FetchFails(p) => Fine
  BY <1>0 DEF FetchFails, Fine
<1> QED
  BY <1>2, <1>3, <1>4, <1>5, <1>6, <1>7, <1>8 DEF Moves, Continue

LEMMA NextType == ASSUME CacheAssumption, TypeInv, [Next]_vars PROVE TypeInv'
<1>1. ASSUME NEW p \in Procs, Moves(p) PROVE TypeInv'
  <2>1. op[p].got \in SUBSET Bars
    BY DEF TypeInv, TypeOK, OpType
  <2>2. stored' \subseteq Bars /\ high' \in 0..MaxBar /\ faults' \in 0..MaxFaults
          /\ UNCHANGED <<now, marked>>
    BY <1>1, <2>1, MoveFrame DEF TypeInv, TypeOK
  <2> QED
    BY <1>1, <2>2, MoveTyped DEF TypeInv, TypeOK
<1>2. CASE Tick
  BY <1>2 DEF Tick, TypeInv, TypeOK, CacheAssumption
<1>3. CASE Complete
  BY <1>3 DEF Complete, TypeInv, TypeOK
<1>4. CASE UNCHANGED vars
  BY <1>4 DEF vars, TypeInv, TypeOK
<1> QED
  BY <1>1, <1>2, <1>3, <1>4 DEF Next, Moves

LEMMA InitType == ASSUME CacheAssumption, Init PROVE TypeInv
<1>1. stored \subseteq Bars
  BY DEF Init, CacheAssumption
<1> QED
  BY <1>1, BlankTyped DEF Init, TypeInv, TypeOK, CacheAssumption

\* Every reachable state of the cache is well typed.
THEOREM CacheTyped == Spec => []TypeOK
<1>1. Init => TypeInv
  BY InitType, CacheAssumption
<1>2. TypeInv /\ [Next]_vars => TypeInv'
  BY NextType, CacheAssumption
<1>3. TypeInv => TypeOK
  BY DEF TypeInv
<1> QED
  BY <1>1, <1>2, <1>3, PTL DEF Spec
-----------------------------------------------------------------------------
(* What a step writes into the record of its call, field by field.         *)

\* It is still the same call: what it is, when it began, what it promised.
SameCall(r, o) ==
  r.kind = o.kind /\ r.ask = o.ask /\ r.ans = o.ans /\ r.owed = o.owed /\ r.to = o.to

Unmoved(r, o) == SameCall(r, o) /\ r.count = o.count /\ r.mark = o.mark /\ r.got = o.got

\* A new call of a sync, and one that fills a range.
Fresh(r, kind, where, n) ==
  /\ r.kind = kind /\ r.pc = where /\ r.ask = n /\ r.got = {} /\ r.mark = 0
  /\ r.ans = "none"

\* A call that has returned: nothing is kept of a worker's.
Returned(r, o, due, ans) ==
  /\ r.pc = "idle" /\ r.got = {}
  /\ \/ r.kind = "none" /\ r.ans = "none"
     \/ /\ r.kind = o.kind /\ r.ans = ans /\ r.due = due
        /\ r.owed = {b \in o.owed \cap Quoted : b < o.ask}

LEMMA PutIs ==
  ASSUME TypeInv, NEW p \in Procs, NEW r, Put(p, r)
  PROVE  op'[p] = r
BY DEF Put, TypeInv, TypeOK

LEMMA EndedIs ==
  ASSUME NEW o, NEW ans
  PROVE  Returned(Ended(o, ans), o, o.due, ans)
<1> DEFINE S == {b \in o.owed \cap Quoted : b < o.ask}
           r == [Blank EXCEPT !.kind = o.kind, !.due = o.due, !.ans = ans, !.owed = S]
<1>1. Ended(o, ans) = r
  BY DEF Ended
<1>2. /\ r.kind = o.kind /\ r.due = o.due /\ r.ans = ans /\ r.owed = S
      /\ r.pc = "idle" /\ r.got = {}
  <2> HIDE DEF S
  <2> QED
    BY DEF Blank
<1> HIDE DEF r
<1> QED
  BY <1>1, <1>2 DEF Returned

LEMMA AnswerIs ==
  ASSUME TypeInv, NEW p \in Procs, NEW o \in OpType, NEW ans, Answer(p, o, ans)
  PROVE  Returned(op'[p], o, o.due, ans)
<1>1. CASE Put(p, Blank)
  BY <1>1, PutIs DEF Returned, Blank
<1>2. CASE Put(p, Ended(o, ans))
  <2>1. op'[p] = Ended(o, ans)
    BY <1>2, PutIs
  <2> QED
    BY <2>1, EndedIs
<1> QED
  BY <1>1, <1>2 DEF Answer

LEMMA StartIs ==
  ASSUME TypeInv, NEW p \in Procs
  PROVE  /\ Step(p) \/ Warm(p) =>
              \E kind \in {"step", "warm"} : Fresh(op'[p], kind, "sync", now) /\ op'[p].count = 0
         /\ Ensure(p) => Fresh(op'[p], "ensure", "counted", now)
                           /\ op'[p].count = Cardinality(stored)
         /\ Backfill(p) => \E w \in Windows :
              /\ Fresh(op'[p], "window", "pages", now)
              /\ op'[p].from = w[1] /\ op'[p].to = w[2] /\ op'[p].cursor = w[1]
              /\ op'[p].owed = {b \in w[1]..w[2] : b <= now}
         /\ Repair(p) =>
              \/ op'[p] = [Blank EXCEPT !.kind = "repair", !.ans = "yes"]
              \/ /\ Missing # {} /\ Fresh(op'[p], "repair", "pages", now)
                 /\ op'[p].from = Min(Missing) /\ op'[p].to = Max(Missing)
                 /\ op'[p].cursor = Min(Missing) /\ op'[p].owed = Missing
<1>1. Step(p) \/ Warm(p) =>
        \E kind \in {"step", "warm"} : Fresh(op'[p], kind, "sync", now) /\ op'[p].count = 0
  <2>1. ASSUME NEW kind \in {"step", "warm"}, Begin(p, kind, "sync")
        PROVE  Fresh(op'[p], kind, "sync", now) /\ op'[p].count = 0
    <3>1. op'[p] = [Blank EXCEPT !.kind = kind, !.pc = "sync", !.ask = now]
      BY <2>1, PutIs DEF Begin
    <3> QED
      BY <3>1 DEF Blank, Fresh
  <2> QED
    BY <2>1 DEF Step, Warm
<1>2. Ensure(p) => Fresh(op'[p], "ensure", "counted", now)
                     /\ op'[p].count = Cardinality(stored)
  <2>1. Ensure(p) => op'[p] = [Blank EXCEPT !.kind = "ensure", !.pc = "counted",
                                 !.ask = now, !.count = Cardinality(stored)]
    BY PutIs DEF Ensure
  <2> QED
    BY <2>1 DEF Blank, Fresh
<1>3. ASSUME Backfill(p)
      PROVE  \E w \in Windows :
              /\ Fresh(op'[p], "window", "pages", now)
              /\ op'[p].from = w[1] /\ op'[p].to = w[2] /\ op'[p].cursor = w[1]
              /\ op'[p].owed = {b \in w[1]..w[2] : b <= now}
  <2>1. PICK w \in Windows :
       Put(p, [Blank EXCEPT
                 !.kind = "window", !.ask = now,
                 !.pc = "pages", !.from = w[1], !.to = w[2], !.cursor = w[1],
                 !.owed = {b \in w[1]..w[2] : b <= now}])
    BY <1>3 DEF Backfill
  <2>2. op'[p] = [Blank EXCEPT
                 !.kind = "window", !.ask = now,
                 !.pc = "pages", !.from = w[1], !.to = w[2], !.cursor = w[1],
                 !.owed = {b \in w[1]..w[2] : b <= now}]
    BY <2>1, PutIs
  <2> QED
    BY <2>2 DEF Blank, Fresh
<1>4. ASSUME Repair(p)
      PROVE  \/ op'[p] = [Blank EXCEPT !.kind = "repair", !.ans = "yes"]
             \/ /\ Missing # {} /\ Fresh(op'[p], "repair", "pages", now)
                /\ op'[p].from = Min(Missing) /\ op'[p].to = Max(Missing)
                /\ op'[p].cursor = Min(Missing) /\ op'[p].owed = Missing
  <2>1. CASE Missing = {}
    BY <1>4, <2>1, PutIs DEF Repair
  <2>2. CASE Missing # {}
    <3>1. op'[p] = [Blank EXCEPT
                    !.kind = "repair", !.pc = "pages", !.ask = now,
                    !.owed = Missing, !.from = Min(Missing),
                    !.to = Max(Missing), !.cursor = Min(Missing)]
      BY <1>4, <2>2, PutIs DEF Repair
    <3> QED
      BY <2>2, <3>1 DEF Blank, Fresh
  <2> QED
    BY <2>1, <2>2
<1> QED
  BY <1>1, <1>2, <1>3, <1>4

\* ensure_coverage and the choice of a fetch.
LEMMA ChoiceIs ==
  ASSUME CacheAssumption, TypeInv, NEW p \in Procs
  PROVE  /\ EnsureComplete(p) =>
              /\ op[p].pc = "counted"
              /\ \/ op[p].count >= Need /\ Returned(op'[p], op[p], Expected, "yes")
                 \/ Unmoved(op'[p], op[p]) /\ op'[p].pc \in {"sync", "inc"}
         /\ Sync(p) => op[p].pc = "sync" /\ Unmoved(op'[p], op[p])
                         /\ op'[p].pc \in {"boot", "inc"}
         /\ Bootstrap(p) =>
              /\ op[p].pc = "boot" /\ Unmoved(op'[p], op[p])
              /\ op'[p].pc = IF stored = {} THEN "count" ELSE "earliest"
         /\ Earliest(p) =>
              /\ op[p].pc = "earliest" /\ op'[p].pc = "to" /\ SameCall(op'[p], op[p])
              /\ op'[p].mark = Oldest(stored) /\ op'[p].count = op[p].count
              /\ op'[p].got = op[p].got
         /\ Incremental(p) =>
              /\ op[p].pc = "inc" /\ op'[p].pc = (IF stored = {} THEN "upsert" ELSE "from")
              /\ SameCall(op'[p], op[p]) /\ op'[p].mark = Latest(stored)
              /\ op'[p].count = op[p].count /\ op'[p].got = op[p].got
<1> DEFINE o == op[p]
<1>0. o \in OpType
  BY DEF TypeInv, TypeOK
<1> HIDE DEF o
<1>1. ASSUME EnsureComplete(p)
      PROVE  /\ o.pc = "counted"
             /\ \/ o.count >= Need /\ Returned(op'[p], o, Expected, "yes")
                \/ Unmoved(op'[p], o) /\ op'[p].pc \in {"sync", "inc"}
  <2> DEFINE c == [o EXCEPT !.complete = IsComplete, !.due = Expected]
             r == [c EXCEPT !.pc = IF c.count < Need THEN "sync" ELSE "inc"]
  <2>1. /\ c \in OpType /\ c.count = o.count /\ c.due = Expected
        /\ c.kind = o.kind /\ c.owed = o.owed /\ c.ask = o.ask
    BY <1>0, ExpectedTyped DEF OpType, IsComplete
  <2>2. CASE Answer(p, c, "yes") /\ c.count >= Need
    <3>1. Returned(op'[p], c, c.due, "yes")
      BY <2>1, <2>2, AnswerIs
    <3> QED
      BY <1>1, <2>1, <2>2, <3>1 DEF EnsureComplete, o, Returned
  <2>3. CASE Put(p, r)
    <3>1. Unmoved(r, o) /\ r.pc \in {"sync", "inc"}
      BY <1>0 DEF OpType, Unmoved, SameCall
    <3>2. op'[p] = r
      BY <2>3, PutIs
    <3> QED
      BY <1>1, <3>1, <3>2 DEF EnsureComplete, o
  <2> QED
    BY <1>1, <2>2, <2>3 DEF EnsureComplete, o
<1>2. Sync(p) => o.pc = "sync" /\ Unmoved(op'[p], o) /\ op'[p].pc \in {"boot", "inc"}
  <2>1. Sync(p) => op'[p] \in {[o EXCEPT !.pc = "boot"], [o EXCEPT !.pc = "inc"]}
    BY PutIs DEF Sync, Goto, o
  <2> QED
    BY <1>0, <2>1 DEF Sync, o, Unmoved, SameCall, OpType
<1>3. Bootstrap(p) => /\ o.pc = "boot" /\ Unmoved(op'[p], o)
                      /\ op'[p].pc = IF stored = {} THEN "count" ELSE "earliest"
  <2> DEFINE n == Cardinality(stored)
  <2>1. Bootstrap(p) => op'[p] = IF stored = {} THEN [o EXCEPT !.pc = "count"]
                                 ELSE [o EXCEPT !.pc = "earliest", !.cursor = n]
    BY PutIs DEF Bootstrap, o
  <2> HIDE DEF n
  <2> QED
    BY <1>0, <2>1 DEF Bootstrap, o, Unmoved, SameCall, OpType
<1>4. Earliest(p) =>
              /\ o.pc = "earliest" /\ op'[p].pc = "to" /\ SameCall(op'[p], o)
              /\ op'[p].mark = Oldest(stored) /\ op'[p].count = o.count /\ op'[p].got = o.got
  <2>1. Earliest(p) => op'[p] = [o EXCEPT !.pc = "to", !.mark = Oldest(stored)]
    BY PutIs DEF Earliest, o
  <2> QED
    BY <1>0, <2>1 DEF Earliest, o, SameCall, OpType
<1>5. Incremental(p) =>
        /\ o.pc = "inc" /\ op'[p].pc = (IF stored = {} THEN "upsert" ELSE "from")
        /\ SameCall(op'[p], o) /\ op'[p].mark = Latest(stored)
        /\ op'[p].count = o.count /\ op'[p].got = o.got
  <2> DEFINE w == IF stored = {} THEN "upsert" ELSE "from"
  <2>1. Incremental(p) => op'[p] = [o EXCEPT !.pc = w, !.mark = Latest(stored)]
    BY PutIs DEF Incremental, o
  <2> HIDE DEF w
  <2> QED
    BY <1>0, <2>1 DEF Incremental, o, w, SameCall, OpType
<1> QED
  BY <1>1, <1>2, <1>3, <1>4, <1>5 DEF o

\* The fetches of a sync.
Took(r, o, S) == /\ SameCall(r, o) /\ r.count = o.count /\ r.mark = o.mark
                 /\ r.got = S

LEMMA FetchIs ==
  ASSUME CacheAssumption, TypeInv, NEW p \in Procs
  PROVE  /\ FillEmpty(p) =>
              /\ op[p].pc = "count" /\ op'[p].pc = "upsert"
              /\ \E done \in {marked, now} : Took(op'[p], op[p], FetchCount(Need, done))
         /\ FillBackward(p) =>
              /\ op[p].pc = "to" /\ op'[p].pc = "upsert"
              /\ \E k \in Nat :
                   Took(op'[p], op[p], {b \in FetchTo(op[p].mark, k) : b < op[p].mark})
         /\ FetchNew(p) =>
              /\ op[p].pc = "from"
              /\ Took(op'[p], op[p], {b \in FetchFrom(op[p].mark, 2) : b > op[p].mark})
              /\ op'[p].pc = "upsert" \/ (op'[p].pc = "last3" /\ op'[p].got = {})
         /\ FetchLast(p) =>
              /\ op[p].pc = "last3" /\ op'[p].pc = "upsert"
              /\ \E done \in {marked, now} :
                   Took(op'[p], op[p], {b \in FetchCount(3, done) : b > op[p].mark})
<1> DEFINE o == op[p]
<1>0. o \in OpType
  BY DEF TypeInv, TypeOK
<1> HIDE DEF o
<1>1. \A S, w : op'[p] = [o EXCEPT !.pc = w, !.got = S] => Took(op'[p], o, S) /\ op'[p].pc = w
  BY <1>0 DEF Took, SameCall, OpType
<1>2. ASSUME FillEmpty(p)
      PROVE  /\ o.pc = "count" /\ op'[p].pc = "upsert"
             /\ \E done \in {marked, now} : Took(op'[p], o, FetchCount(Need, done))
  <2>1. PICK done \in {marked, now} :
          Put(p, [o EXCEPT !.pc = "upsert", !.got = FetchCount(Need, done)])
    BY <1>2 DEF FillEmpty, o
  <2>2. op'[p] = [o EXCEPT !.pc = "upsert", !.got = FetchCount(Need, done)]
    BY <2>1, PutIs
  <2> QED
    BY <1>1, <1>2, <2>2 DEF FillEmpty, o
<1>3. ASSUME FillBackward(p)
      PROVE  /\ o.pc = "to" /\ op'[p].pc = "upsert"
             /\ \E k \in Nat : Took(op'[p], o, {b \in FetchTo(o.mark, k) : b < o.mark})
  <2> DEFINE missing == IF o.cursor < Need THEN Need - o.cursor ELSE 0
             chunk == Smaller(Larger(missing + Extra, Need), ChunkSize)
             G == {b \in FetchTo(o.mark, chunk) : b < o.mark}
             r == [o EXCEPT !.pc = "upsert", !.cursor = 0, !.got = G]
  <2>1. chunk \in Nat
    BY <1>0 DEF Smaller, Larger, CacheAssumption, OpType
  <2>2. Put(p, r) /\ o.pc = "to"
    BY <1>3 DEF FillBackward, o
  <2>3. op'[p] = r
    BY <2>2, PutIs
  <2> HIDE DEF chunk
  <2>4. Took(op'[p], o, G) /\ op'[p].pc = "upsert"
    <3> HIDE DEF G
    <3> QED
      BY <1>0, <2>3 DEF Took, SameCall, OpType
  <2> QED
    BY <2>1, <2>2, <2>4
<1>4. ASSUME FetchNew(p)
      PROVE  /\ o.pc = "from"
             /\ Took(op'[p], o, {b \in FetchFrom(o.mark, 2) : b > o.mark})
             /\ op'[p].pc = "upsert" \/ (op'[p].pc = "last3" /\ op'[p].got = {})
  <2> DEFINE new == {b \in FetchFrom(o.mark, 2) : b > o.mark}
             w == IF new # {} \/ Expected \in {0, o.mark} THEN "upsert" ELSE "last3"
  <2>1. Put(p, [o EXCEPT !.got = new, !.pc = w]) /\ o.pc = "from"
    BY <1>4 DEF FetchNew, o
  <2>2. w = "upsert" \/ (w = "last3" /\ new = {})
    <3> HIDE DEF new
    <3> QED
      BY DEF w
  <2> HIDE DEF new, w
  <2>3. op'[p] = [o EXCEPT !.got = new, !.pc = w]
    BY <2>1, PutIs
  <2>4. Took(op'[p], o, new) /\ op'[p].pc = w /\ op'[p].got = new
    BY <1>0, <2>3 DEF Took, SameCall, OpType
  <2> QED
    BY <2>1, <2>2, <2>4 DEF new
<1>5. ASSUME FetchLast(p)
      PROVE  /\ o.pc = "last3" /\ op'[p].pc = "upsert"
             /\ \E done \in {marked, now} :
                   Took(op'[p], o, {b \in FetchCount(3, done) : b > o.mark})
  <2>1. PICK done \in {marked, now} :
          Put(p, [o EXCEPT !.pc = "upsert", !.got = {b \in FetchCount(3, done) : b > o.mark}])
    BY <1>5 DEF FetchLast, o
  <2>2. op'[p] = [o EXCEPT !.pc = "upsert", !.got = {b \in FetchCount(3, done) : b > o.mark}]
    BY <2>1, PutIs
  <2> QED
    BY <1>1, <1>5, <2>2 DEF FetchLast, o
<1> QED
  BY <1>2, <1>3, <1>4, <1>5 DEF o

\* Pages, the end of a range, and the end of a sync.
LEMMA PageIs ==
  ASSUME CacheAssumption, TypeInv, NEW p \in Procs, Page(p)
  PROVE  LET o == op[p]
             r == op'[p]
             batch == FetchFrom(o.cursor, ChunkSize)
             last == batch = {} \/ Max(batch) >= o.to \/ Cardinality(batch) < ChunkSize
         IN  /\ o.pc = "pages" /\ SameCall(r, o) /\ r.from = o.from
             /\ r.got = o.got \cup {b \in batch : b \in o.from..o.to}
             /\ r.pc = (IF last THEN "keep" ELSE "pages")
             /\ r.cursor = (IF last THEN 0 ELSE Max(batch) + 1)
<1> DEFINE o == op[p]
           batch == FetchFrom(o.cursor, ChunkSize)
           last == batch = {} \/ Max(batch) >= o.to \/ Cardinality(batch) < ChunkSize
           c == IF last THEN 0 ELSE Max(batch) + 1
           w == IF last THEN "keep" ELSE "pages"
           G == {b \in batch : b \in o.from..o.to}
<1>1. op'[p] = [o EXCEPT !.got = @ \cup G, !.cursor = c, !.pc = w]
  <2>1. Put(p, [o EXCEPT !.got = @ \cup G, !.cursor = c, !.pc = w])
    BY DEF Page
  <2> QED
    BY <2>1, PutIs
<1>2. o \in OpType /\ o.pc = "pages"
  BY DEF Page, TypeInv, TypeOK
<1> HIDE DEF o, c, w, G
<1>3. /\ SameCall(op'[p], o) /\ op'[p].from = o.from /\ op'[p].got = o.got \cup G
      /\ op'[p].pc = w /\ op'[p].cursor = c
  BY <1>1, <1>2 DEF SameCall, OpType
<1> QED
  BY <1>2, <1>3 DEF o, c, w, G

LEMMA KeepIs ==
  ASSUME CacheAssumption, TypeInv, NEW p \in Procs
  PROVE  /\ KeepMissing(p) => /\ op[p].pc = "keep" /\ op[p].kind = "repair"
                              /\ Returned(op'[p], op[p], op[p].due, "yes")
         /\ KeepWindow(p) =>
              /\ op[p].pc = "keep" /\ op[p].kind = "window"
              /\ \/ Returned(op'[p], op[p], op[p].due, "yes")
                 \/ /\ op[p].got # {} /\ SameCall(op'[p], op[p]) /\ op'[p].pc = "pages"
                    /\ op'[p].got = {} /\ op'[p].from = Max(op[p].got)
                    /\ op'[p].cursor = Max(op[p].got)
<1> DEFINE o == op[p]
<1>0. o \in OpType
  BY DEF TypeInv, TypeOK
<1> HIDE DEF o
<1>1. \A r : r = Ended(o, "yes") => Returned(r, o, o.due, "yes")
  BY EndedIs
<1>2. KeepMissing(p) => o.pc = "keep" /\ o.kind = "repair" /\ op'[p] = Ended(o, "yes")
  BY PutIs DEF KeepMissing, o
<1>3. ASSUME KeepWindow(p)
      PROVE  /\ o.pc = "keep" /\ o.kind = "window"
             /\ \/ op'[p] = Ended(o, "yes")
                \/ /\ o.got # {} /\ SameCall(op'[p], o) /\ op'[p].pc = "pages"
                   /\ op'[p].got = {} /\ op'[p].from = Max(o.got)
                   /\ op'[p].cursor = Max(o.got)
  <2> DEFINE m == Max(o.got)
             r == [o EXCEPT !.pc = "pages", !.got = {}, !.from = m, !.cursor = m]
  <2>1. /\ o.pc = "keep" /\ o.kind = "window"
        /\ Put(p, Ended(o, "yes")) \/ (o.got # {} /\ Put(p, r))
    <3> DEFINE t == Put(p, IF o.got # {} /\ Max(o.got) < o.to /\ Cardinality(o.got) >= ChunkSize
                           THEN r ELSE Ended(o, "yes"))
    <3>1. o.pc = "keep" /\ o.kind = "window" /\ t
      BY <1>3 DEF KeepWindow, o
    <3>2. t => Put(p, Ended(o, "yes")) \/ (o.got # {} /\ Put(p, r))
      <4> HIDE DEF m, r
      <4> QED
        OBVIOUS
    <3> QED
      BY <3>1, <3>2
  <2>2. op'[p] = Ended(o, "yes") \/ (o.got # {} /\ op'[p] = r)
    BY <2>1, PutIs
  <2> HIDE DEF m
  <2>3. SameCall(r, o) /\ r.pc = "pages" /\ r.got = {} /\ r.from = m /\ r.cursor = m
    BY <1>0 DEF SameCall, OpType
  <2> QED
    BY <2>1, <2>2, <2>3 DEF m
<1> QED
  BY <1>1, <1>2, <1>3 DEF o

LEMMA EndIs ==
  ASSUME CacheAssumption, TypeInv, NEW p \in Procs
  PROVE  /\ Upsert(p) =>
              /\ op[p].pc = "upsert" /\ op'[p].pc = "check" /\ SameCall(op'[p], op[p])
              /\ op'[p].got = {} /\ op'[p].mark = 0
              /\ op'[p].count = op[p].count + Cardinality(op[p].got)
         /\ Check(p) =>
              /\ op[p].pc = "check" /\ op'[p].pc = "latest" /\ Unmoved(op'[p], op[p])
              /\ op'[p].complete = IsComplete /\ op'[p].due = Expected
         /\ ReadLatest(p) =>
              /\ op[p].pc = "latest" /\ op'[p].pc = "mark" /\ SameCall(op'[p], op[p])
              /\ op'[p].count = op[p].count /\ op'[p].complete = op[p].complete
              /\ op'[p].due = op[p].due /\ op'[p].got = op[p].got
         /\ Mark(p) =>
              /\ op[p].pc = "mark"
              /\ Returned(op'[p], op[p], op[p].due,
                          IF op[p].complete \/ op[p].count >= Need THEN "yes" ELSE "no")
         /\ FetchFails(p) => Returned(op'[p], op[p], op[p].due, "no")
<1> DEFINE o == op[p]
<1>0. o \in OpType
  BY DEF TypeInv, TypeOK
<1> HIDE DEF o
<1>1. ASSUME Upsert(p)
      PROVE  /\ o.pc = "upsert" /\ op'[p].pc = "check" /\ SameCall(op'[p], o)
             /\ op'[p].got = {} /\ op'[p].mark = 0
             /\ op'[p].count = o.count + Cardinality(o.got)
  <2> DEFINE n == Cardinality(o.got)
  <2>1. op'[p] = [o EXCEPT !.pc = "check", !.got = {}, !.mark = 0, !.count = @ + n]
    BY <1>1, PutIs DEF Upsert, o
  <2> HIDE DEF n
  <2> QED
    BY <1>0, <1>1, <2>1 DEF Upsert, SameCall, OpType, o, n
<1>2. Check(p) => /\ o.pc = "check" /\ op'[p].pc = "latest" /\ Unmoved(op'[p], o)
                  /\ op'[p].complete = IsComplete /\ op'[p].due = Expected
  <2>1. Check(p) => op'[p] = [o EXCEPT !.pc = "latest", !.complete = IsComplete,
                                       !.due = Expected]
    BY PutIs DEF Check, o
  <2> QED
    BY <1>0, <2>1 DEF Check, Unmoved, SameCall, OpType, o
<1>3. ReadLatest(p) =>
              /\ o.pc = "latest" /\ op'[p].pc = "mark" /\ SameCall(op'[p], o)
              /\ op'[p].count = o.count /\ op'[p].complete = o.complete
              /\ op'[p].due = o.due /\ op'[p].got = o.got
  <2>1. ReadLatest(p) => op'[p] = [o EXCEPT !.pc = "mark", !.mark = Latest(stored)]
    BY PutIs DEF ReadLatest, o
  <2> QED
    BY <1>0, <2>1 DEF ReadLatest, SameCall, OpType, o
<1>4. Mark(p) => /\ o.pc = "mark"
                 /\ Returned(op'[p], o, o.due,
                             IF o.complete \/ o.count >= Need THEN "yes" ELSE "no")
  BY <1>0, AnswerIs DEF Mark, o
<1>5. FetchFails(p) => Returned(op'[p], o, o.due, "no")
  BY <1>0, AnswerIs DEF FetchFails, o
<1> QED
  BY <1>1, <1>2, <1>3, <1>4, <1>5 DEF o
-----------------------------------------------------------------------------
(* The table only grows.                                                   *)

LEMMA Grows ==
  ASSUME CacheAssumption, TypeInv, NEW p \in Procs, Moves(p)
  PROVE  stored \subseteq stored' /\ stored' \subseteq Bars
<1>1. [Next]_vars
  BY DEF Next, Moves
<1> QED
  BY <1>1, NextType, MoveFrame DEF TypeInv, TypeOK

LEMMA CountUnion ==
  ASSUME CacheAssumption, NEW A, NEW B, A \subseteq Bars, B \subseteq Bars, A \cap B = {}
  PROVE  Cardinality(A \cup B) = Cardinality(A) + Cardinality(B)
<1>1. IsFiniteSet(A) /\ IsFiniteSet(B) /\ Cardinality(A) \in Nat /\ Cardinality(B) \in Nat
  BY BarSet
<1>2. Cardinality(A \cup B) = Cardinality(A) + Cardinality(B) - Cardinality(A \cap B)
  BY <1>1, FS_Union
<1>3. Cardinality(A \cap B) = 0
  BY FS_EmptySet
<1> DEFINE a == Cardinality(A)
           b == Cardinality(B)
           c == Cardinality(A \cap B)
<1> HIDE DEF a, b, c
<1>4. a \in Nat /\ b \in Nat /\ c = 0 => a + b - c = a + b
  OBVIOUS
<1> QED
  BY <1>1, <1>2, <1>3, <1>4 DEF a, b, c

-----------------------------------------------------------------------------
(* What ensure_coverage answers.                                           *)

\* What a call of ensure_coverage has counted is there, beside what it is about
\* to store: the bars it fetches lie before the oldest or after the latest of
\* those it counted.
EnsureOK(o, S) ==
  o.kind = "ensure" =>
    /\ o.pc \in {"counted", "sync", "boot", "earliest", "inc"} =>
         o.got = {} /\ o.count <= Cardinality(S)
    /\ o.pc \in {"check", "latest", "mark"} => o.count <= Cardinality(S)
    /\ o.pc = "count" => o.count = 0
    /\ o.pc = "to" => o.count <= Cardinality({b \in S : b >= o.mark})
    /\ o.pc \in {"from", "last3"} => o.count <= Cardinality({b \in S : b <= o.mark})
    /\ o.pc = "upsert" => o.count + Cardinality(o.got) <= Cardinality(S \cup o.got)
    /\ o.pc \in {"latest", "mark"} /\ o.complete => o.due \in S \cup {0}
    /\ o.ans = "yes" =>
         o.pc = "idle" /\ (Cardinality(S) >= Need \/ o.due \in S \cup {0})

LEMMA EnsureGrows ==
  ASSUME CacheAssumption, NEW o \in OpType, NEW S, NEW T, S \subseteq T, T \subseteq Bars,
         EnsureOK(o, S)
  PROVE  EnsureOK(o, T)
<1>1. /\ Cardinality(S) <= Cardinality(T)
      /\ Cardinality({b \in S : b >= o.mark}) <= Cardinality({b \in T : b >= o.mark})
      /\ Cardinality({b \in S : b <= o.mark}) <= Cardinality({b \in T : b <= o.mark})
      /\ Cardinality(S \cup o.got) <= Cardinality(T \cup o.got)
  <2>1. o.got \subseteq Bars /\ T \cup o.got \subseteq Bars
    BY DEF OpType
  <2>2. /\ {b \in S : b >= o.mark} \in SUBSET {b \in T : b >= o.mark}
        /\ {b \in S : b <= o.mark} \in SUBSET {b \in T : b <= o.mark}
        /\ S \cup o.got \in SUBSET (T \cup o.got) /\ S \in SUBSET T
        /\ {b \in T : b >= o.mark} \subseteq Bars /\ {b \in T : b <= o.mark} \subseteq Bars
    OBVIOUS
  <2> QED
    BY <2>1, <2>2, BarSet
<1>2. /\ Cardinality(S) \in Nat /\ Cardinality(T) \in Nat /\ o.count \in Nat
      /\ Cardinality({b \in S : b >= o.mark}) \in Nat
      /\ Cardinality({b \in T : b >= o.mark}) \in Nat
      /\ Cardinality({b \in S : b <= o.mark}) \in Nat
      /\ Cardinality({b \in T : b <= o.mark}) \in Nat
      /\ Cardinality(S \cup o.got) \in Nat /\ Cardinality(T \cup o.got) \in Nat
      /\ Cardinality(o.got) \in Nat /\ Need \in Nat
  <2>1. o.got \subseteq Bars /\ S \cup o.got \subseteq Bars /\ T \cup o.got \subseteq Bars
          /\ o.count \in 0..2 * MaxBar /\ MaxBar \in Nat
    BY DEF OpType, CacheAssumption
  <2>2. /\ {b \in S : b >= o.mark} \subseteq Bars /\ {b \in S : b <= o.mark} \subseteq Bars
        /\ {b \in T : b >= o.mark} \subseteq Bars /\ {b \in T : b <= o.mark} \subseteq Bars
    OBVIOUS
  <2> QED
    BY <2>1, <2>2, BarSet DEF CacheAssumption
<1> QED
  BY <1>1, <1>2 DEF EnsureOK

\* A step of the call itself.
LEMMA EnsureMoves ==
  ASSUME CacheAssumption, TypeInv, NEW p \in Procs, EnsureOK(op[p], stored), Moves(p)
  PROVE  EnsureOK(op'[p], stored')
<1> DEFINE o == op[p]
           r == op'[p]
           S == stored
           T == stored'
<1>0. /\ o \in OpType /\ r \in OpType /\ EnsureOK(o, S) /\ S \subseteq T
      /\ S \subseteq Bars /\ T \subseteq Bars
      /\ o.count \in Nat /\ Cardinality(S) \in Nat /\ Need \in Nat
  <2>1. o \in OpType /\ r \in OpType /\ EnsureOK(o, S) /\ S \subseteq Bars
    BY MoveTyped DEF TypeInv, TypeOK
  <2>2. o.count \in Nat
    BY <2>1, CacheAssumption DEF OpType, CacheAssumption
  <2> QED
    BY <2>1, <2>2, Grows, BarSet DEF CacheAssumption
<1> USE DEF EnsureOK
<1>1. CASE Start(p)
  <2>1. T = S
    BY <1>1 DEF Start, Step, Warm, Begin, Ensure, Backfill, Repair, Only
  <2>2. CASE Step(p) \/ Warm(p)
    BY <2>2, StartIs DEF Fresh
  <2>3. CASE Ensure(p)
    BY <1>0, <2>1, <2>3, StartIs DEF Fresh
  <2>4. CASE Backfill(p)
    BY <2>4, StartIs DEF Fresh
  <2>5. CASE Repair(p)
    BY <2>5, StartIs DEF Fresh, Blank
  <2> QED
    BY <1>1, <2>2, <2>3, <2>4, <2>5 DEF Start
<1>2. CASE EnsureComplete(p)
  <2>1. T = S
    BY <1>2 DEF EnsureComplete, Only
  <2> QED
    BY <1>0, <1>2, <2>1, ChoiceIs DEF Unmoved, SameCall, Returned
<1>3. CASE Sync(p) \/ Bootstrap(p)
  <2>1. T = S /\ (Bootstrap(p) /\ S = {} => Cardinality(S) = 0)
    BY <1>3, FS_EmptySet DEF Sync, Bootstrap, Only
  <2> QED
    BY <1>0, <1>3, <2>1, ChoiceIs DEF Unmoved, SameCall
<1>4. CASE Earliest(p) \/ Incremental(p)
  <2>1. T = S
    BY <1>4 DEF Earliest, Incremental, Only
  <2>2. Earliest(p) => {b \in S : b >= r.mark} = S
    <3>1. Earliest(p) => r.mark = Oldest(S)
      BY ChoiceIs
    <3>2. S # {} => \A b \in S : Oldest(S) <= b /\ b \in Nat /\ Oldest(S) \in Nat
      BY <1>0, Ends, BarSet
    <3> QED
      BY <3>1, <3>2
  <2>3. S # {} /\ Incremental(p) => {b \in S : b <= r.mark} = S
    <3>1. Incremental(p) => r.mark = Latest(S)
      BY ChoiceIs
    <3>2. S # {} => \A b \in S : b <= Latest(S)
      BY <1>0, Ends
    <3> QED
      BY <3>1, <3>2
  <2>4. S = {} => Cardinality(S) = 0 /\ S \cup {} = {}
    BY FS_EmptySet
  <2>5. CASE Earliest(p)
    <3>1. o.pc = "earliest" /\ r.pc = "to" /\ SameCall(r, o) /\ r.count = o.count
      BY <2>5, ChoiceIs
    <3>2. {b \in S : b >= r.mark} = S
      BY <2>2, <2>5
    <3> QED
      BY <1>0, <2>1, <3>1, <3>2 DEF SameCall
  <2>6. CASE Incremental(p)
    <3>1. /\ o.pc = "inc" /\ r.pc = (IF S = {} THEN "upsert" ELSE "from")
          /\ SameCall(r, o) /\ r.count = o.count /\ r.got = o.got
      BY <2>6, ChoiceIs
    <3>2. CASE S = {}
      <4>1. r.kind = "ensure" => r.got = {} /\ S \cup r.got = {} /\ o.count <= 0
        BY <1>0, <2>4, <3>1, <3>2 DEF SameCall
      <4>2. r.kind = "ensure" => Cardinality(r.got) = 0 /\ Cardinality(S \cup r.got) = 0
        BY <2>4, <3>2, <4>1
      <4> QED
        BY <1>0, <2>1, <3>1, <3>2, <4>1, <4>2 DEF SameCall
    <3>3. CASE S # {}
      <4>1. {b \in S : b <= r.mark} = S
        BY <2>3, <2>6, <3>3
      <4> QED
        BY <1>0, <2>1, <3>1, <3>3, <4>1 DEF SameCall
    <3> QED
      BY <3>2, <3>3
  <2> QED
    BY <1>4, <2>5, <2>6
<1>5. CASE FillEmpty(p) \/ FillBackward(p) \/ FetchNew(p) \/ FetchLast(p)
  <2>1. T = S /\ r.kind = o.kind /\ r.ans = o.ans /\ r.count = o.count /\ r.mark = o.mark
    BY <1>5, FetchIs DEF FillEmpty, FillBackward, FetchNew, FetchLast, Only, Took, SameCall
  <2>2. r.got \subseteq Bars /\ Cardinality(r.got) \in Nat
    BY <1>0, BarSet DEF OpType
  <2>3. ASSUME NEW A \in SUBSET S, o.count <= Cardinality(A), A \cap r.got = {}
        PROVE  o.count + Cardinality(r.got) <= Cardinality(S \cup r.got)
    <3>1. Cardinality(A \cup r.got) = Cardinality(A) + Cardinality(r.got)
      BY <1>0, <2>2, <2>3, CountUnion
    <3>2. A \cup r.got \in SUBSET (S \cup r.got) /\ S \cup r.got \subseteq Bars
      BY <1>0, <2>2
    <3>3. Cardinality(A \cup r.got) <= Cardinality(S \cup r.got)
            /\ Cardinality(S \cup r.got) \in Nat /\ Cardinality(A) \in Nat
      BY <1>0, <3>2, BarSet
    <3> QED
      BY <1>0, <2>2, <2>3, <3>1, <3>3
  <2>4. CASE FillEmpty(p)
    <3>1. o.pc = "count" /\ r.pc = "upsert"
      BY <2>4, FetchIs
    <3>2. Cardinality({}) = 0
      BY FS_EmptySet
    <3> QED
      BY <1>0, <2>1, <2>2, <2>3, <3>1, <3>2
  <2>5. CASE FillBackward(p)
    <3>1. o.pc = "to" /\ r.pc = "upsert" /\ \A b \in r.got : b < o.mark
      BY <2>5, FetchIs DEF Took
    <3>2. {b \in S : b >= o.mark} \cap r.got = {}
      BY <1>0, <2>2, <3>1 DEF Bars, OpType
    <3>3. o.kind = "ensure" => o.count <= Cardinality({b \in S : b >= o.mark})
      BY <1>0, <3>1
    <3> HIDE DEF EnsureOK
    <3>4. o.kind = "ensure" => o.count + Cardinality(r.got) <= Cardinality(S \cup r.got)
      BY <2>3, <3>2, <3>3
    <3> QED
      BY <1>0, <2>1, <3>1, <3>4 DEF EnsureOK
  <2>6. CASE FetchNew(p) \/ FetchLast(p)
    <3>1. /\ o.pc \in {"from", "last3"} /\ r.pc \in {"upsert", "last3"}
          /\ \A b \in r.got : b > o.mark
      BY <2>6, FetchIs DEF Took
    <3>2. {b \in S : b <= o.mark} \cap r.got = {}
      BY <1>0, <2>2, <3>1 DEF Bars, OpType
    <3>3. o.kind = "ensure" => o.count <= Cardinality({b \in S : b <= o.mark})
      BY <1>0, <3>1
    <3> HIDE DEF EnsureOK
    <3>4. o.kind = "ensure" => o.count + Cardinality(r.got) <= Cardinality(S \cup r.got)
      BY <2>3, <3>2, <3>3
    <3> QED
      BY <1>0, <2>1, <3>1, <3>3, <3>4 DEF EnsureOK
  <2> QED
    BY <1>5, <2>4, <2>5, <2>6
<1>6. CASE Page(p)
  BY <1>0, <1>6, PageIs DEF SameCall
<1>7. CASE KeepMissing(p) \/ KeepWindow(p)
  BY <1>0, <1>7, KeepIs DEF SameCall, Returned
<1>8. CASE Upsert(p)
  <2>1. T = S \cup o.got
    BY <1>8 DEF Upsert
  <2> QED
    BY <1>0, <1>8, <2>1, EndIs DEF SameCall
<1>9. CASE Check(p)
  <2>1. T = S
    BY <1>9 DEF Check, Only
  <2>2. IsComplete => Expected \in S \cup {0}
    BY <1>0, Ends DEF IsComplete
  <2> QED
    BY <1>0, <1>9, <2>1, <2>2, EndIs DEF SameCall, Unmoved
<1>10. CASE ReadLatest(p)
  <2>1. T = S
    BY <1>10 DEF ReadLatest, Only
  <2> QED
    BY <1>0, <1>10, <2>1, EndIs DEF SameCall
<1>11. CASE Mark(p)
  <2>1. T = S
    BY <1>11 DEF Mark
  <2> QED
    BY <1>0, <1>11, <2>1, EndIs DEF Returned
<1>12. CASE FetchFails(p)
  BY <1>0, <1>12, EndIs DEF Returned
<1> QED
  BY <1>1, <1>2, <1>3, <1>4, <1>5, <1>6, <1>7, <1>8, <1>9, <1>10, <1>11, <1>12
     DEF Moves, Continue

HonestInv == \A p \in Procs : EnsureOK(op[p], stored)

LEMMA HonestNext ==
  ASSUME CacheAssumption, TypeInv, HonestInv, [Next]_vars
  PROVE  HonestInv'
<1>1. ASSUME NEW p \in Procs, Moves(p), NEW q \in Procs PROVE EnsureOK(op'[q], stored')
  <2>1. CASE q = p
    BY <1>1, <2>1, EnsureMoves DEF HonestInv
  <2>2. CASE q # p
    <3>1. op'[q] = op[q] /\ op[q] \in OpType /\ EnsureOK(op[q], stored)
      BY <1>1, <2>2, MoveTyped DEF HonestInv, TypeInv, TypeOK
    <3>2. EnsureOK(op[q], stored')
      BY <1>1, <3>1, Grows, EnsureGrows
    <3> QED
      BY <3>1, <3>2
  <2> QED
    BY <2>1, <2>2
<1>2. CASE UNCHANGED <<op, stored>>
  BY <1>2 DEF HonestInv
<1>3. (\E p \in Procs : Moves(p)) \/ UNCHANGED <<op, stored>>
  BY DEF Next, Moves, Tick, Complete, vars
<1> QED
  BY <1>1, <1>2, <1>3 DEF HonestInv

\* A caller of ensure_coverage that is told yes has as many bars as it asked
\* for, or the bar that was expected when it was compared: no fetch of another
\* caller that falls between its counts and its upsert makes the answer untrue.
THEOREM AnswersHonestly == Spec => []AnswerHonest
<1>1. Init => HonestInv
  BY DEF Init, HonestInv, EnsureOK, Blank
<1>2. TypeInv /\ HonestInv /\ [Next]_vars => HonestInv'
  BY HonestNext, CacheAssumption
<1>3. Init => TypeInv
  BY InitType, CacheAssumption
<1>4. TypeInv /\ [Next]_vars => TypeInv'
  BY NextType, CacheAssumption
<1>5. TypeInv /\ HonestInv => AnswerHonest
  BY DEF HonestInv, EnsureOK, AnswerHonest, Procs
<1> QED
  BY <1>1, <1>2, <1>3, <1>4, <1>5, PTL DEF Spec
-----------------------------------------------------------------------------
(* What a backfill and a repair deliver.                                   *)

\* The closed bars among the first n of a set are all of its bars up to a closed
\* one, when fewer than n came.
LEMMA ShortPage ==
  ASSUME CacheAssumption, NEW P, P \subseteq Bars, NEW n \in Nat, NEW done \in Nat,
         Cardinality({b \in FirstN(P, n) : b <= done}) < n,
         NEW b \in P, b <= done
  PROVE  b \in FirstN(P, n)
<1> DEFINE F == FirstN(P, n)
           B == {x \in F : x <= done}
           L == P \ F
           m == Min(L)
           Below == {c \in P : c < m}
<1>1. ASSUME b \notin F PROVE FALSE
  <2>1. L \subseteq Bars /\ L # {} /\ b \in L /\ L \subseteq Nat
    <3> HIDE DEF F
    <3> QED
      BY <1>1, BarSet DEF L
  <2> HIDE DEF L
  <2>2. m \in L /\ \A x \in L : m <= x
    BY <2>1, BarSet, MinExists
  <2>3. m \in P /\ m \notin F /\ m <= b /\ m \in Nat /\ b \in Nat /\ P \subseteq Nat
    BY <2>1, <2>2, BarSet DEF L
  <2>4. Below \subseteq F
    <3>1. ASSUME NEW c \in Below, c \notin F PROVE FALSE
      <4>1. c \in L /\ c < m /\ c \in Nat
        BY <2>3, <3>1 DEF L
      <4> QED
        BY <2>2, <2>3, <4>1
    <3> QED
      BY <3>1
  <2>5. \A c \in Below : c <= done
    BY <2>3
  <2>6. Below \in SUBSET B /\ B \subseteq Bars
    BY <2>4, <2>5, FirstPart
  <2>7. ~ (Cardinality(Below) < n)
    <3>1. F = {x \in P : Cardinality({c \in P : c < x}) < n}
      BY DEF FirstN
    <3> HIDE DEF F, m
    <3> QED
      BY <2>3, <3>1
  <2>8. Cardinality(Below) <= Cardinality(B) /\ Cardinality(Below) \in Nat
          /\ Cardinality(B) \in Nat
    BY <2>6, BarSet
  <2>9. Cardinality(B) < n
    OBVIOUS
  <2> HIDE DEF B, Below
  <2> QED
    BY <2>7, <2>8, <2>9
<1> QED
  BY <1>1

\* A page as long as the broker's limit is cut short nowhere but at its end.
LEMMA WholePage ==
  ASSUME CacheAssumption, ChunkSize = Cap, NEW c
  PROVE  FetchFrom(c, ChunkSize)
           = {b \in FirstN({x \in Offered : x >= c}, ChunkSize) : b <= marked}
<1> DEFINE P == {x \in Offered : x >= c}
           B == {b \in FirstN(P, ChunkSize) : b <= marked}
<1>1. RequestCount(ChunkSize) = ChunkSize /\ ChunkSize \in Nat
  BY DEF RequestCount, Smaller, CacheAssumption
<1>2. P \subseteq Bars
  BY OfferedBars
<1>3. B \in SUBSET FirstN(P, ChunkSize) /\ FirstN(P, ChunkSize) \subseteq Bars
        /\ Cardinality(FirstN(P, ChunkSize)) <= ChunkSize
        /\ Cardinality(FirstN(P, ChunkSize)) \in Nat
  <2> HIDE DEF P
  <2> QED
    BY <1>1, <1>2, FirstPart
<1>4. Cardinality(B) <= ChunkSize
  <2> HIDE DEF B, P
  <2>1. Cardinality(B) <= Cardinality(FirstN(P, ChunkSize)) /\ Cardinality(B) \in Nat
    BY <1>3, BarSet
  <2> QED
    BY <1>1, <1>3, <2>1
<1>5. LastN(B, ChunkSize) = B
  <2>1. B \subseteq Bars
    BY <1>3
  <2> HIDE DEF B
  <2>2. LastN(B, ChunkSize) \subseteq B /\ \A b \in B : b \in LastN(B, ChunkSize)
    BY <1>1, <1>4, <2>1, LastPart
  <2> QED
    BY <2>2
<1>6. FetchFrom(c, ChunkSize) = LastN(B, ChunkSize)
  BY <1>1 DEF FetchFrom, Closed
<1> QED
  BY <1>5, <1>6

\* A range has everything it owes up to its cursor, and at its end all of it.
RangeOK(o, S, m) ==
  o.kind \in {"window", "repair"} =>
    /\ o.pc \in {"idle", "pages", "keep"}
    /\ o.pc # "idle" => /\ o.ask <= m + 1 /\ \A b \in o.owed : b <= o.to
    /\ o.pc = "pages" =>
         /\ o.from <= o.cursor
         /\ \A b \in o.owed \cap Quoted : b < o.ask /\ b < o.cursor => b \in S \cup o.got
    /\ o.pc = "keep" =>
         \A b \in o.owed \cap Quoted : b < o.ask => b \in S \cup o.got
    /\ o.pc = "idle" /\ o.ans = "yes" => o.owed \subseteq S

LEMMA RangeGrows ==
  ASSUME NEW o \in OpType, NEW S, NEW T, S \subseteq T, NEW m \in Int, NEW n \in Int,
         m <= n, MaxBar \in Nat, RangeOK(o, S, m)
  PROVE  RangeOK(o, T, n)
<1>1. o.ask \in Nat
  BY DEF OpType
<1>2. o.ask <= m + 1 => o.ask <= n + 1
  BY <1>1
<1> QED
  BY <1>2 DEF RangeOK

LEMMA RangePage ==
  ASSUME CacheAssumption, TypeInv, ChunkSize = Cap, NEW p \in Procs,
         RangeOK(op[p], stored, marked), Page(p)
  PROVE  RangeOK(op'[p], stored, marked)
<1> DEFINE o == op[p]
           r == op'[p]
           P == {x \in Offered : x >= o.cursor}
           batch == FetchFrom(o.cursor, ChunkSize)
           F == FirstN(P, ChunkSize)
           last == batch = {} \/ Max(batch) >= o.to \/ Cardinality(batch) < ChunkSize
<1>1. /\ o.pc = "pages" /\ SameCall(r, o) /\ r.from = o.from
      /\ r.got = o.got \cup {b \in batch : b \in o.from..o.to}
      /\ r.pc = (IF last THEN "keep" ELSE "pages")
      /\ r.cursor = (IF last THEN 0 ELSE Max(batch) + 1)
  BY PageIs
<1>2. batch = {b \in F : b <= marked}
  BY WholePage
<1>3. /\ P \subseteq Bars /\ F \subseteq P /\ ChunkSize \in Nat \ {0} /\ marked \in Int
      /\ \A b \in P, g \in F : b <= g => b \in F
  <2>1. P \subseteq Bars
    BY OfferedBars
  <2> HIDE DEF P
  <2> QED
    BY <2>1, FirstPart DEF CacheAssumption, TypeInv, TypeOK
<1>4. o \in OpType /\ MaxBar \in Nat /\ now \in 0..MaxBar /\ marked \in {now, now - 1}
  BY DEF TypeInv, TypeOK, CacheAssumption
<1>5. /\ o.from \in Nat /\ o.to \in Nat /\ o.cursor \in Nat /\ o.ask \in Nat
      /\ o.owed \subseteq Nat /\ o.owed \subseteq Bars
  BY <1>4 DEF OpType, Bars
<1> HIDE DEF o, r, F, batch
<1>6. CASE o.kind \notin {"window", "repair"}
  BY <1>1, <1>6 DEF RangeOK, SameCall, o, r
<1>7. CASE o.kind \in {"window", "repair"}
  <2>1. /\ o.ask <= marked + 1 /\ o.from <= o.cursor /\ \A b \in o.owed : b <= o.to
        /\ \A b \in o.owed \cap Quoted : b < o.ask /\ b < o.cursor => b \in stored \cup o.got
    BY <1>1, <1>7 DEF RangeOK, o
  <2>2. \A b \in o.owed \cap Quoted : b < o.ask /\ ~(b < o.cursor) =>
           b \in P /\ b <= marked /\ b \in o.from..o.to
    <3> SUFFICES ASSUME NEW b \in o.owed \cap Quoted, b < o.ask, ~(b < o.cursor)
                 PROVE  b \in P /\ b <= marked /\ b \in o.from..o.to
      OBVIOUS
    <3>1. b \in Nat /\ b <= o.to /\ b <= marked /\ b <= now + 1
      BY <1>3, <1>4, <1>5, <2>1
    <3> QED
      BY <1>5, <2>1, <3>1 DEF Offered
  <2>3. ASSUME batch # {}
        PROVE  Max(batch) \in F /\ Max(batch) \in Nat
    <3>1. batch \subseteq Bars
      BY <1>2, <1>3
    <3> QED
      BY <1>2, <2>3, <3>1, BarSet, MaxExists
  <2>4. ASSUME NEW b \in o.owed \cap Quoted, b < o.ask, batch # {}, b <= Max(batch)
        PROVE  b \in stored \cup r.got
    <3>1. CASE b < o.cursor
      BY <1>1, <2>1, <2>4, <3>1
    <3>2. CASE ~(b < o.cursor)
      <4>1. b \in P /\ b <= marked /\ b \in o.from..o.to
        BY <2>2, <2>4, <3>2
      <4>2. b \in F
        BY <1>3, <2>3, <2>4, <4>1
      <4> QED
        BY <1>1, <1>2, <4>1, <4>2
    <3> QED
      BY <3>1, <3>2
  <2>5. ASSUME NEW b \in o.owed \cap Quoted, b < o.ask, Cardinality(batch) < ChunkSize
        PROVE  b \in stored \cup r.got
    <3>1. CASE b < o.cursor
      BY <1>1, <2>1, <2>5, <3>1
    <3>2. CASE ~(b < o.cursor)
      <4>1. b \in P /\ b <= marked /\ b \in o.from..o.to
        BY <2>2, <2>5, <3>2
      <4>2. marked \in Nat
        BY <1>3, <1>4, <1>5, <4>1
      <4>3. b \in F
        <5> HIDE DEF P
        <5> QED
          BY <1>2, <1>3, <2>5, <4>1, <4>2, ShortPage DEF F
      <4> QED
        BY <1>1, <1>2, <4>1, <4>3
    <3> QED
      BY <3>1, <3>2
  <2>6. batch = {} => Cardinality(batch) < ChunkSize
    BY <1>3, FS_EmptySet
  <2>7. CASE last
    <3>1. ASSUME NEW b \in o.owed \cap Quoted, b < o.ask PROVE b \in stored \cup r.got
      <4>1. b \in Nat /\ b <= o.to
        BY <1>5, <2>1
      <4>2. CASE Cardinality(batch) < ChunkSize
        BY <2>5, <3>1, <4>2
      <4>3. CASE ~(Cardinality(batch) < ChunkSize) /\ batch # {} /\ Max(batch) >= o.to
        <5>1. b <= Max(batch)
          BY <1>5, <2>3, <4>1, <4>3
        <5> QED
          BY <2>4, <3>1, <4>3, <5>1
      <4> QED
        BY <2>6, <2>7, <4>2, <4>3
    <3>2. r.pc = "keep" /\ r.owed = o.owed /\ r.ask = o.ask /\ r.to = o.to
      BY <1>1, <2>7 DEF SameCall
    <3> QED
      BY <2>1, <3>1, <3>2 DEF RangeOK, r
  <2>8. CASE ~last
    <3>1. batch # {} /\ Max(batch) \in Nat
      BY <2>3, <2>8
    <3>2. Max(batch) >= o.cursor
      BY <1>3, <2>3, <3>1 DEF Bars
    <3>3. /\ r.pc = "pages" /\ r.owed = o.owed /\ r.ask = o.ask /\ r.to = o.to
          /\ r.cursor = Max(batch) + 1 /\ r.from = o.from
      BY <1>1, <2>8 DEF SameCall
    <3>4. o.from <= Max(batch) + 1
      BY <1>5, <2>1, <3>1, <3>2
    <3>5. ASSUME NEW b \in o.owed \cap Quoted, b < o.ask, b < Max(batch) + 1
          PROVE  b \in stored \cup r.got
      <4>1. b <= Max(batch)
        BY <1>5, <3>1, <3>5
      <4> QED
        BY <2>4, <3>1, <3>5, <4>1
    <3> QED
      BY <2>1, <3>3, <3>4, <3>5 DEF RangeOK, r
  <2> QED
    BY <2>7, <2>8
<1> QED
  BY <1>6, <1>7

\* What a range owes when it begins lies within it.
LEMMA RangeStart ==
  ASSUME CacheAssumption, TypeInv, NEW p \in Procs, Start(p)
  PROVE  RangeOK(op'[p], stored, marked)
<1>0. /\ now \in Nat /\ marked \in {now, now - 1} /\ MaxBar \in Nat
      /\ now <= marked + 1
  BY DEF TypeInv, TypeOK, CacheAssumption
<1>1. CASE Step(p) \/ Warm(p)
  BY <1>1, StartIs DEF Fresh, RangeOK
<1>2. CASE Ensure(p)
  BY <1>2, StartIs DEF Fresh, RangeOK
<1>3. CASE Backfill(p)
  <2> DEFINE r == op'[p]
  <2>1. PICK w \in Windows :
              /\ Fresh(r, "window", "pages", now)
              /\ r.from = w[1] /\ r.to = w[2] /\ r.cursor = w[1]
              /\ r.owed = {b \in w[1]..w[2] : b <= now}
    BY <1>3, StartIs
  <2> HIDE DEF r
  <2>2. w[1] \in Nat /\ w[2] \in Nat
    BY DEF CacheAssumption, Bars
  <2>3. \A b \in r.owed : b <= r.to /\ ~(b < r.cursor)
    BY <2>1, <2>2
  <2>4. RangeOK(r, stored, marked)
    BY <1>0, <2>1, <2>2, <2>3 DEF Fresh, RangeOK
  <2> QED
    BY <2>4 DEF r
<1>4. CASE Repair(p)
  <2> DEFINE r == op'[p]
  <2>1. CASE r = [Blank EXCEPT !.kind = "repair", !.ans = "yes"]
    BY <2>1 DEF RangeOK, Blank
  <2>2. CASE /\ Missing # {} /\ Fresh(r, "repair", "pages", now)
             /\ r.from = Min(Missing) /\ r.to = Max(Missing)
             /\ r.cursor = Min(Missing) /\ r.owed = Missing
    <3>1. Missing \subseteq Bars
      BY DEF Missing, CacheAssumption
    <3>2. /\ Min(Missing) \in Nat /\ Max(Missing) \in Nat
          /\ \A b \in Missing : b \in Nat /\ Min(Missing) <= b /\ b <= Max(Missing)
      BY <2>2, <3>1, BarSet, MinExists, MaxExists
    <3> HIDE DEF r
    <3>3. \A b \in r.owed : b <= r.to /\ ~(b < r.cursor)
      BY <2>2, <3>2
    <3>4. RangeOK(r, stored, marked)
      BY <1>0, <2>2, <3>2, <3>3 DEF Fresh, RangeOK
    <3> QED
      BY <3>4 DEF r
  <2> QED
    BY <1>4, <2>1, <2>2, StartIs
<1> QED
  BY <1>1, <1>2, <1>3, <1>4 DEF Start

\* The end of a range: all it owes is in the table.
LEMMA RangeKeep ==
  ASSUME CacheAssumption, TypeInv, NEW p \in Procs, RangeOK(op[p], stored, marked),
         KeepMissing(p) \/ KeepWindow(p)
  PROVE  RangeOK(op'[p], stored', marked)
<1> DEFINE o == op[p]
           r == op'[p]
<1>1. o \in OpType
  BY DEF TypeInv, TypeOK
<1>2. /\ o.pc = "keep" /\ o.kind \in {"window", "repair"}
      /\ \A b \in o.owed \cap Quoted : b < o.ask => b \in stored \cup o.got
      /\ o.ask <= marked + 1 /\ \A b \in o.owed : b <= o.to
  BY KeepIs DEF RangeOK
<1>3. \A b \in o.owed \cap Quoted : b < o.ask => b \in stored'
  BY <1>2 DEF KeepMissing, KeepWindow
<1>4. \/ Returned(r, o, o.due, "yes")
      \/ /\ o.got # {} /\ SameCall(r, o) /\ r.pc = "pages"
         /\ r.got = {} /\ r.from = Max(o.got) /\ r.cursor = Max(o.got)
  BY KeepIs
<1> HIDE DEF o, r
<1>5. CASE Returned(r, o, o.due, "yes")
  BY <1>3, <1>5 DEF Returned, RangeOK, r
<1>6. CASE /\ o.got # {} /\ SameCall(r, o) /\ r.pc = "pages"
           /\ r.got = {} /\ r.from = Max(o.got) /\ r.cursor = Max(o.got)
  <2>1. Max(o.got) \in Nat
    <3>1. o.got \subseteq Bars
      BY <1>1 DEF OpType
    <3> QED
      BY <1>6, <3>1, BarSet, MaxExists
  <2> QED
    BY <1>2, <1>3, <1>6, <2>1 DEF SameCall, RangeOK, r
<1> QED
  BY <1>4, <1>5, <1>6

LEMMA RangeMoves ==
  ASSUME CacheAssumption, TypeInv, ChunkSize = Cap, NEW p \in Procs,
         RangeOK(op[p], stored, marked), Moves(p)
  PROVE  RangeOK(op'[p], stored', marked')
<1>0. marked' = marked
  BY MoveFrame
<1>1. CASE Start(p)
  <2>1. stored' = stored
    BY <1>1 DEF Start, Step, Warm, Begin, Ensure, Backfill, Repair, Only
  <2> QED
    BY <1>0, <1>1, <2>1, RangeStart
<1>2. CASE Page(p)
  <2>1. stored' = stored
    BY <1>2 DEF Page, Only
  <2> QED
    BY <1>0, <1>2, <2>1, RangePage
<1>3. CASE KeepMissing(p) \/ KeepWindow(p)
  BY <1>0, <1>3, RangeKeep
<1>4. CASE FetchFails(p)
  BY <1>4, EndIs DEF Returned, RangeOK
<1>5. CASE op[p].kind \in {"window", "repair"} /\ ~Start(p) /\ ~FetchFails(p)
  <2>1. op[p].pc \in {"idle", "pages", "keep"}
    BY <1>5 DEF RangeOK
  <2>2. Page(p) \/ KeepMissing(p) \/ KeepWindow(p)
    BY <1>5, <2>1 DEF Moves, Continue, EnsureComplete, Sync, Bootstrap, Earliest, FillEmpty,
       FillBackward, Incremental, FetchNew, FetchLast, Upsert, Check, ReadLatest, Mark
  <2> QED
    BY <1>2, <1>3, <2>2
<1>6. CASE op[p].kind \notin {"window", "repair"} /\ Continue(p)
  <2>1. op'[p].kind \notin {"window", "repair"}
    <3>1. CASE EnsureComplete(p) \/ Sync(p) \/ Bootstrap(p) \/ Earliest(p) \/ Incremental(p)
      BY <1>6, <3>1, ChoiceIs DEF Unmoved, SameCall, Returned
    <3>2. CASE FillEmpty(p) \/ FillBackward(p) \/ FetchNew(p) \/ FetchLast(p)
      BY <1>6, <3>2, FetchIs DEF Took, SameCall
    <3>3. CASE Page(p)
      BY <1>6, <3>3, PageIs DEF SameCall
    <3>4. CASE KeepMissing(p) \/ KeepWindow(p)
      BY <1>6, <3>4, KeepIs DEF Returned, SameCall
    <3>5. CASE Upsert(p) \/ Check(p) \/ ReadLatest(p) \/ Mark(p)
      BY <1>6, <3>5, EndIs DEF Unmoved, SameCall, Returned
    <3> QED
      BY <1>6, <3>1, <3>2, <3>3, <3>4, <3>5 DEF Continue
  <2> QED
    BY <2>1 DEF RangeOK
<1> QED
  BY <1>1, <1>2, <1>3, <1>4, <1>5, <1>6 DEF Moves

RangeInv == \A p \in Procs : RangeOK(op[p], stored, marked)

LEMMA RangeNext ==
  ASSUME CacheAssumption, TypeInv, ChunkSize = Cap, RangeInv, [Next]_vars
  PROVE  RangeInv'
<1>0. /\ MaxBar \in Nat /\ marked \in Int /\ now \in 0..MaxBar
      /\ \A q \in Procs : op[q] \in OpType
  BY DEF TypeInv, TypeOK, CacheAssumption
<1>1. ASSUME NEW p \in Procs, Moves(p), NEW q \in Procs PROVE RangeOK(op'[q], stored', marked')
  <2>1. CASE q = p
    BY <1>1, <2>1, RangeMoves DEF RangeInv
  <2>2. CASE q # p
    <3>1. op'[q] = op[q] /\ marked' = marked /\ stored \subseteq stored'
      BY <1>1, <2>2, MoveTyped, MoveFrame, Grows
    <3>2. marked <= marked /\ RangeOK(op[q], stored, marked) /\ op[q] \in OpType
      BY <1>0 DEF RangeInv
    <3>3. RangeOK(op[q], stored', marked)
      BY <1>0, <3>1, <3>2, RangeGrows
    <3> QED
      BY <3>1, <3>3
  <2> QED
    BY <2>1, <2>2
<1>2. CASE Tick
  BY <1>2 DEF Tick, RangeInv
<1>3. CASE Complete
  <2>1. ASSUME NEW q \in Procs PROVE RangeOK(op[q], stored, marked')
    <3>1. marked' \in Int /\ marked <= marked' /\ RangeOK(op[q], stored, marked)
      BY <1>0, <1>3 DEF Complete, RangeInv
    <3> QED
      BY <1>0, <3>1, RangeGrows
  <2> QED
    BY <1>3, <2>1 DEF Complete, RangeInv
<1>4. CASE UNCHANGED vars
  BY <1>4 DEF RangeInv, vars
<1> QED
  BY <1>1, <1>2, <1>3, <1>4 DEF Next, Moves, RangeInv

\* A backfill or a repair that ends without an error has stored every bar it was
\* to store that the broker has and had marked complete, however far its pages
\* came and whatever others stored meanwhile: with the page of the default
\* configuration, as long as the broker's limit.
THEOREM Delivers == ASSUME ChunkSize = Cap PROVE Spec => []Delivered
<1>1. Init => RangeInv
  BY DEF Init, RangeInv, RangeOK, Blank
<1>2. TypeInv /\ RangeInv /\ [Next]_vars => RangeInv'
  BY RangeNext, CacheAssumption
<1>3. Init => TypeInv
  BY InitType, CacheAssumption
<1>4. TypeInv /\ [Next]_vars => TypeInv'
  BY NextType, CacheAssumption
<1>5. RangeInv => Delivered
  BY DEF RangeInv, RangeOK, Delivered, Procs, Idle
<1> QED
  BY <1>1, <1>2, <1>3, <1>4, <1>5, PTL DEF Spec
-----------------------------------------------------------------------------
(* What a sync adds to the series.                                         *)

\* While one sync runs, no more bars close than its last fetch would find.
Near == Drift + 2 <= Smaller(4, Cap)

LEMMA SmallSet ==
  ASSUME NEW S, NEW a \in Int, NEW b \in Int, NEW k \in Nat,
         \A c \in S : c \in Int /\ a <= c /\ c <= b, b < a + k
  PROVE  Cardinality(S) \in Nat /\ Cardinality(S) <= k
<1>1. IsFiniteSet(a..b) /\ Cardinality(a..b) = IF a > b THEN 0 ELSE b - a + 1
  BY FS_Interval
<1>2. S \subseteq a..b
  OBVIOUS
<1>3. IsFiniteSet(S) /\ Cardinality(S) <= Cardinality(a..b)
  BY <1>1, <1>2, FS_Subset
<1>4. Cardinality(S) \in Nat
  BY <1>3, FS_CardinalityType
<1>5. Cardinality(a..b) <= k /\ Cardinality(a..b) \in Nat
  BY <1>1
<1> QED
  BY <1>3, <1>4, <1>5

\* The newest bars are without a gap.
LEMMA NewestMeet ==
  ASSUME CacheAssumption, TypeInv, NEW n \in Nat, NEW done \in {marked, now},
         NEW g \in FetchCount(n, done), NEW b \in Quoted, g < b, b <= done
  PROVE  b \in FetchCount(n, done)
<1> DEFINE L == LastN(Offered, RequestCount(n))
           B == {x \in L : x <= done}
<1>1. Offered \subseteq Bars /\ RequestCount(n) \in Nat
  BY OfferedBars, CountTyped
<1>2. L \subseteq Offered /\ (\A x \in Offered, y \in L : y <= x => x \in L)
  BY <1>1, LastPart
<1>3. B \subseteq Bars /\ FetchCount(n, done) = LastN(B, n)
  BY <1>1, <1>2 DEF FetchCount, Closed
<1>4. LastN(B, n) \subseteq B /\ (\A x \in B, y \in LastN(B, n) : y <= x => x \in LastN(B, n))
  <2> HIDE DEF B
  <2> QED
    BY <1>3, LastPart
<1>5. b \in Bars /\ b \in Nat /\ g \in Nat /\ g \in L /\ now \in Nat /\ done <= now /\ done \in Int
  BY <1>1, <1>2, <1>3, <1>4 DEF CacheAssumption, Bars, TypeInv, TypeOK
<1>6. b \in Offered
  BY <1>5 DEF Offered
<1>7. b \in B
  BY <1>2, <1>5, <1>6
<1> QED
  BY <1>3, <1>4, <1>5, <1>7

\* The bars before the oldest one found meet it.
LEMMA OlderMeet ==
  ASSUME CacheAssumption, TypeInv, NEW n \in Nat, NEW t \in Bars, t <= now,
         NEW g \in FetchTo(t, n), NEW b \in Quoted, g < b, b < t
  PROVE  b \in FetchTo(t, n)
<1> DEFINE P == {x \in Offered : x < t}
           L == LastN(P, RequestCount(n))
           B == {x \in L : x <= marked}
<1>1. P \subseteq Bars /\ RequestCount(n) \in Nat
  BY OfferedBars, CountTyped
<1>2. L \subseteq P /\ (\A x \in P, y \in L : y <= x => x \in L)
  <2> HIDE DEF P
  <2> QED
    BY <1>1, LastPart
<1>3. B \subseteq Bars /\ FetchTo(t, n) = LastN(B, n)
  BY <1>1, <1>2 DEF FetchTo, Closed
<1>4. LastN(B, n) \subseteq B /\ (\A x \in B, y \in LastN(B, n) : y <= x => x \in LastN(B, n))
  <2> HIDE DEF B
  <2> QED
    BY <1>3, LastPart
<1>5. b \in Bars /\ b \in Nat /\ g \in Nat /\ g \in L /\ now \in Nat /\ t \in Nat
        /\ now - 1 <= marked /\ marked \in Int
  <2>1. g \in L /\ g \in Bars
    BY <1>1, <1>2, <1>3, <1>4
  <2> HIDE DEF L
  <2> QED
    BY <2>1 DEF CacheAssumption, Bars, TypeInv, TypeOK
<1>6. b \in P /\ b <= marked
  BY <1>5 DEF Offered
<1>7. b \in B
  BY <1>2, <1>5, <1>6
<1> QED
  BY <1>3, <1>4, <1>5, <1>7

\* So do those after the latest one found.
LEMMA NewerMeet ==
  ASSUME CacheAssumption, TypeInv, NEW t \in Quoted, t <= now
  PROVE  /\ \A g \in FetchFrom(t, 2), b \in Quoted : t < b /\ b < g => b \in FetchFrom(t, 2)
         /\ (\A g \in FetchFrom(t, 2) : ~(g > t)) => \A b \in Quoted : b > t => b > marked
<1> DEFINE P == {x \in Offered : x >= t}
           n == RequestCount(2)
           F == FirstN(P, n)
           B == {x \in F : x <= marked}
<1>1. P \subseteq Bars /\ n \in Nat /\ n >= 2 /\ n <= 3 /\ t \in Bars /\ t \in Nat /\ t \in P
        /\ now \in Nat /\ marked \in {now, now - 1}
  BY OfferedBars DEF RequestCount, Smaller, CacheAssumption, Offered, Bars, TypeInv, TypeOK
<1>2. F \subseteq P /\ (\A x \in P, y \in F : x <= y => x \in F)
        /\ Cardinality(F) \in Nat /\ Cardinality(F) <= 3 /\ IsFiniteSet(F)
  <2> HIDE DEF P, n
  <2>1. F \subseteq P /\ (\A x \in P, y \in F : x <= y => x \in F)
          /\ Cardinality(F) \in Nat /\ Cardinality(F) <= n
    BY <1>1, FirstPart
  <2>2. IsFiniteSet(F)
    <3> HIDE DEF F
    <3> QED
      BY <1>1, <2>1, BarSet
  <2>3. Cardinality(F) <= 3
    <3> HIDE DEF F
    <3> QED
      BY <1>1, <2>1
  <2> QED
    BY <2>1, <2>2, <2>3
<1>3. B \subseteq Bars /\ B \subseteq F /\ FetchFrom(t, 2) = LastN(B, 2) /\ LastN(B, 2) \subseteq B
  BY <1>1, <1>2 DEF FetchFrom, Closed, LastN
<1>4. ASSUME NEW g \in FetchFrom(t, 2), NEW b \in Quoted, t < b, b < g
      PROVE  b \in FetchFrom(t, 2)
  <2>1. g \in F /\ g \in Nat /\ g <= marked /\ b \in Bars /\ b \in Nat /\ g \in P
    <3>1. g \in B
      BY <1>3
    <3>2. g \in F /\ g <= marked
      BY <3>1
    <3> HIDE DEF F, P
    <3> QED
      BY <1>1, <1>2, <3>2 DEF CacheAssumption, Bars
  <2>2. b \in P /\ b <= marked
    BY <1>1, <1>4, <2>1 DEF Offered
  <2>3. b \in B /\ t \in F
    BY <1>1, <1>2, <1>4, <2>1, <2>2
  <2>4. {c \in B : c > b} \in SUBSET ((F \ {t}) \ {b}) /\ b \in F \ {t}
    BY <1>1, <1>3, <1>4, <2>1, <2>3
  <2>5. Cardinality((F \ {t}) \ {b}) <= 1 /\ Cardinality((F \ {t}) \ {b}) \in Nat
    <3>1. Cardinality(F \ {t}) = Cardinality(F) - 1 /\ IsFiniteSet(F \ {t})
      BY <1>2, <2>3, FS_RemoveElement
    <3>2. Cardinality((F \ {t}) \ {b}) = Cardinality(F \ {t}) - 1
            /\ IsFiniteSet((F \ {t}) \ {b})
      BY <2>4, <3>1, FS_RemoveElement
    <3>3. Cardinality((F \ {t}) \ {b}) \in Nat
      BY <3>2, FS_CardinalityType
    <3> HIDE DEF F
    <3> QED
      BY <1>2, <3>1, <3>2, <3>3
  <2>6. Cardinality({c \in B : c > b}) <= 1 /\ Cardinality({c \in B : c > b}) \in Nat
    <3>1. (F \ {t}) \ {b} \subseteq Bars
      BY <1>1, <1>2
    <3> HIDE DEF F, B
    <3>2. Cardinality({c \in B : c > b}) <= Cardinality((F \ {t}) \ {b})
            /\ Cardinality({c \in B : c > b}) \in Nat
      BY <2>4, <3>1, BarSet
    <3> QED
      BY <2>5, <3>2
  <2> HIDE DEF B
  <2> QED
    BY <1>3, <2>3, <2>6 DEF LastN
<1>5. ASSUME NEW b \in Quoted, b > t, ~(b > marked)
      PROVE  \E g \in FetchFrom(t, 2) : g > t
  <2> DEFINE L == {x \in P : x > t}
             m == Min(L)
             M == Max(B)
  <2>1. b \in Bars /\ b \in Nat /\ b \in P /\ b <= marked
    BY <1>1, <1>5 DEF CacheAssumption, Bars, Offered
  <2>2. m \in L /\ \A x \in L : m <= x
    <3>1. L \subseteq Bars /\ b \in L
      BY <1>1, <1>5, <2>1
    <3> HIDE DEF L
    <3> QED
      BY <3>1, BarSet, MinExists
  <2>3. m \in P /\ m > t /\ m <= b /\ m \in Nat
    BY <1>1, <1>5, <2>1, <2>2 DEF Bars
  <2> HIDE DEF m
  <2> DEFINE Q == {x \in P : x < m}
  <2>4. \A c \in Q : c \in Int /\ t <= c /\ c <= t
    <3>1. ASSUME NEW c \in P, c < m PROVE c \in Int /\ t <= c /\ c <= t
      <4>1. c \in Nat /\ t <= c
        BY <1>1, <3>1 DEF Bars
      <4>2. ~(c > t)
        BY <2>2, <2>3, <3>1, <4>1
      <4> QED
        BY <1>1, <4>1, <4>2
    <3> QED
      BY <3>1
  <2> HIDE DEF P
  <2>5. Cardinality(Q) <= 1 /\ Cardinality(Q) \in Nat
    <3>1. t \in Int /\ t < t + 1 /\ 1 \in Nat
      BY <1>1
    <3> HIDE DEF Q
    <3> QED
      BY <2>4, <3>1, SmallSet
  <2>6. m \in F
    BY <1>1, <2>3, <2>5 DEF FirstN
  <2>7. m \in B
    BY <1>1, <2>1, <2>3, <2>6
  <2>8. M \in B /\ \A x \in B : x <= M
    <3> HIDE DEF B
    <3> QED
      BY <1>3, <2>7, BarSet, MaxExists
  <2>9. M > t /\ M \in Nat
    BY <1>1, <1>3, <2>3, <2>7, <2>8 DEF Bars
  <2>10. {c \in B : c > M} = {}
    <3> HIDE DEF B, M
    <3>1. \A c \in B : c \in Nat /\ c <= M
      BY <1>3, <2>8 DEF Bars
    <3> QED
      BY <2>9, <3>1
  <2>11. M \in LastN(B, 2)
    <3> HIDE DEF B, M
    <3> QED
      BY <2>8, <2>10, FS_EmptySet DEF LastN
  <2> QED
    BY <1>3, <2>9, <2>11
<1> QED
  BY <1>4, <1>5

\* The last three bars are enough, when the newest ones were not there yet as the
\* call began.
LEMMA LastMeet ==
  ASSUME CacheAssumption, TypeInv, Near, NEW ask \in Nat, now <= ask + Drift,
         NEW t \in Nat, \A b \in Quoted : b > t => b >= ask,
         NEW done \in {marked, now}, NEW b \in Quoted, b > t, b <= done
  PROVE  b \in FetchCount(3, done)
<1> DEFINE n == RequestCount(3)
           L == LastN(Offered, n)
           B == {x \in L : x <= done}
<1>1. /\ n = Smaller(4, Cap) /\ n \in Nat /\ Drift \in Nat /\ Drift + 2 <= n /\ n <= 4
      /\ now \in Nat /\ done \in Int /\ done <= now /\ b \in Nat /\ b >= ask
  BY DEF Near, RequestCount, Smaller, CacheAssumption, TypeInv, TypeOK, Bars
<1>2. b \in Offered /\ Offered \subseteq Quoted /\ \A c \in Offered : c \in Nat /\ c <= now + 1
  BY <1>1 DEF Offered, CacheAssumption, Bars
<1> HIDE DEF n
<1>3. Cardinality({c \in Offered : c > b}) \in Nat
        /\ Cardinality({c \in Offered : c > b}) <= Drift + 1
  <2>1. \A c \in {x \in Offered : x > b} : c \in Int /\ ask + 1 <= c /\ c <= now + 1
    BY <1>1, <1>2
  <2>2. now + 1 < ask + 1 + (Drift + 1) /\ ask + 1 \in Int /\ now + 1 \in Int /\ Drift + 1 \in Nat
    BY <1>1
  <2> QED
    BY <2>1, <2>2, SmallSet
<1>4. b \in L
  BY <1>1, <1>2, <1>3 DEF LastN
<1>5. Cardinality({c \in B : c > b}) \in Nat /\ Cardinality({c \in B : c > b}) <= Drift
  <2>1. \A c \in {x \in B : x > b} : c \in Int /\ ask + 1 <= c /\ c <= now
    <3>1. L \subseteq Offered
      BY DEF LastN
    <3>2. ASSUME NEW c \in B, c > b PROVE c \in Int /\ ask + 1 <= c /\ c <= now
      <4>1. c \in Nat /\ c <= done
        BY <1>2, <3>1
      <4> QED
        BY <1>1, <3>2, <4>1
    <3> HIDE DEF B
    <3> QED
      BY <3>2
  <2>2. now < ask + 1 + Drift /\ ask + 1 \in Int /\ now \in Int
    BY <1>1
  <2> HIDE DEF B
  <2> QED
    BY <1>1, <2>1, <2>2, SmallSet
<1>6. b \in B
  BY <1>4
<1>7. FetchCount(3, done) = LastN(B, 3)
  BY DEF FetchCount, Closed, n
<1> HIDE DEF B
<1> QED
  BY <1>1, <1>5, <1>6, <1>7 DEF LastN

Over(S, n) == S \subseteq {b \in Quoted : b <= n}

\* The bars a sync is about to store meet the bar it started from, or each other
\* when it found none.
Meets(t, G) ==
  IF t = 0 THEN \A g, h \in G, b \in Quoted : g < b /\ b < h => b \in G
  ELSE \A g \in G, b \in Quoted : (g < b /\ b < t) \/ (t < b /\ b < g) => b \in G

\* A sync starts from a bar of the table; it asks for the last three only when
\* nothing newer was closed as it began.
PathOK(o, S, n, m) ==
  /\ Over(o.got, n)
  /\ o.pc # "idle" => n <= o.ask + Drift /\ o.ask <= m + 1
  /\ o.pc \in {"counted", "sync", "boot", "count", "earliest", "inc"} =>
       o.got = {} /\ o.mark = 0
  /\ o.pc = "earliest" => S # {}
  /\ o.pc \in {"to", "from", "last3"} => o.mark \in S
  /\ o.pc = "last3" => \A b \in Quoted : b > o.mark => b >= o.ask
  /\ o.pc = "upsert" => o.mark \in S \cup {0} /\ Meets(o.mark, o.got)

PathInv == Over(stored, now) /\ \A p \in Procs : PathOK(op[p], stored, now, marked)

LEMMA PathGrows ==
  ASSUME NEW o \in OpType, NEW S, NEW T, S \subseteq T, NEW n \in Nat, NEW m \in Int,
         NEW n2 \in Nat, NEW m2 \in Int, n <= n2, m <= m2,
         MaxBar \in Nat, Quoted \subseteq Nat,
         o.pc # "idle" => n2 <= o.ask + Drift, PathOK(o, S, n, m)
  PROVE  PathOK(o, T, n2, m2)
<1>1. o.ask \in Nat
  BY DEF OpType
<1>2. Over(o.got, n2)
  <2>1. \A b \in o.got : b \in Quoted /\ b \in Nat /\ b <= n
    BY DEF PathOK, Over
  <2>2. \A b \in o.got : b <= n2
    BY <2>1
  <2> QED
    BY <2>1, <2>2 DEF Over
<1>3. o.ask <= m + 1 => o.ask <= m2 + 1
  BY <1>1
<1> QED
  BY <1>2, <1>3 DEF PathOK

\* What the fetches return is quoted and closed.
LEMMA FetchedOver ==
  ASSUME CacheAssumption, TypeInv, NEW n \in Nat, NEW t, NEW done \in {marked, now}
  PROVE  Over(FetchCount(n, done), now) /\ Over(FetchTo(t, n), now)
           /\ Over(FetchFrom(t, n), now)
<1>1. now \in Nat /\ marked \in {now, now - 1} /\ Quoted \subseteq Nat
        /\ Offered \subseteq Quoted
  BY OfferedBars DEF TypeInv, TypeOK, CacheAssumption, Bars
<1>2. \A b \in Offered : (b <= done => b <= now) /\ (b <= marked => b <= now)
  BY <1>1
<1>3. /\ FetchCount(n, done) \subseteq {b \in Offered : b <= done}
      /\ FetchTo(t, n) \subseteq {b \in Offered : b < t /\ b <= marked}
      /\ FetchFrom(t, n) \subseteq {b \in Offered : b >= t /\ b <= marked}
  BY FetchTyped
<1> QED
  BY <1>1, <1>2, <1>3 DEF Over

LEMMA PathStart ==
  ASSUME CacheAssumption, TypeInv, NEW p \in Procs, Start(p)
  PROVE  PathOK(op'[p], stored, now, marked)
<1> DEFINE r == op'[p]
<1>0. /\ now \in Nat /\ marked \in {now, now - 1} /\ Drift \in Nat
  BY DEF TypeInv, TypeOK, CacheAssumption
<1>1. ASSUME NEW kind, NEW where \in {"sync", "counted", "pages"}, Fresh(r, kind, where, now)
      PROVE  PathOK(r, stored, now, marked)
  BY <1>0, <1>1 DEF Fresh, PathOK, Over
<1>2. CASE Repair(p)
  <2>1. CASE r = [Blank EXCEPT !.kind = "repair", !.ans = "yes"]
    BY <2>1 DEF Blank, PathOK, Over
  <2> QED
    BY <1>1, <1>2, <2>1, StartIs
<1> HIDE DEF r
<1>3. CASE Step(p) \/ Warm(p) \/ Ensure(p) \/ Backfill(p)
  <2>1. \E kind, where \in {"sync", "counted", "pages", "step", "warm", "ensure", "window"} :
          where \in {"sync", "counted", "pages"} /\ Fresh(r, kind, where, now)
    BY <1>3, StartIs DEF r
  <2> QED
    BY <1>1, <2>1 DEF r
<1> QED
  BY <1>2, <1>3 DEF Start, r

\* The fetches of a sync.
LEMMA PathFetch ==
  ASSUME CacheAssumption, TypeInv, Near, NEW p \in Procs, Over(stored, now),
         PathOK(op[p], stored, now, marked),
         FillEmpty(p) \/ FillBackward(p) \/ FetchNew(p) \/ FetchLast(p)
  PROVE  PathOK(op'[p], stored, now, marked)
<1> DEFINE o == op[p]
           r == op'[p]
<1>0. /\ o \in OpType /\ PathOK(o, stored, now, marked) /\ now \in Nat /\ MaxBar \in Nat
      /\ marked \in {now, now - 1} /\ stored \subseteq Bars /\ Quoted \subseteq Nat
      /\ 0 \notin stored /\ \A b \in stored : b \in Quoted /\ b <= now
      /\ Need \in Nat /\ 2 \in Nat /\ 3 \in Nat
  BY DEF TypeInv, TypeOK, CacheAssumption, Over, Bars
<1>1. o.ask \in Nat
  BY <1>0 DEF OpType
<1>2. SameCall(r, o) /\ r.mark = o.mark /\ o.pc \in {"count", "to", "from", "last3"}
        /\ r.pc \in {"upsert", "last3"}
  BY FetchIs DEF Took
<1> HIDE DEF o, r
<1>3. o.pc # "idle" /\ now <= o.ask + Drift /\ o.ask <= marked + 1
  BY <1>0, <1>2 DEF PathOK
<1>4. ASSUME Over(r.got, now), r.pc = "upsert", o.mark \in stored \cup {0},
             Meets(o.mark, r.got)
      PROVE  PathOK(r, stored, now, marked)
  BY <1>2, <1>3, <1>4 DEF PathOK, SameCall
<1>5. CASE FillEmpty(p)
  <2>1. PICK done \in {marked, now} : Took(r, o, FetchCount(Need, done))
    BY <1>5, FetchIs DEF o, r
  <2>2. o.pc = "count" /\ r.pc = "upsert" /\ o.mark = 0
    BY <1>0, <1>5, FetchIs DEF o, r, PathOK
  <2>3. r.got = FetchCount(Need, done) /\ Over(r.got, now)
    BY <1>0, <2>1, FetchedOver DEF Took
  <2>4. r.got \subseteq {b \in Offered : b <= done}
    BY <1>0, <2>3, FetchTyped
  <2>5. ASSUME NEW g \in r.got, NEW h \in r.got, NEW b \in Quoted, g < b, b < h
        PROVE  b \in r.got
    <3>1. b \in Nat /\ h \in Nat /\ h <= done /\ done \in Int
      <4>1. h \in Offered /\ h <= done
        BY <2>4
      <4>2. done \in Int
        BY <1>0
      <4>3. h \in Quoted
        BY <4>1, OfferedBars
      <4> QED
        BY <1>0, <4>1, <4>2, <4>3
    <3>2. b <= done
      BY <2>5, <3>1
    <3> QED
      BY <1>0, <2>3, <2>5, <3>2, NewestMeet
  <2>6. Meets(o.mark, r.got)
    BY <2>2, <2>5 DEF Meets
  <2> QED
    BY <1>4, <2>2, <2>3, <2>6 DEF r
<1>6. CASE FillBackward(p)
  <2>1. PICK k \in Nat : Took(r, o, {b \in FetchTo(o.mark, k) : b < o.mark})
    BY <1>6, FetchIs DEF o, r
  <2>2. o.pc = "to" /\ r.pc = "upsert" /\ o.mark \in stored
    BY <1>0, <1>6, FetchIs DEF o, r, PathOK
  <2>3. r.got = {b \in FetchTo(o.mark, k) : b < o.mark} /\ Over(FetchTo(o.mark, k), now)
    BY <1>0, <2>1, FetchedOver DEF Took
  <2>4. Over(r.got, now)
    BY <2>3 DEF Over
  <2>5. o.mark \in Bars /\ o.mark <= now /\ o.mark \in Nat /\ o.mark # 0
    BY <1>0, <2>2 DEF Bars
  <2>6. ASSUME NEW g \in r.got, NEW b \in Quoted, (g < b /\ b < o.mark) \/ (o.mark < b /\ b < g)
        PROVE  b \in r.got
    <3>1. g \in FetchTo(o.mark, k) /\ g < o.mark /\ g \in Nat /\ b \in Nat
      BY <1>0, <2>3, <2>4 DEF Over
    <3>2. g < b /\ b < o.mark
      BY <2>5, <2>6, <3>1
    <3>3. b \in FetchTo(o.mark, k)
      BY <2>1, <2>5, <3>1, <3>2, OlderMeet
    <3> QED
      BY <2>3, <3>2, <3>3
  <2>7. Meets(o.mark, r.got)
    BY <2>5, <2>6 DEF Meets
  <2> QED
    BY <1>4, <2>2, <2>4, <2>7 DEF r
<1>7. CASE FetchNew(p)
  <2>1. /\ o.pc = "from" /\ Took(r, o, {b \in FetchFrom(o.mark, 2) : b > o.mark})
        /\ (r.pc = "upsert" \/ (r.pc = "last3" /\ r.got = {}))
    BY <1>7, FetchIs DEF o, r
  <2>2. o.mark \in stored
    BY <1>0, <2>1 DEF PathOK
  <2>3. o.mark \in Quoted /\ o.mark <= now /\ o.mark \in Nat /\ o.mark # 0
    BY <1>0, <2>2
  <2>4. r.got = {b \in FetchFrom(o.mark, 2) : b > o.mark} /\ Over(FetchFrom(o.mark, 2), now)
    BY <1>0, <2>1, FetchedOver DEF Took
  <2>5. Over(r.got, now)
    BY <2>4 DEF Over
  <2>6. ASSUME NEW g \in r.got, NEW b \in Quoted, (g < b /\ b < o.mark) \/ (o.mark < b /\ b < g)
        PROVE  b \in r.got
    <3>1. g \in FetchFrom(o.mark, 2) /\ g > o.mark /\ g \in Nat /\ b \in Nat
      BY <1>0, <2>4, <2>5 DEF Over
    <3>2. o.mark < b /\ b < g
      BY <2>3, <2>6, <3>1
    <3>3. b \in FetchFrom(o.mark, 2)
      BY <2>3, <3>1, <3>2, NewerMeet
    <3> QED
      BY <2>3, <2>4, <3>1, <3>2, <3>3
  <2>7. Meets(o.mark, r.got)
    BY <2>3, <2>6 DEF Meets
  <2>8. ASSUME r.got = {}, NEW b \in Quoted, b > o.mark PROVE b >= o.ask
    <3>1. \A g \in FetchFrom(o.mark, 2) : ~(g > o.mark)
      BY <2>4, <2>8
    <3>2. b > marked /\ b \in Nat
      BY <1>0, <2>3, <2>8, <3>1, NewerMeet
    <3> QED
      BY <1>0, <1>1, <1>3, <3>2
  <2>9. CASE r.pc = "upsert"
    BY <1>4, <2>2, <2>5, <2>7, <2>9 DEF r
  <2>10. CASE r.pc = "last3" /\ r.got = {}
    BY <1>2, <1>3, <2>2, <2>5, <2>8, <2>10 DEF PathOK, SameCall, r
  <2> QED
    BY <2>1, <2>9, <2>10
<1>8. CASE FetchLast(p)
  <2>1. PICK done \in {marked, now} :
          Took(r, o, {b \in FetchCount(3, done) : b > o.mark})
    BY <1>8, FetchIs DEF o, r
  <2>2. o.pc = "last3" /\ r.pc = "upsert"
    BY <1>8, FetchIs DEF o, r
  <2>3. o.mark \in stored /\ \A b \in Quoted : b > o.mark => b >= o.ask
    BY <1>0, <2>2 DEF PathOK
  <2>4. r.got = {b \in FetchCount(3, done) : b > o.mark} /\ Over(FetchCount(3, done), now)
    BY <1>0, <2>1, FetchedOver DEF Took
  <2>5. Over(r.got, now) /\ o.mark \in Nat /\ o.mark # 0
    BY <1>0, <2>3, <2>4 DEF Over
  <2>6. ASSUME NEW g \in r.got, NEW b \in Quoted, (g < b /\ b < o.mark) \/ (o.mark < b /\ b < g)
        PROVE  b \in r.got
    <3>1. g \in FetchCount(3, done) /\ g > o.mark /\ g \in Nat /\ b \in Nat
      BY <1>0, <2>4, <2>5 DEF Over
    <3>2. o.mark < b /\ b < g
      BY <2>5, <2>6, <3>1
    <3>3. g <= done /\ done \in Int
      BY <1>0, <3>1, FetchTyped
    <3>4. b <= done
      BY <3>1, <3>2, <3>3
    <3>5. b \in FetchCount(3, done)
      BY <1>1, <1>3, <2>3, <2>5, <3>2, <3>4, LastMeet
    <3> QED
      BY <2>4, <2>5, <3>1, <3>2, <3>5
  <2>7. Meets(o.mark, r.got)
    BY <2>5, <2>6 DEF Meets
  <2> QED
    BY <1>4, <2>2, <2>3, <2>5, <2>7 DEF r
<1> QED
  BY <1>5, <1>6, <1>7, <1>8 DEF r

\* The other steps of a call.
LEMMA PathMoves ==
  ASSUME CacheAssumption, TypeInv, Near, NEW p \in Procs, Over(stored, now),
         PathOK(op[p], stored, now, marked), Moves(p)
  PROVE  PathOK(op'[p], stored', now, marked) /\ Over(stored', now)
<1> DEFINE o == op[p]
           r == op'[p]
<1>0. /\ o \in OpType /\ r \in OpType /\ PathOK(o, stored, now, marked)
      /\ stored \subseteq Bars /\ now \in Nat /\ marked \in Int /\ MaxBar \in Nat
      /\ Quoted \subseteq Nat
  BY MoveTyped DEF TypeInv, TypeOK, CacheAssumption, Bars
<1>1. Over(o.got, now) /\ Over({}, now)
  BY <1>0 DEF PathOK, Over
<1>2. Over(stored', now) /\ stored \subseteq stored'
  BY <1>1, MoveFrame DEF Over
<1>3. ASSUME PathOK(r, stored, now, marked) PROVE PathOK(r, stored', now, marked)
  <2>1. r.pc # "idle" => now <= r.ask + Drift
    BY <1>3 DEF PathOK
  <2>2. now <= now /\ marked <= marked
    BY <1>0
  <2> HIDE DEF r
  <2> QED
    BY <1>0, <1>2, <1>3, <2>1, <2>2, PathGrows
<1> SUFFICES PathOK(r, stored, now, marked)
  BY <1>2, <1>3
<1> USE DEF PathOK
<1>4. CASE Start(p)
  BY <1>4, PathStart
<1>5. CASE FillEmpty(p) \/ FillBackward(p) \/ FetchNew(p) \/ FetchLast(p)
  BY <1>5, PathFetch
<1>6. CASE EnsureComplete(p) \/ Sync(p) \/ Bootstrap(p)
  BY <1>0, <1>1, <1>6, ChoiceIs DEF Unmoved, SameCall, Returned
<1>7. CASE Earliest(p)
  <2>1. o.pc = "earliest" /\ r.pc = "to" /\ SameCall(r, o) /\ r.mark = Oldest(stored)
          /\ r.got = o.got
    BY <1>7, ChoiceIs
  <2>2. Oldest(stored) \in stored
    BY <1>0, <2>1, Ends
  <2> HIDE DEF o, r
  <2> QED
    BY <1>0, <1>1, <2>1, <2>2 DEF SameCall
<1>8. CASE Incremental(p)
  <2>1. /\ o.pc = "inc" /\ r.pc = (IF stored = {} THEN "upsert" ELSE "from")
        /\ SameCall(r, o) /\ r.mark = Latest(stored) /\ r.got = o.got
    BY <1>8, ChoiceIs
  <2>2. stored # {} => Latest(stored) \in stored
    BY <1>0, Ends
  <2>3. stored = {} => Latest(stored) = 0
    BY DEF Latest
  <2> HIDE DEF o, r
  <2> QED
    BY <1>0, <1>1, <2>1, <2>2, <2>3 DEF SameCall, Meets
<1>9. CASE Page(p)
  <2>1. /\ o.pc = "pages" /\ SameCall(r, o) /\ r.pc \in {"keep", "pages"}
        /\ \E S \in SUBSET FetchFrom(o.cursor, ChunkSize) : r.got = o.got \cup S
    BY <1>9, PageIs
  <2>2. Over(FetchFrom(o.cursor, ChunkSize), now)
    BY FetchedOver DEF CacheAssumption
  <2> HIDE DEF o, r
  <2>3. Over(r.got, now)
    BY <1>1, <2>1, <2>2 DEF Over
  <2> QED
    BY <1>0, <2>1, <2>3 DEF SameCall
<1>10. CASE KeepMissing(p) \/ KeepWindow(p)
  BY <1>0, <1>1, <1>10, KeepIs DEF SameCall, Returned
<1>11. CASE Upsert(p) \/ Check(p) \/ ReadLatest(p) \/ Mark(p) \/ FetchFails(p)
  BY <1>0, <1>1, <1>11, EndIs DEF Unmoved, SameCall, Returned
<1> QED
  BY <1>4, <1>5, <1>6, <1>7, <1>8, <1>9, <1>10, <1>11 DEF Moves, Continue

LEMMA PathNext ==
  ASSUME CacheAssumption, TypeInv, Near, PathInv, [Next]_vars
  PROVE  PathInv'
<1>0. /\ MaxBar \in Nat /\ marked \in Int /\ now \in Nat /\ marked <= now
      /\ Quoted \subseteq Nat /\ Drift \in Nat
      /\ \A q \in Procs : op[q] \in OpType
  BY DEF TypeInv, TypeOK, CacheAssumption, Bars
<1>1. ASSUME NEW p \in Procs, Moves(p) PROVE PathInv'
  <2>1. UNCHANGED <<now, marked>> /\ Over(stored, now) /\ PathOK(op[p], stored, now, marked)
    BY <1>1, MoveFrame DEF PathInv
  <2>2. PathOK(op'[p], stored', now, marked) /\ Over(stored', now)
    BY <1>1, <2>1, PathMoves
  <2>3. ASSUME NEW q \in Procs, q # p PROVE PathOK(op'[q], stored', now, marked)
    <3>1. op'[q] = op[q] /\ stored \subseteq stored'
      BY <1>1, <2>3, MoveTyped, Grows
    <3>2. PathOK(op[q], stored, now, marked)
      BY DEF PathInv
    <3>3. op[q].pc # "idle" => now <= op[q].ask + Drift
      BY <3>2 DEF PathOK
    <3>4. now <= now /\ marked <= marked
      BY <1>0
    <3>5. PathOK(op[q], stored', now, marked)
      BY <1>0, <3>1, <3>2, <3>3, <3>4, PathGrows
    <3> QED
      BY <3>1, <3>5
  <2>4. \A q \in Procs : PathOK(op'[q], stored', now', marked')
    BY <2>1, <2>2, <2>3
  <2> QED
    BY <2>1, <2>2, <2>4 DEF PathInv
<1>2. ASSUME UNCHANGED <<stored, op>>, now' \in Nat, now <= now', marked' \in Int,
             marked <= marked',
             \A q \in Procs : op[q].pc # "idle" => now' <= op[q].ask + Drift
      PROVE  PathInv'
  <2>1. ASSUME NEW q \in Procs PROVE PathOK(op[q], stored, now', marked')
    <3>1. PathOK(op[q], stored, now, marked) /\ stored \subseteq stored
      BY DEF PathInv
    <3>2. op[q].pc # "idle" => now' <= op[q].ask + Drift
      BY <1>2
    <3> QED
      BY <1>0, <1>2, <3>1, <3>2, PathGrows
  <2>2. Over(stored, now')
    <3>1. \A b \in stored : b \in Quoted /\ b <= now
      BY DEF PathInv, Over
    <3>2. ASSUME NEW b \in stored PROVE b \in Nat /\ b <= now'
      <4>1. b \in Nat /\ b <= now
        BY <1>0, <3>1
      <4> DEFINE n == now'
      <4>2. n \in Nat /\ now <= n
        BY <1>2
      <4> HIDE DEF n
      <4>3. b <= n
        BY <1>0, <4>1, <4>2
      <4> QED
        BY <4>1, <4>3 DEF n
    <3> QED
      BY <3>1, <3>2 DEF Over
  <2> QED
    BY <1>2, <2>1, <2>2 DEF PathInv
<1>3. CASE Tick
  <2>1. \A q \in Procs : op[q].pc # "idle" => now + 1 <= op[q].ask + Drift
    <3>1. ASSUME NEW q \in Procs, op[q].pc # "idle" PROVE now + 1 <= op[q].ask + Drift
      <4>1. now < op[q].ask + Drift /\ op[q].ask \in Nat
        BY <1>0, <1>3, <3>1 DEF Tick, Idle, OpType
      <4> QED
        BY <1>0, <4>1
    <3> QED
      BY <3>1
  <2> QED
    BY <1>0, <1>2, <1>3, <2>1 DEF Tick
<1>4. CASE Complete
  <2>1. \A q \in Procs : op[q].pc # "idle" => now <= op[q].ask + Drift
    BY DEF PathInv, PathOK
  <2> QED
    BY <1>0, <1>2, <1>4, <2>1 DEF Complete
<1>5. CASE UNCHANGED vars
  BY <1>5 DEF PathInv, vars
<1> QED
  BY <1>1, <1>3, <1>4, <1>5 DEF Next, Moves

LEMMA InitPath == ASSUME CacheAssumption, Init PROVE PathInv
<1>1. \A p \in Procs : op[p] = Blank
  BY DEF Init
<1>2. PathOK(Blank, stored, now, marked)
  BY DEF Blank, PathOK, Over
<1>3. Over(stored, now)
  BY DEF Init, Over
<1> QED
  BY <1>1, <1>2, <1>3 DEF PathInv

\* An upsert whose bars meet the bar it started from makes no new hole.
LEMMA UpsertMeets ==
  ASSUME CacheAssumption, TypeInv, PathInv, NEW p \in Procs, Upsert(p),
         op[p].mark # 0 \/ stored = {}
  PROVE  Holes' \subseteq Holes
<1> DEFINE G == op[p].got
           t == op[p].mark
           S == stored
           T == stored \cup op[p].got
<1>1. /\ stored' = T /\ S \subseteq Bars /\ G \subseteq Bars /\ t \in 0..MaxBar
      /\ t \in S \cup {0} /\ Meets(t, G) /\ Quoted \subseteq Nat /\ Bars \subseteq Nat
  <2>1. stored' = T /\ op[p].pc = "upsert"
    BY DEF Upsert
  <2> QED
    BY <2>1 DEF PathInv, PathOK, TypeInv, TypeOK, OpType, CacheAssumption, Bars
<1>2. T \subseteq Bars
  BY <1>1
<1> HIDE DEF G, t
<1>3. SUFFICES ASSUME NEW b \in Quoted \ T, NEW c \in T, c < b, b < Latest(T)
               PROVE  b \in Holes
  BY <1>1 DEF Holes
<1> DEFINE m == Latest(T)
<1>4. m \in T /\ m \in Nat /\ b \in Nat /\ c \in Nat /\ b < m
  BY <1>1, <1>2, <1>3, Ends
<1> HIDE DEF m
<1>5. CASE t = 0
  <2>1. T = G
    BY <1>5 DEF t, G
  <2> QED
    BY <1>1, <1>3, <1>4, <1>5, <2>1 DEF Meets
<1>6. CASE t # 0
  <2>1. t \in S /\ t \in Nat /\ S # {} /\ b # t
    BY <1>1, <1>3, <1>6
  <2>2. Latest(S) \in Nat /\ \A x \in S : x <= Latest(S)
    BY <1>1, <2>1, Ends
  <2>3. \A g \in G : ~((g < b /\ b < t) \/ (t < b /\ b < g))
    BY <1>1, <1>3, <1>6 DEF Meets, G
  <2>4. \E x \in S : x < b
    <3>1. CASE t < b
      BY <2>1, <3>1
    <3>2. CASE b < t
      BY <1>3, <2>3, <3>2 DEF G
    <3> QED
      BY <1>4, <2>1, <3>1, <3>2
  <2>5. b < Latest(S)
    <3>1. CASE b < t
      BY <1>4, <2>1, <2>2, <3>1
    <3>2. CASE t < b
      <4>1. m \in S
        BY <1>4, <2>3, <3>2 DEF G
      <4>2. m <= Latest(S)
        BY <2>2, <4>1
      <4> QED
        BY <1>4, <2>2, <4>2
    <3> QED
      BY <1>4, <2>1, <3>1, <3>2
  <2> QED
    BY <1>3, <2>4, <2>5 DEF Holes
<1> QED
  BY <1>5, <1>6

\* No sync tears the series that it found: what it adds meets the bar it started
\* from, whatever others stored since it looked, when no more than two bars
\* close while a call runs.
THEOREM NeverTorn == ASSUME Near PROVE Spec => NotTorn
<1>1. Init => TypeInv /\ PathInv
  BY InitType, InitPath, CacheAssumption
<1>2. TypeInv /\ PathInv /\ [Next]_vars => TypeInv' /\ PathInv'
  BY NextType, PathNext, CacheAssumption
<1>3. TypeInv /\ PathInv /\ [Next]_vars =>
        [(\E p \in Procs : Upsert(p) /\ (op[p].mark # 0 \/ stored = {}))
           => Holes' \subseteq Holes]_vars
  BY UpsertMeets, CacheAssumption
<1> QED
  BY <1>1, <1>2, <1>3, PTL DEF Spec, NotTorn
=============================================================================
