-------------------------- MODULE TimeSlotsProofs --------------------------
(***************************************************************************)
(* Theorems about the operators of TimeSlots, for cells of every length.   *)
(*                                                                         *)
(* int() and the removal of characters are recursive functions.  What they *)
(* return is shown by induction over a set of numbers: unlike the library's*)
(* induction theorems, LeastNat and CountUp take no operator.              *)
(***************************************************************************)
EXTENDS TimeSlots, FiniteSetTheorems, WellFoundedInduction, TLAPS

(* A non-empty set of natural numbers has a least one. *)
LEMMA LeastNat ==
  ASSUME NEW B \in SUBSET Nat, B # {}
  PROVE  \E m \in B : \A n \in B : m <= n
<1> DEFINE T == {0 .. n : n \in B}
<1>1. \A n \in B : IsFiniteSet(0 .. n)
  <2> TAKE n \in B
  <2>1. n \in Int
    OBVIOUS
  <2> QED BY <2>1, FS_Interval
<1>2. T \subseteq FiniteSubsetsOf(Nat)
  BY <1>1, SMT DEF FiniteSubsetsOf
<1>3. PICK x \in T : \A y \in T : <<y, x>> \notin StrictSubsetOrdering(Nat)
  <2>1. IsWellFoundedOn(StrictSubsetOrdering(Nat), FiniteSubsetsOf(Nat))
    BY FS_StrictSubsetOrderingWellFounded
  <2>2. T # {}
    OBVIOUS
  <2> HIDE DEF T
  <2> QED BY <2>1, <2>2, <1>2, WFMin
<1>4. PICK m \in B : x = 0 .. m
  OBVIOUS
<1>5. ASSUME NEW n \in B, n < m PROVE FALSE
  <2>1. 0 .. n \in T
    OBVIOUS
  <2>2. 0 .. n \subseteq 0 .. m /\ m \in 0 .. m /\ m \notin 0 .. n
    BY <1>5, SMT
  <2>3. 0 .. n \in SUBSET Nat /\ 0 .. m \in SUBSET Nat
    OBVIOUS
  <2>4. <<0 .. n, 0 .. m>> \in StrictSubsetOrdering(Nat)
    BY <2>2, <2>3, Zenon DEF StrictSubsetOrdering
  <2> QED BY <2>1, <2>4, <1>3, <1>4
<1> QED BY <1>5

(* Induction up to N, in the form that needs no operator.                   *)
LEMMA CountUp ==
  ASSUME NEW N \in Nat, NEW T, 0 \in T,
         \A i \in 1 .. N : i - 1 \in T => i \in T
  PROVE  0 .. N \subseteq T
<1> DEFINE B == (0 .. N) \ T
<1>1. SUFFICES ASSUME B # {} PROVE FALSE
  OBVIOUS
<1>2. B \subseteq Nat
  OBVIOUS
<1>3. PICK m \in B : \A n \in B : m <= n
  <2> HIDE DEF B
  <2> QED BY <1>1, <1>2, LeastNat
<1>4. m \in 1 .. N /\ m - 1 \in 0 .. N /\ m - 1 < m
  OBVIOUS
<1>5. m - 1 \in T
  BY <1>3, <1>4
<1> QED BY <1>4, <1>5

(* A function whose value at each place is a step from the one before.      *)
Follows(f, n, step) == \A i \in 1 .. n : f[i] = step[i][f[i - 1]]

LEMMA Recursion ==
  ASSUME NEW S, NEW N \in Nat, NEW a \in S, NEW step \in [1 .. N -> [S -> S]]
  PROVE  \E f \in [0 .. N -> S] : f[0] = a /\ Follows(f, N, step)
<1> DEFINE T == {n \in 0 .. N : \E f \in [0 .. n -> S] :
                                  f[0] = a /\ Follows(f, n, step)}
<1>1. 0 \in T
  <2> DEFINE f == [i \in 0 .. 0 |-> a]
  <2>1. f \in [0 .. 0 -> S] /\ f[0] = a /\ Follows(f, 0, step)
    BY DEF Follows
  <2> HIDE DEF f
  <2> QED BY <2>1
<1>2. ASSUME NEW n \in 1 .. N, n - 1 \in T PROVE n \in T
  <2>1. PICK f \in [0 .. n - 1 -> S] : f[0] = a /\ Follows(f, n - 1, step)
    BY <1>2
  <2> DEFINE h == [i \in 0 .. n |-> IF i = n THEN step[n][f[n - 1]] ELSE f[i]]
  <2>2. f[n - 1] \in S /\ step[n][f[n - 1]] \in S
    BY <2>1
  <2>3. h \in [0 .. n -> S] /\ h[0] = a
    BY <2>1, <2>2
  <2>4. ASSUME NEW i \in 1 .. n PROVE h[i] = step[i][h[i - 1]]
    <3>1. CASE i = n
      BY <3>1
    <3>2. CASE i # n
      <4>1. i \in 1 .. n - 1 /\ i - 1 \in 0 .. n /\ i - 1 # n
        BY <3>2
      <4> QED BY <2>1, <3>2, <4>1 DEF Follows
    <3> QED BY <3>1, <3>2
  <2>5. Follows(h, n, step)
    <3> HIDE DEF h
    <3> QED BY <2>4 DEF Follows
  <2> HIDE DEF h
  <2> QED BY <2>3, <2>5
<1>3. N \in T
  <2>1. 0 .. N \subseteq T
    <3> HIDE DEF T
    <3> QED BY <1>1, <1>2, CountUp
  <2> QED BY <2>1
<1> QED BY <1>3

-----------------------------------------------------------------------------
(* int() of digits is a natural number: the recursion has a value at every  *)
(* length, and every value is a natural number.                             *)
LEMMA ValueIsNat ==
  ASSUME NEW s \in Seq(Nat)
  PROVE  Value(s) \in Nat
<1> DEFINE N == Len(s)
           Reads(f) == f = [i \in 0 .. N |-> IF i = 0 THEN 0 ELSE 10 * f[i - 1] + s[i]]
           value == CHOOSE f : Reads(f)
           step == [i \in 1 .. N |-> [x \in Nat |-> 10 * x + s[i]]]
<1>1. N \in Nat /\ \A i \in 1 .. N : s[i] \in Nat
  OBVIOUS
<1>2. step \in [1 .. N -> [Nat -> Nat]]
  BY <1>1
<1>3. Value(s) = value[N]
  BY DEF Value
<1>4. \E f : Reads(f)
  <2>1. PICK f \in [0 .. N -> Nat] : f[0] = 0 /\ Follows(f, N, step)
    <3> HIDE DEF step
    <3> QED BY <1>1, <1>2, Recursion
  <2>2. ASSUME NEW i \in 1 .. N PROVE f[i] = 10 * f[i - 1] + s[i]
    <3>1. f[i - 1] \in Nat
      <4>1. i - 1 \in 0 .. N
        BY <1>1
      <4> QED BY <2>1, <4>1, Zenon
    <3>2. f[i] = step[i][f[i - 1]]
      BY <2>1 DEF Follows
    <3> QED BY <3>1, <3>2
  <2>3. Reads(f)
    <3>1. f = [i \in 0 .. N |-> f[i]]
      BY <2>1
    <3>2. \A i \in 0 .. N : f[i] = IF i = 0 THEN 0 ELSE 10 * f[i - 1] + s[i]
      BY <1>1, <2>1, <2>2
    <3> QED BY <3>1, <3>2, Zenon
  <2> QED BY <2>3
<1>5. Reads(value)
  <2> HIDE DEF Reads
  <2> QED BY <1>4, Zenon
<1> HIDE DEF value
<1>6. value[0] = 0 /\ \A i \in 1 .. N : value[i] = 10 * value[i - 1] + s[i]
  <2>1. \A i \in 0 .. N : value[i] = IF i = 0 THEN 0 ELSE 10 * value[i - 1] + s[i]
    BY <1>5, Zenon
  <2> QED BY <1>1, <2>1
<1> DEFINE T == {n \in 0 .. N : value[n] \in Nat}
<1>7. 0 \in T
  BY <1>1, <1>6
<1>8. ASSUME NEW i \in 1 .. N, i - 1 \in T PROVE i \in T
  BY <1>1, <1>6, <1>8
<1>9. N \in T
  <2>1. 0 .. N \subseteq T
    <3> HIDE DEF T, N
    <3> QED BY <1>1, <1>7, <1>8, CountUp
  <2> QED BY <1>1, <2>1
<1> QED BY <1>3, <1>9

(* What is left of a cell without some characters is a cell.                *)
LEMMA WithoutIsCell ==
  ASSUME NEW s \in Seq(Int), NEW C
  PROVE  Without(s, C) \in Seq(Int)
<1> DEFINE N == Len(s)
           Keep(t, i) == IF s[i] \in C THEN t ELSE Append(t, s[i])
           Reads(f) == f = [i \in 0 .. N |-> IF i = 0 THEN <<>> ELSE Keep(f[i - 1], i)]
           kept == CHOOSE f : Reads(f)
           step == [i \in 1 .. N |-> [t \in Seq(Int) |-> Keep(t, i)]]
<1>1. N \in Nat /\ \A i \in 1 .. N : s[i] \in Int
  OBVIOUS
<1>2. \A t \in Seq(Int), i \in 1 .. N : Keep(t, i) \in Seq(Int)
  BY <1>1
<1>3. Without(s, C) = kept[N]
  BY DEF Without
<1> HIDE DEF Keep
<1>4. step \in [1 .. N -> [Seq(Int) -> Seq(Int)]]
  BY <1>2
<1>5. \E f : Reads(f)
  <2>1. PICK f \in [0 .. N -> Seq(Int)] : f[0] = <<>> /\ Follows(f, N, step)
    <3>1. <<>> \in Seq(Int)
      OBVIOUS
    <3> HIDE DEF step
    <3> QED BY <1>1, <1>4, <3>1, Recursion
  <2>2. ASSUME NEW i \in 1 .. N PROVE f[i] = Keep(f[i - 1], i)
    <3>1. f[i - 1] \in Seq(Int)
      <4>1. i - 1 \in 0 .. N
        BY <1>1
      <4> QED BY <2>1, <4>1, Zenon
    <3>2. f[i] = step[i][f[i - 1]]
      BY <2>1 DEF Follows
    <3> QED BY <3>1, <3>2
  <2>3. Reads(f)
    <3>1. f = [i \in 0 .. N |-> f[i]]
      BY <2>1
    <3>2. \A i \in 0 .. N : f[i] = IF i = 0 THEN <<>> ELSE Keep(f[i - 1], i)
      BY <1>1, <2>1, <2>2
    <3> QED BY <3>1, <3>2, Zenon
  <2> QED BY <2>3
<1>6. Reads(kept)
  <2> HIDE DEF Reads
  <2> QED BY <1>5, Zenon
<1> HIDE DEF kept
<1>7. kept[0] = <<>> /\ \A i \in 1 .. N : kept[i] = Keep(kept[i - 1], i)
  <2>1. \A i \in 0 .. N : kept[i] = IF i = 0 THEN <<>> ELSE Keep(kept[i - 1], i)
    BY <1>6, Zenon
  <2> QED BY <1>1, <2>1
<1> DEFINE T == {n \in 0 .. N : kept[n] \in Seq(Int)}
<1>8. 0 \in T
  <2>1. <<>> \in Seq(Int)
    OBVIOUS
  <2>2. kept[0] \in Seq(Int)
    BY <1>7, <2>1, Zenon
  <2>3. 0 \in 0 .. N
    BY <1>1
  <2> QED BY <2>2, <2>3, Zenon
<1>9. ASSUME NEW i \in 1 .. N, i - 1 \in T PROVE i \in T
  BY <1>1, <1>2, <1>7, <1>9
<1>10. N \in T
  <2>1. 0 .. N \subseteq T
    <3> HIDE DEF T, N
    <3> QED BY <1>1, <1>8, <1>9, CountUp
  <2> QED BY <1>1, <2>1
<1> QED BY <1>3, <1>10
-----------------------------------------------------------------------------
LEMMA SubSeqIsSeq ==
  ASSUME NEW S, NEW s \in Seq(S), NEW m \in Nat \ {0}, NEW n \in Int, n <= Len(s)
  PROVE  SubSeq(s, m, n) \in Seq(S)
  OBVIOUS

LEMMA NumberIsNat ==
  ASSUME NEW s \in Seq(Int), IsNumber(s)
  PROVE  Value(s) \in Nat
<1>1. s \in Seq(Nat)
  <2>1. \A i \in 1 .. Len(s) : s[i] \in Nat
    BY DEF IsNumber
  <2> QED BY <2>1
<1> QED BY <1>1, ValueIsNat

(* What _parse_int_range accepts lies within the bounds it is given. *)
LEMMA IntRangeBounded ==
  ASSUME NEW s \in Seq(Int), NEW lo \in Int, NEW hi \in Int
  PROVE  IntRange(s, lo, hi) \subseteq lo .. hi
<1> DEFINE dashes == {i \in DOMAIN s : s[i] = Dash}
           i == CHOOSE k \in dashes : TRUE
           a == SubSeq(s, 1, i - 1)
           b == SubSeq(s, i + 1, Len(s))
<1>1. CASE IsNumber(s)
  BY <1>1 DEF IntRange
<1>2. CASE /\ ~IsNumber(s) /\ dashes # {} /\ IsNumber(a) /\ IsNumber(b)
           /\ ~(Value(a) < lo) /\ ~(Value(b) > hi)
  <2>1. i \in 1 .. Len(s)
    BY <1>2
  <2> HIDE DEF i
  <2>2. a \in Seq(Int) /\ b \in Seq(Int)
    BY <2>1, SubSeqIsSeq
  <2>3. Value(a) \in Nat /\ Value(b) \in Nat
    BY <1>2, <2>2, NumberIsNat
  <2>4. Value(a) .. Value(b) \subseteq lo .. hi
    BY <1>2, <2>3
  <2>5. IntRange(s, lo, hi) = Value(a) .. Value(b)
    BY <1>2 DEF IntRange, i
  <2> QED BY <2>4, <2>5
<1>3. CASE /\ ~IsNumber(s)
           /\ ~ (/\ dashes # {} /\ IsNumber(a) /\ IsNumber(b)
                 /\ ~(Value(a) < lo) /\ ~(Value(b) > hi))
  BY <1>3 DEF IntRange
<1> QED BY <1>1, <1>2, <1>3

LEMMA EndsShort ==
  ASSUME NEW s \in Seq(Int), NEW t \in Seq(Int), Ends(s, t)
  PROVE  Shortened(s, Len(t)) \in Seq(Int)
<1>1. Len(t) \in Nat /\ Len(t) <= Len(s)
  BY DEF Ends
<1> QED BY <1>1, SubSeqIsSeq DEF Shortened

(* The core of a segment is a cell again. *)
LEMMA CoreIsCell ==
  ASSUME NEW s \in Seq(Int)
  PROVE  Core(s) \in Seq(Int)
<1> DEFINE unmarked == Shortened(s, Mark(s).length)
           bare == IF unmarked # <<>> /\ Head(unmarked) = Di
                   THEN Tail(unmarked) ELSE unmarked
<1> USE DEF Dan, Shuang, Zhou
<1>1. unmarked \in Seq(Int)
  <2>1. /\ <<Dan, Zhou>> \in Seq(Int) /\ Len(<<Dan, Zhou>>) = 2
        /\ <<Shuang, Zhou>> \in Seq(Int) /\ Len(<<Shuang, Zhou>>) = 2
        /\ <<Dan>> \in Seq(Int) /\ Len(<<Dan>>) = 1
        /\ <<Shuang>> \in Seq(Int) /\ Len(<<Shuang>>) = 1
    OBVIOUS
  <2>2. Shortened(s, 0) \in Seq(Int)
    BY SubSeqIsSeq DEF Shortened
  <2>3. /\ Ends(s, <<Dan, Zhou>>) => Shortened(s, 2) \in Seq(Int)
        /\ Ends(s, <<Shuang, Zhou>>) => Shortened(s, 2) \in Seq(Int)
        /\ Ends(s, <<Dan>>) => Shortened(s, 1) \in Seq(Int)
        /\ Ends(s, <<Shuang>>) => Shortened(s, 1) \in Seq(Int)
    <3> HIDE DEF Dan, Shuang, Zhou
    <3> QED BY <2>1, EndsShort
  <2>4. \/ Mark(s).length = 0
        \/ Mark(s).length = 2 /\ (Ends(s, <<Dan, Zhou>>) \/ Ends(s, <<Shuang, Zhou>>))
        \/ Mark(s).length = 1 /\ (Ends(s, <<Dan>>) \/ Ends(s, <<Shuang>>))
    BY DEF Mark
  <2> QED BY <2>2, <2>3, <2>4
<1> HIDE DEF unmarked
<1>2. bare \in Seq(Int)
  BY <1>1
<1> HIDE DEF bare
<1>3. <<Zhou>> \in Seq(Int) /\ Len(<<Zhou>>) = 1
  OBVIOUS
<1>4. Ends(bare, <<Zhou>>) => Shortened(bare, 1) \in Seq(Int)
  BY <1>2, <1>3, EndsShort
<1>5. Core(s) = IF Ends(bare, <<Zhou>>) THEN Shortened(bare, 1) ELSE bare
  BY DEF Core, bare, unmarked
<1> QED BY <1>2, <1>4, <1>5

(* The pieces between the commas of a cell are cells. *)
LEMMA SegmentsAreCells ==
  ASSUME NEW s \in Seq(Int)
  PROVE  Segments(s) \subseteq Seq(Int)
<1> DEFINE cuts == {0, Len(s) + 1} \cup {i \in DOMAIN s : s[i] = Comma}
           After(i) == CHOOSE j \in cuts : j > i /\ \A k \in cuts : k > i => k >= j
<1>1. Len(s) \in Nat /\ cuts \subseteq 0 .. Len(s) + 1
  OBVIOUS
<1> HIDE DEF cuts
<1>2. ASSUME NEW i \in cuts, i # Len(s) + 1
      PROVE  After(i) \in cuts
  <2> DEFINE B == {j \in cuts : j > i}
  <2>1. B \subseteq Nat /\ Len(s) + 1 \in B
    BY <1>1, <1>2 DEF cuts
  <2>2. PICK j \in B : \A k \in B : j <= k
    <3> HIDE DEF B
    <3> QED BY <2>1, LeastNat
  <2>3. \E q \in cuts : q > i /\ \A k \in cuts : k > i => k >= q
    BY <1>1, <2>2
  <2> QED BY <2>3, Zenon
<1>3. ASSUME NEW i \in cuts, i # Len(s) + 1
      PROVE  SubSeq(s, i + 1, After(i) - 1) \in Seq(Int)
  <2>1. After(i) \in 0 .. Len(s) + 1
    BY <1>1, <1>2, <1>3
  <2> HIDE DEF After
  <2> QED BY <1>1, <2>1, SubSeqIsSeq
<1> QED BY <1>3 DEF Segments, cuts

(* parse_weeks reads no week outside 1 .. total. *)
LEMMA WeeksBounded ==
  ASSUME NEW s \in Seq(Int), NEW total \in Int
  PROVE  ParseWeeks(s, total) \subseteq 1 .. total
<1>1. ASSUME NEW seg \in Segments(s)
      PROVE  SegmentWeeks(seg, total) \subseteq 1 .. total
  <2>1. Core(seg) \in Seq(Int)
    BY SegmentsAreCells, CoreIsCell
  <2> QED BY <2>1, IntRangeBounded DEF SegmentWeeks
<1> QED BY <1>1 DEF ParseWeeks, Together
=============================================================================
