-------------------------- MODULE CellReaderProofs -------------------------
(***************************************************************************)
(* The parsers of TimeSlots read every cell, of any length, as what the    *)
(* documented forms say.                                                   *)
(***************************************************************************)
EXTENDS CellReader, TimeSlotsProofs, SequenceTheorems

(* The two sides of a character. *)
Before(s, i) == SubSeq(s, 1, i - 1)
Behind(s, i) == SubSeq(s, i + 1, Len(s))

LEMMA Sides ==
  ASSUME NEW s \in Seq(Int), NEW i \in 1 .. Len(s)
  PROVE  /\ Before(s, i) \in Seq(Int) /\ Len(Before(s, i)) = i - 1
         /\ Behind(s, i) \in Seq(Int) /\ Len(Behind(s, i)) = Len(s) - i
         /\ \A j \in 1 .. i - 1 : Before(s, i)[j] = s[j]
         /\ \A j \in i + 1 .. Len(s) : Behind(s, i)[j - i] = s[j]
<1>1. Len(s) \in Nat /\ \A j \in 1 .. Len(s) : s[j] \in Int
  OBVIOUS
<1>2. /\ Before(s, i) \in Seq(Int) /\ Len(Before(s, i)) = i - 1
      /\ \A j \in 1 .. i - 1 : Before(s, i)[j] = s[j]
  <2>1. \A j \in 1 .. i - 1 : s[j] \in Int
    BY <1>1
  <2> QED BY <1>1, <2>1, SubSeqProperties DEF Before
<1>3. /\ Behind(s, i) \in Seq(Int) /\ Len(Behind(s, i)) = Len(s) - i
      /\ \A j \in 1 .. Len(s) - i : Behind(s, i)[j] = s[i + j]
  <2>1. \A j \in i + 1 .. Len(s) : s[j] \in Int
    BY <1>1
  <2> QED BY <1>1, <2>1, SubSeqProperties DEF Behind
<1>4. \A j \in i + 1 .. Len(s) : Behind(s, i)[j - i] = s[j]
  BY <1>1, <1>3
<1> QED BY <1>2, <1>3, <1>4

(* A dash between two numbers is the only one, and no other sign is near. *)
Splits(s, i) ==
  s[i] = Dash /\ IsNumber(Before(s, i)) /\ IsNumber(Behind(s, i))

LEMMA SplitChars ==
  ASSUME NEW s \in Seq(Int), NEW i \in 1 .. Len(s), Splits(s, i)
  PROVE  \A j \in 1 .. Len(s) : j # i => s[j] >= 0
<1> SUFFICES ASSUME NEW j \in 1 .. Len(s), j # i PROVE s[j] >= 0
  OBVIOUS
<1>1. CASE j < i
  <2>1. j \in 1 .. i - 1 /\ j \in DOMAIN Before(s, i)
    BY <1>1, Sides
  <2> QED BY <2>1, Sides DEF Splits, IsNumber
<1>2. CASE j > i
  <2>1. j \in i + 1 .. Len(s) /\ j - i \in 1 .. Len(s) - i
    BY <1>2
  <2>2. j - i \in DOMAIN Behind(s, i)
    <3>1. Behind(s, i) \in Seq(Int) /\ Len(Behind(s, i)) = Len(s) - i
      BY Sides
    <3> QED BY <2>1, <3>1
  <2>3. Behind(s, i)[j - i] >= 0
    BY <2>2 DEF Splits, IsNumber
  <2>4. Behind(s, i)[j - i] = s[j]
    BY <2>1, Sides
  <2> QED BY <2>3, <2>4
<1> QED BY <1>1, <1>2

LEMMA SaysSplits ==
  ASSUME NEW s \in Seq(Int), NEW n
  PROVE  Says(s, n) <=>
           \/ IsNumber(s) /\ n = Value(s)
           \/ \E i \in 1 .. Len(s) :
                Splits(s, i) /\ n \in Value(Before(s, i)) .. Value(Behind(s, i))
<1>1. DOMAIN s = 1 .. Len(s)
  OBVIOUS
<1> QED BY <1>1 DEF Says, Splits, Before, Behind

(* Cutting the semester out of an interval leaves it, empties it, or has    *)
(* one of the two numbers next to the semester in it.                       *)
LEMMA CutInterval ==
  ASSUME NEW x \in Nat, NEW y \in Nat, NEW top \in Nat
  PROVE  (IF 0 \in x .. y \/ top + 1 \in x .. y THEN {} ELSE {n \in 1 .. top : n \in x .. y})
           = IF x < 1 \/ y > top THEN {} ELSE x .. y
OBVIOUS

(* _parse_int_range reads what is said, within 1 .. top. *)
LEMMA RangeSaid ==
  ASSUME NEW s \in Seq(Int), NEW top \in Nat
  PROVE  IntRange(s, 1, top) = Said(s, top)
<1> DEFINE dashes == {i \in DOMAIN s : s[i] = Dash}
           d == CHOOSE k \in dashes : TRUE
<1>0. DOMAIN s = 1 .. Len(s)
  OBVIOUS
<1>1. CASE IsNumber(s)
  <2>1. Value(s) \in Nat
    BY <1>1, NumberIsNat
  <2>2. \A i \in 1 .. Len(s) : ~Splits(s, i)
    BY <1>0, <1>1 DEF IsNumber, Splits, Dash
  <2>3. \A n : Says(s, n) <=> n = Value(s)
    BY <1>1, <2>2, SaysSplits
  <2>4. IntRange(s, 1, top) = {Value(s)} \cap (1 .. top)
    BY <1>1 DEF IntRange
  <2>5. Said(s, top) = IF 0 = Value(s) \/ top + 1 = Value(s) THEN {}
                       ELSE {n \in 1 .. top : n = Value(s)}
    BY <2>3 DEF Said
  <2> QED BY <2>1, <2>4, <2>5
<1>2. CASE ~IsNumber(s) /\ \E i \in 1 .. Len(s) : Splits(s, i)
  <2>1. PICK i \in 1 .. Len(s) : Splits(s, i)
    BY <1>2
  <2>2. dashes = {i}
    BY <1>0, <2>1, SplitChars DEF Splits, Dash
  <2>3. d = i
    BY <2>2
  <2> DEFINE x == Value(Before(s, i))
             y == Value(Behind(s, i))
  <2>4. x \in Nat /\ y \in Nat
    BY <2>1, Sides, NumberIsNat DEF Splits
  <2>5. \A j \in 1 .. Len(s) : Splits(s, j) => j = i
    BY <1>0, <2>2 DEF Splits
  <2>6. \A n : Says(s, n) <=> n \in x .. y
    BY <1>2, <2>1, <2>5, SaysSplits
  <2>7. IntRange(s, 1, top) = IF x < 1 \/ y > top THEN {} ELSE x .. y
    BY <1>2, <2>1, <2>2, <2>3 DEF IntRange, Splits, Before, Behind
  <2>8. Said(s, top) = IF 0 \in x .. y \/ top + 1 \in x .. y THEN {}
                       ELSE {n \in 1 .. top : n \in x .. y}
    BY <2>6 DEF Said
  <2> HIDE DEF x, y
  <2> QED BY <2>4, <2>7, <2>8, CutInterval
<1>3. CASE ~IsNumber(s) /\ \A i \in 1 .. Len(s) : ~Splits(s, i)
  <2>1. \A n : ~Says(s, n)
    BY <1>3, SaysSplits
  <2>2. Said(s, top) = {}
    BY <2>1 DEF Said
  <2>3. IntRange(s, 1, top) = {}
    <3>1. CASE dashes = {}
      BY <1>3, <3>1 DEF IntRange
    <3>2. CASE dashes # {}
      <4>1. d \in 1 .. Len(s) /\ s[d] = Dash
        BY <1>0, <3>2
      <4> HIDE DEF d
      <4>2. ~IsNumber(Before(s, d)) \/ ~IsNumber(Behind(s, d))
        BY <1>3, <4>1 DEF Splits
      <4> QED BY <1>3, <4>2 DEF IntRange, Before, Behind, d
    <3> QED BY <3>1, <3>2
  <2> QED BY <2>2, <2>3
<1> QED BY <1>1, <1>2, <1>3
-----------------------------------------------------------------------------
(* A cell without its first l and its last r characters. *)
Cut(s, l, r) == SubSeq(s, l + 1, Len(s) - r)

LEMMA CutIsCell ==
  ASSUME NEW s \in Seq(Int), NEW l \in Nat, NEW r \in Nat
  PROVE  /\ Cut(s, l, r) \in Seq(Int)
         /\ Len(Cut(s, l, r)) = IF l + r < Len(s) THEN Len(s) - r - l ELSE 0
         /\ \A i \in 1 .. Len(s) - r - l : Cut(s, l, r)[i] = s[l + i]
<1>1. Len(s) \in Nat /\ \A i \in 1 .. Len(s) : s[i] \in Int
  OBVIOUS
<1>2. l + 1 \in Int /\ Len(s) - r \in Int
  BY <1>1
<1>3. \A i \in l + 1 .. Len(s) - r : s[i] \in Int
  BY <1>1
<1>4. /\ Cut(s, l, r) \in Seq(Int)
      /\ Len(Cut(s, l, r))
           = IF l + 1 <= Len(s) - r THEN (Len(s) - r) - (l + 1) + 1 ELSE 0
      /\ \A i \in 1 .. (Len(s) - r) - (l + 1) + 1 :
           Cut(s, l, r)[i] = s[(l + 1) + i - 1]
  BY <1>2, <1>3, SubSeqProperties DEF Cut
<1>5. \A i \in 1 .. Len(s) - r - l : Cut(s, l, r)[i] = s[l + i]
  <2> TAKE i \in 1 .. Len(s) - r - l
  <2>1. i \in 1 .. (Len(s) - r) - (l + 1) + 1 /\ (l + 1) + i - 1 = l + i
    BY <1>1
  <2> QED BY <1>4, <2>1
<1> QED BY <1>1, <1>4, <1>5

LEMMA CutOfCut ==
  ASSUME NEW s \in Seq(Int), NEW l \in Nat, NEW r \in Nat, l + r <= Len(s),
         NEW x \in Nat, NEW y \in Nat
  PROVE  Cut(Cut(s, l, r), x, y) = Cut(s, l + x, r + y)
<1> DEFINE t == Cut(s, l, r)
           u == Cut(t, x, y)
           v == Cut(s, l + x, r + y)
<1>1. /\ Len(s) \in Nat /\ t \in Seq(Int) /\ Len(t) = Len(s) - r - l
      /\ \A i \in 1 .. Len(s) - r - l : t[i] = s[l + i]
  <2>1. /\ t \in Seq(Int) /\ Len(t) = IF l + r < Len(s) THEN Len(s) - r - l ELSE 0
        /\ \A i \in 1 .. Len(s) - r - l : t[i] = s[l + i]
    BY CutIsCell
  <2>2. Len(s) \in Nat
    OBVIOUS
  <2> HIDE DEF t
  <2> QED BY <2>1, <2>2
<1> HIDE DEF t
<1>2. /\ u \in Seq(Int) /\ Len(u) = IF x + y < Len(t) THEN Len(t) - y - x ELSE 0
      /\ \A i \in 1 .. Len(t) - y - x : u[i] = t[x + i]
  BY <1>1, CutIsCell
<1>3. /\ v \in Seq(Int)
      /\ Len(v) = IF (l + x) + (r + y) < Len(s)
                  THEN Len(s) - (r + y) - (l + x) ELSE 0
      /\ \A i \in 1 .. Len(s) - (r + y) - (l + x) : v[i] = s[(l + x) + i]
  <2>1. l + x \in Nat /\ r + y \in Nat
    OBVIOUS
  <2> HIDE DEF v
  <2> QED BY <2>1, CutIsCell DEF v
<1> HIDE DEF u, v
<1>4. Len(u) = Len(v)
  BY <1>1, <1>2, <1>3
<1>5. \A i \in 1 .. Len(u) : u[i] = v[i]
  <2> TAKE i \in 1 .. Len(u)
  <2>1. /\ i \in 1 .. Len(t) - y - x /\ x + i \in 1 .. Len(s) - r - l
        /\ i \in 1 .. Len(s) - (r + y) - (l + x)
        /\ l + (x + i) = (l + x) + i
    BY <1>1, <1>2
  <2>2. u[i] = t[x + i] /\ t[x + i] = s[l + (x + i)] /\ v[i] = s[(l + x) + i]
    BY <1>1, <1>2, <1>3, <2>1
  <2> QED BY <2>1, <2>2
<1>6. u = v
  BY <1>2, <1>3, <1>4, <1>5, SeqEqual
<1> QED BY <1>6 DEF t, u, v

LEMMA EndsOne ==
  ASSUME NEW s \in Seq(Int), NEW c \in Int
  PROVE  Ends(s, <<c>>) <=> Len(s) >= 1 /\ s[Len(s)] = c
<1>1. Len(s) \in Nat /\ <<c>> \in Seq(Int) /\ Len(<<c>>) = 1 /\ <<c>>[1] = c
  OBVIOUS
<1>2. CASE Len(s) = 0
  BY <1>1, <1>2 DEF Ends
<1>3. CASE Len(s) >= 1
  <2> DEFINE t == Cut(s, Len(s) - 1, 0)
  <2>1. t \in Seq(Int) /\ Len(t) = 1 /\ t[1] = s[Len(s)]
    <3>1. /\ Len(s) - 1 \in Nat /\ Len(s) - 0 - (Len(s) - 1) = 1
          /\ (Len(s) - 1) + 1 = Len(s) /\ (Len(s) - 1) + 0 < Len(s)
      BY <1>1, <1>3
    <3>2. /\ t \in Seq(Int) /\ Len(t) = Len(s) - 0 - (Len(s) - 1)
          /\ \A i \in 1 .. Len(s) - 0 - (Len(s) - 1) : t[i] = s[(Len(s) - 1) + i]
      <4> HIDE DEF t
      <4> QED BY <3>1, CutIsCell DEF t
    <3> HIDE DEF t
    <3> QED BY <3>1, <3>2
  <2>2. SubSeq(s, Len(s) - Len(<<c>>) + 1, Len(s)) = t
    <3>1. Len(s) - Len(<<c>>) + 1 = (Len(s) - 1) + 1 /\ Len(s) - 0 = Len(s)
      BY <1>1
    <3> QED BY <3>1, Zenon DEF Cut
  <2> HIDE DEF t
  <2>3. t = <<c>> <=> t[1] = c
    <3>1. ASSUME t[1] = c PROVE t = <<c>>
      <4>1. Len(t) = Len(<<c>>) /\ \A i \in 1 .. Len(t) : t[i] = <<c>>[i]
        BY <1>1, <2>1, <3>1
      <4> QED BY <1>1, <2>1, <4>1, SeqEqual
    <3> QED BY <1>1, <3>1
  <2> QED BY <1>1, <1>3, <2>1, <2>2, <2>3 DEF Ends
<1> QED BY <1>1, <1>2, <1>3

LEMMA EndsTwo ==
  ASSUME NEW s \in Seq(Int), NEW c \in Int, NEW d \in Int
  PROVE  Ends(s, <<c, d>>) <=>
           Len(s) >= 2 /\ s[Len(s) - 1] = c /\ s[Len(s)] = d
<1>1. /\ Len(s) \in Nat /\ <<c, d>> \in Seq(Int) /\ Len(<<c, d>>) = 2
      /\ <<c, d>>[1] = c /\ <<c, d>>[2] = d
  OBVIOUS
<1>2. CASE Len(s) < 2
  BY <1>1, <1>2 DEF Ends
<1>3. CASE Len(s) >= 2
  <2> DEFINE t == Cut(s, Len(s) - 2, 0)
  <2>1. t \in Seq(Int) /\ Len(t) = 2 /\ t[1] = s[Len(s) - 1] /\ t[2] = s[Len(s)]
    <3>1. /\ Len(s) - 2 \in Nat /\ Len(s) - 0 - (Len(s) - 2) = 2
          /\ (Len(s) - 2) + 1 = Len(s) - 1 /\ (Len(s) - 2) + 2 = Len(s)
          /\ (Len(s) - 2) + 0 < Len(s)
      BY <1>1, <1>3
    <3>2. /\ t \in Seq(Int) /\ Len(t) = Len(s) - 0 - (Len(s) - 2)
          /\ \A i \in 1 .. Len(s) - 0 - (Len(s) - 2) : t[i] = s[(Len(s) - 2) + i]
      <4> HIDE DEF t
      <4> QED BY <3>1, CutIsCell DEF t
    <3> HIDE DEF t
    <3> QED BY <3>1, <3>2
  <2>2. SubSeq(s, Len(s) - Len(<<c, d>>) + 1, Len(s)) = t
    <3>1. Len(s) - Len(<<c, d>>) + 1 = (Len(s) - 2) + 1 /\ Len(s) - 0 = Len(s)
      BY <1>1
    <3> QED BY <3>1, Zenon DEF Cut
  <2> HIDE DEF t
  <2>3. t = <<c, d>> <=> t[1] = c /\ t[2] = d
    <3>1. ASSUME t[1] = c, t[2] = d PROVE t = <<c, d>>
      <4>1. Len(t) = Len(<<c, d>>) /\ \A i \in 1 .. Len(t) : t[i] = <<c, d>>[i]
        BY <1>1, <2>1, <3>1
      <4> QED BY <1>1, <2>1, <4>1, SeqEqual
    <3> QED BY <1>1, <3>1
  <2> QED BY <1>1, <1>3, <2>1, <2>2, <2>3 DEF Ends
<1> QED BY <1>1, <1>2, <1>3
-----------------------------------------------------------------------------
(* A segment ends with a mark of k characters that asks for the rests R.    *)
MarkedAt(s, k, R) ==
  \/ k = 0 /\ R = {0, 1}
  \/ k = 1 /\ Len(s) >= 1 /\ s[Len(s)] = Dan /\ R = {1}
  \/ k = 1 /\ Len(s) >= 1 /\ s[Len(s)] = Shuang /\ R = {0}
  \/ k = 2 /\ Len(s) >= 2 /\ s[Len(s) - 1] = Dan /\ s[Len(s)] = Zhou /\ R = {1}
  \/ k = 2 /\ Len(s) >= 2 /\ s[Len(s) - 1] = Shuang /\ s[Len(s)] = Zhou /\ R = {0}

(* The mark the code finds: the guards of Mark exclude each other. *)
LEMMA MarkFound ==
  ASSUME NEW s \in Seq(Int)
  PROVE  \E k \in {0, 1, 2}, R \in {{0, 1}, {0}, {1}} :
           /\ Mark(s) = [length |-> k, rests |-> R] /\ MarkedAt(s, k, R)
           /\ \A x, X : MarkedAt(s, x, X) /\ x # 0 => x = k /\ X = R
<1> DEFINE dz == Len(s) >= 2 /\ s[Len(s) - 1] = Dan /\ s[Len(s)] = Zhou
           sz == Len(s) >= 2 /\ s[Len(s) - 1] = Shuang /\ s[Len(s)] = Zhou
           d == Len(s) >= 1 /\ s[Len(s)] = Dan
           h == Len(s) >= 1 /\ s[Len(s)] = Shuang
<1>1. Dan \in Int /\ Zhou \in Int /\ Shuang \in Int
  BY DEF Dan, Zhou, Shuang
<1>2. /\ Ends(s, <<Dan, Zhou>>) <=> dz
      /\ Ends(s, <<Shuang, Zhou>>) <=> sz
  <2> HIDE DEF dz, sz
  <2> QED BY <1>1, EndsTwo DEF dz, sz
<1>3. /\ Ends(s, <<Dan>>) <=> d
      /\ Ends(s, <<Shuang>>) <=> h
  BY <1>1, EndsOne
<1>4. /\ ~(dz /\ sz) /\ ~(dz /\ d) /\ ~(dz /\ h)
      /\ ~(sz /\ d) /\ ~(sz /\ h) /\ ~(d /\ h)
  BY DEF Dan, Zhou, Shuang
<1>5. \A k, R : MarkedAt(s, k, R) <=>
        \/ k = 0 /\ R = {0, 1}
        \/ k = 1 /\ d /\ R = {1}
        \/ k = 1 /\ h /\ R = {0}
        \/ k = 2 /\ dz /\ R = {1}
        \/ k = 2 /\ sz /\ R = {0}
  BY DEF MarkedAt
<1> HIDE DEF dz, sz, d, h
<1>6. CASE dz
  <2>1. Mark(s) = [length |-> 2, rests |-> {1}]
    BY <1>2, <1>3, <1>4, <1>6 DEF Mark
  <2>2. MarkedAt(s, 2, {1})
    BY <1>5, <1>6
  <2>3. \A x, X : MarkedAt(s, x, X) /\ x # 0 => x = 2 /\ X = {1}
    BY <1>4, <1>5, <1>6
  <2> QED BY <2>1, <2>2, <2>3
<1>7. CASE sz
  <2>1. Mark(s) = [length |-> 2, rests |-> {0}]
    BY <1>2, <1>3, <1>4, <1>7 DEF Mark
  <2>2. MarkedAt(s, 2, {0})
    BY <1>5, <1>7
  <2>3. \A x, X : MarkedAt(s, x, X) /\ x # 0 => x = 2 /\ X = {0}
    BY <1>4, <1>5, <1>7
  <2> QED BY <2>1, <2>2, <2>3
<1>8. CASE d
  <2>1. Mark(s) = [length |-> 1, rests |-> {1}]
    BY <1>2, <1>3, <1>4, <1>8 DEF Mark
  <2>2. MarkedAt(s, 1, {1})
    BY <1>5, <1>8
  <2>3. \A x, X : MarkedAt(s, x, X) /\ x # 0 => x = 1 /\ X = {1}
    BY <1>4, <1>5, <1>8
  <2> QED BY <2>1, <2>2, <2>3
<1>9. CASE h
  <2>1. Mark(s) = [length |-> 1, rests |-> {0}]
    BY <1>2, <1>3, <1>4, <1>9 DEF Mark
  <2>2. MarkedAt(s, 1, {0})
    BY <1>5, <1>9
  <2>3. \A x, X : MarkedAt(s, x, X) /\ x # 0 => x = 1 /\ X = {0}
    BY <1>4, <1>5, <1>9
  <2> QED BY <2>1, <2>2, <2>3
<1>10. CASE ~dz /\ ~sz /\ ~d /\ ~h
  <2>1. Mark(s) = [length |-> 0, rests |-> {0, 1}]
    BY <1>2, <1>3, <1>10 DEF Mark
  <2>2. MarkedAt(s, 0, {0, 1})
    BY <1>5
  <2>3. \A x, X : ~(MarkedAt(s, x, X) /\ x # 0)
    BY <1>5, <1>10
  <2> QED BY <2>1, <2>2, <2>3
<1> QED BY <1>6, <1>7, <1>8, <1>9, <1>10

(* The decoration around what is left: "di" before, "zhou" behind. *)
LeftOf(s, k) == IF k < Len(s) /\ s[1] = Di THEN 1 ELSE 0
RightOf(s, k) ==
  IF LeftOf(s, k) + k < Len(s) /\ s[Len(s) - k] = Zhou THEN 1 ELSE 0

LEMMA CoreIsCut ==
  ASSUME NEW s \in Seq(Int)
  PROVE  Core(s) = Cut(s, LeftOf(s, Mark(s).length),
                       Mark(s).length + RightOf(s, Mark(s).length))
<1> DEFINE k == Mark(s).length
           l == LeftOf(s, k)
           unmarked == Shortened(s, k)
           bare == IF unmarked # <<>> /\ Head(unmarked) = Di
                   THEN Tail(unmarked) ELSE unmarked
<1>1. Len(s) \in Nat /\ k \in {0, 1, 2} /\ k <= Len(s)
  <2>1. PICK x \in {0, 1, 2}, X \in {{0, 1}, {0}, {1}} :
          Mark(s) = [length |-> x, rests |-> X] /\ MarkedAt(s, x, X)
    BY MarkFound
  <2>3. k = x
    BY <2>1
  <2> HIDE DEF k
  <2>2. Len(s) \in Nat
    OBVIOUS
  <2> QED BY <2>1, <2>2, <2>3 DEF MarkedAt
<1>2. Core(s) = IF Ends(bare, <<Zhou>>) THEN Shortened(bare, 1) ELSE bare
  BY DEF Core
<1> HIDE DEF k
<1>3. unmarked = Cut(s, 0, k)
  BY DEF Shortened, Cut
<1> HIDE DEF unmarked
<1>4. /\ unmarked \in Seq(Int) /\ Len(unmarked) = Len(s) - k
      /\ k < Len(s) => unmarked[1] = s[1]
  <2>1. /\ Cut(s, 0, k) \in Seq(Int)
        /\ Len(Cut(s, 0, k)) = IF 0 + k < Len(s) THEN Len(s) - k - 0 ELSE 0
        /\ \A i \in 1 .. Len(s) - k - 0 : Cut(s, 0, k)[i] = s[0 + i]
    <3>1. k \in Nat /\ 0 \in Nat
      BY <1>1
    <3> QED BY <3>1, CutIsCell
  <2> QED BY <1>1, <1>3, <2>1
<1>5. unmarked # <<>> /\ Head(unmarked) = Di <=> l = 1
  BY <1>1, <1>4 DEF LeftOf
<1>6. l \in {0, 1} /\ (l = 1 => k < Len(s))
  BY DEF LeftOf
<1>7. bare = Cut(s, l, k)
  <2>1. CASE l = 1
    <3>1. Tail(unmarked) = SubSeq(unmarked, 2, Len(unmarked))
      BY <1>4, <1>5, <2>1, TailIsSubSeq
    <3>2. Tail(unmarked) = Cut(unmarked, 1, 0)
      BY <1>4, <3>1 DEF Cut
    <3>3. Cut(Cut(s, 0, k), 1, 0) = Cut(s, 0 + 1, k + 0)
      BY <1>1, CutOfCut
    <3>4. 0 + 1 = l /\ k + 0 = k
      BY <1>1, <2>1
    <3> QED BY <1>3, <1>5, <2>1, <3>2, <3>3, <3>4
  <2>2. CASE l = 0
    BY <1>3, <1>5, <2>2
  <2> QED BY <1>6, <2>1, <2>2
<1> HIDE DEF bare
<1>8. /\ bare \in Seq(Int) /\ Len(bare) = Len(s) - k - l
      /\ l + k < Len(s) => bare[Len(bare)] = s[Len(s) - k]
  <2>1. /\ Cut(s, l, k) \in Seq(Int)
        /\ Len(Cut(s, l, k)) = IF l + k < Len(s) THEN Len(s) - k - l ELSE 0
        /\ \A i \in 1 .. Len(s) - k - l : Cut(s, l, k)[i] = s[l + i]
    <3> HIDE DEF l
    <3>1. k \in Nat /\ l \in Nat
      BY <1>1, <1>6
    <3> QED BY <3>1, CutIsCell
  <2> HIDE DEF l
  <2> QED BY <1>1, <1>6, <1>7, <2>1
<1>9. Ends(bare, <<Zhou>>) <=> RightOf(s, k) = 1
  <2>1. Zhou \in Int
    BY DEF Zhou
  <2>2. Ends(bare, <<Zhou>>) <=> Len(bare) >= 1 /\ bare[Len(bare)] = Zhou
    BY <1>8, <2>1, EndsOne
  <2> HIDE DEF l
  <2>3. Len(bare) >= 1 <=> l + k < Len(s)
    BY <1>1, <1>6, <1>8
  <2> QED BY <1>8, <2>2, <2>3 DEF RightOf, l
<1>10. Shortened(bare, 1) = Cut(s, l, k + 1)
  <2>1. Shortened(bare, 1) = Cut(bare, 0, 1)
    BY DEF Shortened, Cut
  <2>2. l + k <= Len(s) /\ l \in Nat /\ k \in Nat /\ l + 0 = l
    <3> HIDE DEF l
    <3> QED BY <1>1, <1>6
  <2> HIDE DEF l
  <2>3. Cut(Cut(s, l, k), 0, 1) = Cut(s, l + 0, k + 1)
    BY <2>2, CutOfCut
  <2> QED BY <1>7, <2>1, <2>2, <2>3
<1>11. RightOf(s, k) \in {0, 1} /\ k + 0 = k
  BY <1>1 DEF RightOf
<1> QED BY <1>2, <1>7, <1>9, <1>10, <1>11 DEF k
-----------------------------------------------------------------------------
(* What says something has no characters but digits and a dash. *)
LEMMA SaidChars ==
  ASSUME NEW s \in Seq(Int), NEW top \in Nat, NEW n \in Said(s, top)
  PROVE  Len(s) >= 1 /\ \A i \in 1 .. Len(s) : s[i] >= Dash
<1>1. Says(s, n)
  BY DEF Said
<1>2. CASE IsNumber(s)
  BY <1>2 DEF IsNumber, Dash
<1>3. CASE \E i \in 1 .. Len(s) : Splits(s, i)
  <2>1. PICK i \in 1 .. Len(s) : Splits(s, i)
    BY <1>3
  <2>2. \A j \in 1 .. Len(s) : j # i => s[j] >= 0
    BY <2>1, SplitChars
  <2>3. s[i] = Dash
    BY <2>1 DEF Splits
  <2> QED BY <2>2, <2>3 DEF Dash
<1> QED BY <1>1, <1>2, <1>3, SaysSplits

(* The characters of t follow the first j of s. *)
At(s, j, t) == \A i \in 1 .. Len(t) : s[j + i] = t[i]

(* s is composed of a front, what lies between, and two ends. *)
Joined(s, p, w, m) == s = p \o Cut(s, Len(p), Len(m) + Len(w)) \o w \o m

LEMMA Composed ==
  ASSUME NEW s \in Seq(Int), NEW p \in Seq(Int), NEW w \in Seq(Int),
         NEW m \in Seq(Int), Len(p) + Len(w) + Len(m) < Len(s)
  PROVE  Joined(s, p, w, m) <=>
           /\ At(s, 0, p)
           /\ At(s, Len(s) - Len(m) - Len(w), w)
           /\ At(s, Len(s) - Len(m), m)
<1> DEFINE l == Len(p)
           z == Len(w)
           k == Len(m)
           N == Len(s)
           b == Cut(s, l, k + z)
           c == p \o b \o w \o m
<1>1. l \in Nat /\ z \in Nat /\ k \in Nat /\ N \in Nat /\ k + z \in Nat
  OBVIOUS
<1>2. /\ b \in Seq(Int) /\ Len(b) = N - (k + z) - l
      /\ \A i \in 1 .. N - (k + z) - l : b[i] = s[l + i]
  <2>1. /\ b \in Seq(Int)
        /\ Len(b) = IF l + (k + z) < N THEN N - (k + z) - l ELSE 0
        /\ \A i \in 1 .. N - (k + z) - l : b[i] = s[l + i]
    <3> HIDE DEF l, z, k
    <3> QED BY <1>1, CutIsCell
  <2> HIDE DEF b
  <2> QED BY <1>1, <2>1
<1> HIDE DEF b
<1>3. /\ p \o b \in Seq(Int) /\ Len(p \o b) = N - k - z
      /\ \A i \in 1 .. N - k - z : (p \o b)[i] = IF i <= l THEN p[i] ELSE s[i]
  <2>1. /\ p \o b \in Seq(Int) /\ Len(p \o b) = l + Len(b)
        /\ \A i \in 1 .. l + Len(b) :
             (p \o b)[i] = IF i <= l THEN p[i] ELSE b[i - l]
    BY <1>2, ConcatProperties
  <2>2. l + Len(b) = N - k - z
    BY <1>1, <1>2
  <2>3. ASSUME NEW i \in 1 .. N - k - z, i > l PROVE b[i - l] = s[i]
    <3>1. i - l \in 1 .. N - (k + z) - l /\ l + (i - l) = i
      BY <1>1, <2>3
    <3> QED BY <1>2, <3>1
  <2>4. \A i \in 1 .. N - k - z : (p \o b)[i] = IF i <= l THEN p[i] ELSE s[i]
    <3> TAKE i \in 1 .. N - k - z
    <3>1. i \in 1 .. l + Len(b) /\ i \in Int /\ l \in Int
      BY <1>1, <2>2
    <3>2. (p \o b)[i] = IF i <= l THEN p[i] ELSE b[i - l]
      BY <2>1, <3>1, Zenon
    <3>3. ~(i <= l) => i > l
      BY <3>1
    <3> HIDE DEF l, z, k, N
    <3> QED BY <2>3, <3>2, <3>3, Zenon
  <2> QED BY <2>1, <2>2, <2>4
<1> DEFINE q == p \o b
<1> HIDE DEF q
<1>4. /\ q \o w \in Seq(Int) /\ Len(q \o w) = N - k
      /\ \A i \in 1 .. N - k :
           (q \o w)[i] = IF i <= N - k - z THEN q[i] ELSE w[i - (N - k - z)]
  <2>1. q \in Seq(Int) /\ Len(q) = N - k - z
    BY <1>3 DEF q
  <2>2. /\ q \o w \in Seq(Int) /\ Len(q \o w) = Len(q) + z
        /\ \A i \in 1 .. Len(q) + z :
             (q \o w)[i] = IF i <= Len(q) THEN q[i] ELSE w[i - Len(q)]
    BY <2>1, ConcatProperties
  <2>3. N - k - z + z = N - k
    BY <1>1
  <2> HIDE DEF l, z, k, N
  <2> QED BY <2>1, <2>2, <2>3
<1> DEFINE r == q \o w
<1> HIDE DEF r
<1>5. /\ c \in Seq(Int) /\ Len(c) = N
      /\ \A i \in 1 .. N :
           c[i] = IF i <= N - k THEN r[i] ELSE m[i - (N - k)]
  <2>1. r \in Seq(Int) /\ Len(r) = N - k
    BY <1>4 DEF r
  <2>2. /\ r \o m \in Seq(Int) /\ Len(r \o m) = Len(r) + k
        /\ \A i \in 1 .. Len(r) + k :
             (r \o m)[i] = IF i <= Len(r) THEN r[i] ELSE m[i - Len(r)]
    BY <2>1, ConcatProperties
  <2>3. N - k + k = N
    BY <1>1
  <2>4. c = r \o m
    BY DEF r, q
  <2> HIDE DEF l, z, k, N, c
  <2> QED BY <2>1, <2>2, <2>3, <2>4
<1>6. \A i \in 1 .. N :
        c[i] = IF i <= l THEN p[i] ELSE IF i <= N - k - z THEN s[i]
               ELSE IF i <= N - k THEN w[i - (N - k - z)] ELSE m[i - (N - k)]
  <2> TAKE i \in 1 .. N
  <2>1. l <= N - k - z /\ N - k - z <= N - k
    BY <1>1
  <2>2. i <= N - k => c[i] = (q \o w)[i]
    BY <1>5 DEF r
  <2>3. /\ i \in Int /\ l \in Int /\ N - k \in Int /\ N - k - z \in Int
        /\ i <= N - k - z => i \in 1 .. N - k - z
        /\ i <= N - k => i \in 1 .. N - k
        /\ i <= N - k - z => i <= N - k
        /\ i <= l => i <= N - k - z
    BY <1>1, <2>1
  <2> HIDE DEF l, z, k, N, c
  <2>4. CASE i <= N - k - z
    <3>1. c[i] = q[i]
      BY <1>4, <2>2, <2>3, <2>4, Zenon
    <3>2. c[i] = IF i <= l THEN p[i] ELSE s[i]
      BY <1>3, <2>3, <2>4, <3>1, Zenon DEF q
    <3> QED BY <2>4, <3>2
  <2>5. CASE ~(i <= N - k - z) /\ i <= N - k
    <3>1. c[i] = w[i - (N - k - z)]
      BY <1>4, <2>2, <2>3, <2>5, Zenon
    <3> QED BY <2>3, <2>5, <3>1, Zenon
  <2>6. CASE ~(i <= N - k)
    <3>1. c[i] = m[i - (N - k)]
      BY <1>5, <2>6, Zenon
    <3> QED BY <2>3, <2>6, <3>1, Zenon
  <2> QED BY <2>4, <2>5, <2>6
<1>7. s = c <=> \A i \in 1 .. N : s[i] = c[i]
  <2>1. ASSUME \A i \in 1 .. N : s[i] = c[i] PROVE s = c
    <3> HIDE DEF c
    <3> QED BY <1>5, <2>1, SeqEqual
  <2> HIDE DEF c
  <2> QED BY <2>1
<1> HIDE DEF c, l, z, k, N
<1>8. ASSUME \A i \in 1 .. N : s[i] = c[i]
      PROVE  /\ \A i \in 1 .. l : s[i] = p[i]
             /\ \A i \in 1 .. z : s[N - k - z + i] = w[i]
             /\ \A i \in 1 .. k : s[N - k + i] = m[i]
  <2>0. l + z + k < N
    BY DEF l, z, k, N
  <2>1. ASSUME NEW i \in 1 .. l PROVE s[i] = p[i]
    <3>1. i \in 1 .. N /\ i <= l
      BY <1>1, <2>0
    <3> QED BY <1>6, <1>8, <3>1, Zenon
  <2>2. ASSUME NEW i \in 1 .. z PROVE s[N - k - z + i] = w[i]
    <3>1. /\ N - k - z + i \in 1 .. N /\ ~(N - k - z + i <= l)
          /\ ~(N - k - z + i <= N - k - z) /\ N - k - z + i <= N - k
          /\ (N - k - z + i) - (N - k - z) = i
      BY <1>1, <2>0
    <3> QED BY <1>6, <1>8, <3>1
  <2>3. ASSUME NEW i \in 1 .. k PROVE s[N - k + i] = m[i]
    <3>1. /\ N - k + i \in 1 .. N /\ ~(N - k + i <= l)
          /\ ~(N - k + i <= N - k - z) /\ ~(N - k + i <= N - k)
          /\ (N - k + i) - (N - k) = i
      BY <1>1, <2>0
    <3> QED BY <1>6, <1>8, <3>1
  <2> QED BY <2>1, <2>2, <2>3
<1>9. ASSUME /\ \A i \in 1 .. l : s[i] = p[i]
             /\ \A i \in 1 .. z : s[N - k - z + i] = w[i]
             /\ \A i \in 1 .. k : s[N - k + i] = m[i],
             NEW i \in 1 .. N
      PROVE  s[i] = c[i]
  <2>0. l + z + k < N
    BY DEF l, z, k, N
  <2>1. CASE i <= N - k - z
    <3>1. CASE i <= l
      <4>1. i \in 1 .. l
        BY <1>1, <3>1
      <4> QED BY <1>6, <1>9, <3>1, <4>1, Zenon
    <3>2. CASE ~(i <= l)
      BY <1>6, <2>1, <3>2, Zenon
    <3> QED BY <3>1, <3>2
  <2>2. CASE ~(i <= N - k - z) /\ i <= N - k
    <3>1. i - (N - k - z) \in 1 .. z /\ N - k - z + (i - (N - k - z)) = i /\ ~(i <= l)
      BY <1>1, <2>0, <2>2
    <3> QED BY <1>6, <1>9, <2>2, <3>1
  <2>3. CASE ~(i <= N - k)
    <3>1. i - (N - k) \in 1 .. k /\ N - k + (i - (N - k)) = i /\ ~(i <= l)
          /\ ~(i <= N - k - z)
      BY <1>1, <2>0, <2>3
    <3> QED BY <1>6, <1>9, <2>3, <3>1
  <2> QED BY <2>1, <2>2, <2>3
<1>10. s = c <=> /\ \A i \in 1 .. l : s[i] = p[i]
                 /\ \A i \in 1 .. z : s[N - k - z + i] = w[i]
                 /\ \A i \in 1 .. k : s[N - k + i] = m[i]
  BY <1>7, <1>8, <1>9
<1>11. At(s, 0, p) <=> \A i \in 1 .. l : s[i] = p[i]
  <2>1. \A i \in 1 .. l : 0 + i = i
    BY <1>1
  <2> QED BY <2>1 DEF At, l
<1> QED BY <1>10, <1>11 DEF Joined, At, c, b, l, z, k, N
-----------------------------------------------------------------------------
(* n is said by a form with the front p, the end w and the mark m. *)
Form(s, top, n, p, w, m, R) ==
  LET body == SubSeq(s, Len(p) + 1, Len(s) - Len(w) - Len(m))
  IN  n \in Said(body, top) /\ n % 2 \in R /\ s = p \o body \o w \o m

SomeForm(s, top, n, m, R) ==
  \E p \in {<<>>, <<Di>>}, w \in {<<>>, <<Zhou>>} : Form(s, top, n, p, w, m, R)

LEMMA WeeksSaidForms ==
  ASSUME NEW s, NEW top, NEW n
  PROVE  n \in WeeksSaid(s, top) <=>
           \/ SomeForm(s, top, n, <<>>, {0, 1})
           \/ SomeForm(s, top, n, <<Dan>>, {1})
           \/ SomeForm(s, top, n, <<Dan, Zhou>>, {1})
           \/ SomeForm(s, top, n, <<Shuang>>, {0})
           \/ SomeForm(s, top, n, <<Shuang, Zhou>>, {0})
<1> DEFINE Body(p, w, m) == SubSeq(s, Len(p) + 1, Len(s) - Len(w) - Len(m))
           K(p, w, m, R) == {x \in Said(Body(p, w, m), top) :
                               x % 2 \in R /\ s = p \o Body(p, w, m) \o w \o m}
           Of(M, R) == UNION {K(p, w, m, R) :
                                p \in {<<>>, <<Di>>}, w \in {<<>>, <<Zhou>>}, m \in M}
<1>1. WeeksSaid(s, top) = Of({<<>>}, {0, 1}) \cup Of({<<Dan>>, <<Dan, Zhou>>}, {1})
                            \cup Of({<<Shuang>>, <<Shuang, Zhou>>}, {0})
  BY DEF WeeksSaid
<1>2. ASSUME NEW p, NEW w, NEW m, NEW R
      PROVE  n \in K(p, w, m, R) <=> Form(s, top, n, p, w, m, R)
  <2>1. n \in K(p, w, m, R) <=> /\ n \in Said(Body(p, w, m), top) /\ n % 2 \in R
                                /\ s = p \o Body(p, w, m) \o w \o m
    <3> HIDE DEF Body
    <3> QED BY Zenon
  <2> QED BY <2>1 DEF Form
<1> HIDE DEF K
<1> DEFINE Some(M, R) == \E m \in M : SomeForm(s, top, n, m, R)
<1>3. ASSUME NEW M, NEW R
      PROVE  n \in Of(M, R) <=> Some(M, R)
  <2> DEFINE P == {<<>>, <<Di>>}
             W == {<<>>, <<Zhou>>}
             Any == \E p \in P, w \in W, m \in M : n \in K(p, w, m, R)
  <2>1. n \in UNION {K(p, w, m, R) : p \in P, w \in W, m \in M} <=> Any
    <3> HIDE DEF P, W
    <3> QED BY SMT
  <2>2. n \in Of(M, R) <=> Any
    <3> HIDE DEF Any
    <3> QED BY <2>1
  <2> HIDE DEF Of
  <2>3. Any <=> Some(M, R)
    BY <1>2, Zenon DEF SomeForm
  <2> HIDE DEF Any, Some
  <2> QED BY <2>2, <2>3
<1>4. ASSUME NEW a, NEW b, NEW R
      PROVE  /\ Some({a}, R) <=> SomeForm(s, top, n, a, R)
             /\ Some({a, b}, R) <=> SomeForm(s, top, n, a, R) \/ SomeForm(s, top, n, b, R)
  BY Zenon
<1> HIDE DEF Of, Some
<1> QED BY <1>1, <1>3, <1>4, Zenon

(* The same with the numbers of characters in place of the characters. *)
FormAt(s, top, n, l, z, k, R) ==
  /\ l + z + k < Len(s)
  /\ l = 1 => s[1] = Di
  /\ z = 1 => s[Len(s) - k] = Zhou
  /\ n \in Said(Cut(s, l, k + z), top) /\ n % 2 \in R

LEMMA FormJoined ==
  ASSUME NEW s \in Seq(Int), NEW top \in Nat, NEW n, NEW R,
         NEW p \in Seq(Int), NEW w \in Seq(Int), NEW m \in Seq(Int)
  PROVE  Form(s, top, n, p, w, m, R) <=>
           /\ Len(p) + Len(w) + Len(m) < Len(s)
           /\ At(s, 0, p) /\ At(s, Len(s) - Len(m) - Len(w), w)
           /\ At(s, Len(s) - Len(m), m)
           /\ n \in Said(Cut(s, Len(p), Len(m) + Len(w)), top) /\ n % 2 \in R
<1>1. Len(p) \in Nat /\ Len(w) \in Nat /\ Len(m) \in Nat /\ Len(s) \in Nat
  OBVIOUS
<1> DEFINE b == Cut(s, Len(p), Len(m) + Len(w))
<1>2. SubSeq(s, Len(p) + 1, Len(s) - Len(w) - Len(m)) = b
  <2>1. Len(s) - Len(w) - Len(m) = Len(s) - (Len(m) + Len(w))
    BY <1>1
  <2> QED BY <2>1, Zenon DEF Cut
<1>3. Form(s, top, n, p, w, m, R) <=>
        n \in Said(b, top) /\ n % 2 \in R /\ Joined(s, p, w, m)
  BY <1>2, Zenon DEF Form, Joined
<1>4. ASSUME n \in Said(b, top) PROVE Len(p) + Len(w) + Len(m) < Len(s)
  <2>1. /\ b \in Seq(Int)
        /\ Len(b) = IF Len(p) + (Len(m) + Len(w)) < Len(s)
                    THEN Len(s) - (Len(m) + Len(w)) - Len(p) ELSE 0
    <3>1. Len(m) + Len(w) \in Nat
      BY <1>1
    <3> QED BY <1>1, <3>1, CutIsCell
  <2> HIDE DEF b
  <2>2. Len(b) >= 1
    BY <1>4, <2>1, SaidChars
  <2> QED BY <1>1, <2>1, <2>2
<1> HIDE DEF b
<1> QED BY <1>3, <1>4, Composed DEF b

(* A front or an end of at most one character. *)
Option(t, c) == t = <<>> \/ t = <<c>>

LEMMA FrontAt ==
  ASSUME NEW s \in Seq(Int), NEW c \in Int, NEW t, Option(t, c)
  PROVE  t \in Seq(Int) /\ (At(s, 0, t) <=> (Len(t) = 1 => s[1] = c))
<1>1. CASE t = <<>>
  BY <1>1 DEF At
<1>2. CASE t = <<c>>
  <2>1. t \in Seq(Int) /\ Len(t) = 1 /\ t[1] = c
    BY <1>2
  <2>2. At(s, 0, t) <=> s[1] = c
    BY <2>1, SMT DEF At
  <2> QED BY <2>1, <2>2
<1> QED BY <1>1, <1>2 DEF Option

LEMMA FormIsAt ==
  ASSUME NEW s \in Seq(Int), NEW top \in Nat, NEW n, NEW R,
         NEW p \in {<<>>, <<Di>>}, NEW w \in {<<>>, <<Zhou>>}, NEW m \in Seq(Int)
  PROVE  Form(s, top, n, p, w, m, R) <=>
           /\ At(s, Len(s) - Len(m), m)
           /\ FormAt(s, top, n, Len(p), Len(w), Len(m), R)
<1>1. /\ Di \in Int /\ Zhou \in Int /\ Len(m) \in Nat
      /\ Option(p, Di) /\ Option(w, Zhou)
  BY DEF Di, Zhou, Option
<1>2. p \in Seq(Int) /\ (At(s, 0, p) <=> (Len(p) = 1 => s[1] = Di))
  BY <1>1, FrontAt, Zenon
<1>3. /\ w \in Seq(Int)
      /\ At(s, Len(s) - Len(m) - Len(w), w) <=> (Len(w) = 1 => s[Len(s) - Len(m)] = Zhou)
  <2>1. w \in Seq(Int)
    BY <1>1, FrontAt, Zenon
  <2>2. At(s, Len(s) - Len(m) - Len(w), w) <=> (Len(w) = 1 => s[Len(s) - Len(m)] = Zhou)
    <3>1. CASE w = <<>>
      BY <3>1 DEF At
    <3>2. CASE w = <<Zhou>>
      <4>1. Len(w) = 1 /\ w[1] = Zhou
        BY <3>2
      <4>2. Len(s) - Len(m) - 1 + 1 = Len(s) - Len(m) /\ 1 .. 1 = {1}
        BY <1>1
      <4>3. At(s, Len(s) - Len(m) - Len(w), w) <=> s[Len(s) - Len(m)] = Zhou
        BY <4>1, <4>2, Zenon DEF At
      <4> QED BY <4>1, <4>3
    <3> QED BY <3>1, <3>2
  <2> QED BY <2>1, <2>2
<1>4. Form(s, top, n, p, w, m, R) <=>
        /\ Len(p) + Len(w) + Len(m) < Len(s)
        /\ At(s, 0, p) /\ At(s, Len(s) - Len(m) - Len(w), w)
        /\ At(s, Len(s) - Len(m), m)
        /\ n \in Said(Cut(s, Len(p), Len(m) + Len(w)), top) /\ n % 2 \in R
  BY <1>2, <1>3, FormJoined
<1> QED BY <1>2, <1>3, <1>4, Zenon DEF FormAt

SomeFormAt(s, top, n, k, R) ==
  \E l \in {0, 1}, z \in {0, 1} : MarkedAt(s, k, R) /\ FormAt(s, top, n, l, z, k, R)

LEMMA SomeFormIsAt ==
  ASSUME NEW s \in Seq(Int), NEW top \in Nat, NEW n, NEW R,
         NEW m \in Seq(Int), Len(s) > Len(m) =>
           (At(s, Len(s) - Len(m), m) <=> MarkedAt(s, Len(m), R))
  PROVE  SomeForm(s, top, n, m, R) <=> SomeFormAt(s, top, n, Len(m), R)
<1> DEFINE A(l, z) == MarkedAt(s, Len(m), R) /\ FormAt(s, top, n, l, z, Len(m), R)
<1>1. ASSUME NEW p \in {<<>>, <<Di>>}, NEW w \in {<<>>, <<Zhou>>}
      PROVE  Form(s, top, n, p, w, m, R) <=> A(Len(p), Len(w))
  <2>1. Len(p) \in {0, 1} /\ Len(w) \in {0, 1} /\ Len(m) \in Nat /\ Len(s) \in Nat
    OBVIOUS
  <2>2. FormAt(s, top, n, Len(p), Len(w), Len(m), R) => Len(s) > Len(m)
    BY <2>1 DEF FormAt
  <2> QED BY <2>2, FormIsAt
<1>2. Len(<<>>) = 0 /\ Len(<<Di>>) = 1 /\ Len(<<Zhou>>) = 1
  OBVIOUS
<1>3. SomeForm(s, top, n, m, R) <=>
        \E p \in {<<>>, <<Di>>}, w \in {<<>>, <<Zhou>>} : A(Len(p), Len(w))
  <2> HIDE DEF A
  <2> QED BY <1>1, Zenon DEF SomeForm
<1>4. SomeFormAt(s, top, n, Len(m), R) <=> \E l \in {0, 1}, z \in {0, 1} : A(l, z)
  BY Zenon DEF SomeFormAt
<1>5. (\E p \in {<<>>, <<Di>>}, w \in {<<>>, <<Zhou>>} : A(Len(p), Len(w)))
        <=> \E l \in {0, 1}, z \in {0, 1} : A(l, z)
  <2> HIDE DEF A
  <2> QED BY <1>2, Zenon
<1> HIDE DEF A
<1> QED BY <1>3, <1>4, <1>5

LEMMA MarksAt ==
  ASSUME NEW s \in Seq(Int)
  PROVE  /\ At(s, Len(s) - 0, <<>>) <=> MarkedAt(s, 0, {0, 1})
         /\ Len(s) > 1 => (At(s, Len(s) - 1, <<Dan>>) <=> MarkedAt(s, 1, {1}))
         /\ Len(s) > 1 => (At(s, Len(s) - 1, <<Shuang>>) <=> MarkedAt(s, 1, {0}))
         /\ Len(s) > 2 => (At(s, Len(s) - 2, <<Dan, Zhou>>) <=> MarkedAt(s, 2, {1}))
         /\ Len(s) > 2 => (At(s, Len(s) - 2, <<Shuang, Zhou>>) <=> MarkedAt(s, 2, {0}))
<1>1. /\ Len(s) \in Nat /\ 1 .. 1 = {1} /\ 1 .. 2 = {1, 2}
      /\ Len(s) - 1 + 1 = Len(s) /\ Len(s) - 2 + 1 = Len(s) - 1
      /\ Len(s) - 2 + 2 = Len(s)
  OBVIOUS
<1>2. ASSUME NEW c PROVE At(s, Len(s) - 1, <<c>>) <=> s[Len(s)] = c
  <2>1. Len(<<c>>) = 1 /\ <<c>>[1] = c
    OBVIOUS
  <2> QED BY <1>1, <2>1, Zenon DEF At
<1>3. ASSUME NEW c
      PROVE  At(s, Len(s) - 2, <<c, Zhou>>) <=> s[Len(s) - 1] = c /\ s[Len(s)] = Zhou
  <2>1. Len(<<c, Zhou>>) = 2 /\ <<c, Zhou>>[1] = c /\ <<c, Zhou>>[2] = Zhou
    OBVIOUS
  <2> QED BY <1>1, <2>1, Zenon DEF At
<1>4. At(s, Len(s) - 0, <<>>) /\ MarkedAt(s, 0, {0, 1})
  BY DEF At, MarkedAt
<1>5. /\ \A R : MarkedAt(s, 1, R) <=>
           /\ Len(s) >= 1
           /\ \/ s[Len(s)] = Dan /\ R = {1}
              \/ s[Len(s)] = Shuang /\ R = {0}
      /\ \A R : MarkedAt(s, 2, R) <=>
           /\ Len(s) >= 2 /\ s[Len(s)] = Zhou
           /\ \/ s[Len(s) - 1] = Dan /\ R = {1}
              \/ s[Len(s) - 1] = Shuang /\ R = {0}
  BY DEF MarkedAt
<1>6. {0} # {1}
  OBVIOUS
<1>7. (Len(s) > 1 => Len(s) >= 1) /\ (Len(s) > 2 => Len(s) >= 2)
  BY <1>1
<1> QED BY <1>2, <1>3, <1>4, <1>5, <1>6, <1>7, Zenon

LEMMA WeeksSaidAt ==
  ASSUME NEW s \in Seq(Int), NEW top \in Nat, NEW n
  PROVE  n \in WeeksSaid(s, top) <=>
           \/ SomeFormAt(s, top, n, 0, {0, 1})
           \/ SomeFormAt(s, top, n, 1, {1}) \/ SomeFormAt(s, top, n, 2, {1})
           \/ SomeFormAt(s, top, n, 1, {0}) \/ SomeFormAt(s, top, n, 2, {0})
<1>1. /\ <<>> \in Seq(Int) /\ Len(<<>>) = 0
      /\ <<Dan>> \in Seq(Int) /\ Len(<<Dan>>) = 1
      /\ <<Dan, Zhou>> \in Seq(Int) /\ Len(<<Dan, Zhou>>) = 2
      /\ <<Shuang>> \in Seq(Int) /\ Len(<<Shuang>>) = 1
      /\ <<Shuang, Zhou>> \in Seq(Int) /\ Len(<<Shuang, Zhou>>) = 2
  BY DEF Dan, Shuang, Zhou
<1>2. SomeForm(s, top, n, <<>>, {0, 1}) <=> SomeFormAt(s, top, n, 0, {0, 1})
  BY <1>1, MarksAt, SomeFormIsAt
<1>3. SomeForm(s, top, n, <<Dan>>, {1}) <=> SomeFormAt(s, top, n, 1, {1})
  BY <1>1, MarksAt, SomeFormIsAt
<1>4. SomeForm(s, top, n, <<Dan, Zhou>>, {1}) <=> SomeFormAt(s, top, n, 2, {1})
  BY <1>1, MarksAt, SomeFormIsAt
<1>5. SomeForm(s, top, n, <<Shuang>>, {0}) <=> SomeFormAt(s, top, n, 1, {0})
  BY <1>1, MarksAt, SomeFormIsAt
<1>6. SomeForm(s, top, n, <<Shuang, Zhou>>, {0}) <=> SomeFormAt(s, top, n, 2, {0})
  BY <1>1, MarksAt, SomeFormIsAt
<1> QED BY <1>2, <1>3, <1>4, <1>5, <1>6, WeeksSaidForms
-----------------------------------------------------------------------------
(* A segment has one form at most, and it is the one that the code finds. *)
LEMMA FormFound ==
  ASSUME NEW s \in Seq(Int), NEW top \in Nat, NEW n, NEW R,
         NEW l \in {0, 1}, NEW z \in {0, 1}, NEW k \in {0, 1, 2},
         MarkedAt(s, k, R), FormAt(s, top, n, l, z, k, R)
  PROVE  /\ Mark(s).length = k /\ Mark(s).rests = R
         /\ LeftOf(s, k) = l /\ RightOf(s, k) = z
<1> DEFINE b == Cut(s, l, k + z)
<1>0. \A X : MarkedAt(s, 0, X) => X = {0, 1}
  BY DEF MarkedAt
<1>1. Len(s) \in Nat /\ l + z + k < Len(s)
  BY DEF FormAt
<1>2. /\ b \in Seq(Int) /\ Len(b) = Len(s) - (k + z) - l
      /\ \A i \in 1 .. Len(s) - (k + z) - l : b[i] = s[l + i]
  <2>1. l \in Nat /\ k + z \in Nat /\ l + (k + z) < Len(s)
    BY <1>1
  <2> QED BY <2>1, CutIsCell
<1>3. \A i \in 1 .. Len(b) : b[i] >= Dash
  <2>1. n \in Said(b, top)
    BY DEF FormAt
  <2> HIDE DEF b
  <2> QED BY <1>2, <2>1, SaidChars
<1> HIDE DEF b
<1>4. s[l + 1] >= Dash /\ s[Len(s) - k - z] >= Dash
  <2>1. 1 \in 1 .. Len(s) - (k + z) - l
    BY <1>1
  <2>2. /\ Len(s) - (k + z) - l \in 1 .. Len(s) - (k + z) - l
        /\ l + (Len(s) - (k + z) - l) = Len(s) - k - z
    BY <1>1
  <2> QED BY <1>2, <1>3, <2>1, <2>2, Zenon
<1>5. /\ l = 1 => s[1] = Di
      /\ z = 1 => s[Len(s) - k] = Zhou
  BY DEF FormAt
<1>6. LeftOf(s, k) = l
  <2>1. CASE l = 0
    <3>1. s[1] >= Dash
      BY <1>4, <2>1
    <3> QED BY <2>1, <3>1 DEF LeftOf, Di, Dash
  <2>2. CASE l = 1
    <3>1. k < Len(s) /\ s[1] = Di
      BY <1>1, <1>5, <2>2
    <3> QED BY <2>2, <3>1 DEF LeftOf
  <2> QED BY <2>1, <2>2
<1>7. RightOf(s, k) = z
  <2>1. l + k < Len(s)
    BY <1>1
  <2>2. CASE z = 0
    <3>1. s[Len(s) - k] >= Dash
      <4>1. Len(s) - k - z = Len(s) - k
        BY <1>1, <2>2
      <4> QED BY <1>4, <4>1
    <3> QED BY <2>2, <3>1 DEF RightOf, Zhou, Dash
  <2>3. CASE z = 1
    BY <1>5, <1>6, <2>1, <2>3 DEF RightOf
  <2> QED BY <2>2, <2>3
<1>8. PICK x \in {0, 1, 2}, X \in {{0, 1}, {0}, {1}} :
        /\ Mark(s) = [length |-> x, rests |-> X] /\ MarkedAt(s, x, X)
        /\ \A y, Y : MarkedAt(s, y, Y) /\ y # 0 => y = x /\ Y = X
  BY MarkFound
<1>9. x = k /\ X = R
  <2>1. CASE k # 0
    BY <1>8, <2>1
  <2>2. CASE k = 0 /\ z = 0
    <3>1. s[Len(s)] >= Dash
      <4>1. Len(s) - k - z = Len(s)
        BY <1>1, <2>2
      <4> QED BY <1>4, <4>1
    <3>2. x = 0
      BY <1>8, <3>1 DEF MarkedAt, Dash, Dan, Shuang, Zhou
    <3> QED BY <1>0, <1>8, <2>2, <3>2, Zenon
  <2>3. CASE k = 0 /\ z = 1
    <3>1. s[Len(s)] = Zhou /\ s[Len(s) - 1] >= Dash
      <4>1. Len(s) - k = Len(s) /\ Len(s) - k - z = Len(s) - 1
        BY <1>1, <2>3
      <4> QED BY <1>4, <1>5, <2>3, <4>1
    <3>2. x = 0
      BY <1>8, <3>1 DEF MarkedAt, Dash, Dan, Shuang, Zhou
    <3> QED BY <1>0, <1>8, <2>3, <3>2, Zenon
  <2> QED BY <2>1, <2>2, <2>3
<1> QED BY <1>6, <1>7, <1>8, <1>9

(* _parse_single_week_part reads a segment as what its form says. *)
LEMMA SegmentSaid ==
  ASSUME NEW s \in Seq(Int), NEW total \in Nat
  PROVE  SegmentWeeks(s, total) = WeeksSaid(s, total)
<1> DEFINE k == Mark(s).length
           R == Mark(s).rests
           l == LeftOf(s, k)
           z == RightOf(s, k)
<1>1. k \in {0, 1, 2} /\ MarkedAt(s, k, R)
  <2>1. PICK x \in {0, 1, 2}, X \in {{0, 1}, {0}, {1}} :
          Mark(s) = [length |-> x, rests |-> X] /\ MarkedAt(s, x, X)
    BY MarkFound
  <2> QED BY <2>1
<1>2. Core(s) = Cut(s, l, k + z)
  BY CoreIsCut
<1> HIDE DEF k, R
<1>3. l \in {0, 1} /\ z \in {0, 1}
  BY DEF LeftOf, RightOf
<1>4. l = 1 => s[1] = Di
  BY DEF LeftOf
<1>5. z = 1 => s[Len(s) - k] = Zhou
  BY DEF RightOf
<1> HIDE DEF l, z
<1>6. /\ Core(s) \in Seq(Int)
      /\ Len(Core(s)) = IF l + (k + z) < Len(s) THEN Len(s) - (k + z) - l ELSE 0
  <2>1. l \in Nat /\ k + z \in Nat
    BY <1>1, <1>3
  <2> QED BY <1>2, <2>1, CutIsCell
<1>7. \A n : n \in SegmentWeeks(s, total) <=> n \in Said(Core(s), total) /\ n % 2 \in R
  <2>1. IntRange(Core(s), 1, total) = Said(Core(s), total)
    BY <1>6, RangeSaid
  <2> QED BY <2>1, Zenon DEF SegmentWeeks, R
<1>8. ASSUME NEW n \in SegmentWeeks(s, total)
      PROVE  n \in WeeksSaid(s, total)
  <2>1. n \in Said(Core(s), total) /\ n % 2 \in R
    BY <1>7
  <2>2. Len(Core(s)) >= 1
    BY <1>6, <2>1, SaidChars
  <2>3. l + z + k < Len(s)
    BY <1>1, <1>3, <1>6, <2>2
  <2>4. FormAt(s, total, n, l, z, k, R)
    BY <1>2, <1>4, <1>5, <2>1, <2>3, Zenon DEF FormAt
  <2>5. SomeFormAt(s, total, n, k, R)
    BY <1>1, <1>3, <2>4, Zenon DEF SomeFormAt
  <2>6. \/ k = 0 /\ R = {0, 1}
        \/ k = 1 /\ R = {1}
        \/ k = 2 /\ R = {1}
        \/ k = 1 /\ R = {0}
        \/ k = 2 /\ R = {0}
    BY <1>1 DEF MarkedAt
  <2> QED BY <2>5, <2>6, WeeksSaidAt, Zenon
<1>9. ASSUME NEW n \in WeeksSaid(s, total)
      PROVE  n \in SegmentWeeks(s, total)
  <2>1. PICK x \in {0, 1, 2}, X \in {{0, 1}, {0}, {1}} : SomeFormAt(s, total, n, x, X)
    BY WeeksSaidAt, Zenon
  <2>2. PICK a \in {0, 1}, b \in {0, 1} :
          MarkedAt(s, x, X) /\ FormAt(s, total, n, a, b, x, X)
    BY <2>1, Zenon DEF SomeFormAt
  <2>3. k = x /\ R = X /\ LeftOf(s, x) = a /\ RightOf(s, x) = b
    BY <2>2, FormFound DEF k, R
  <2>4. l = a /\ z = b
    BY <2>3, Zenon DEF l, z
  <2>5. n \in Said(Core(s), total) /\ n % 2 \in R
    BY <1>2, <2>2, <2>3, <2>4, Zenon DEF FormAt
  <2> QED BY <1>7, <2>5
<1> QED BY <1>8, <1>9

-----------------------------------------------------------------------------
(* The cell that is typed is a cell. *)
CellOK == cell \in Seq(Int)

LEMMA CellIsTyped == Spec => []CellOK
<1>1. Init => CellOK
  BY DEF Init, CellOK
<1>2. CellOK /\ [Next]_cell => CellOK'
  <2> SUFFICES ASSUME CellOK, [Next]_cell PROVE CellOK'
    OBVIOUS
  <2>1. CASE Next
    <3>1. PICK c \in CellChars : cell' = Append(cell, c)
      BY <2>1 DEF Next, Type
    <3>2. c \in Int
      BY CellAssumption
      DEF CellChars, CellAssumption, Dash, Comma, Di, Zhou, Dan, Shuang, Jie, Xiao, Da
    <3> QED BY <3>1, <3>2 DEF CellOK
  <2>2. CASE UNCHANGED cell
    BY <2>2 DEF CellOK
  <2> QED BY <2>1, <2>2
<1> QED BY <1>1, <1>2, PTL DEF Spec

(* parse_weeks reads every cell as the weeks that its segments say, and     *)
(* refuses every other.                                                     *)
THEOREM WeeksAreRead == Spec => []WeeksAsWritten
<1>1. CellOK => WeeksAsWritten
  <2> SUFFICES ASSUME CellOK, NEW total \in CellTotals
               PROVE  ParseWeeks(cell, total)
                        = Together({WeeksSaid(seg, total) : seg \in Segments(cell)})
    BY DEF WeeksAsWritten
  <2>1. total \in Nat
    BY CellAssumption
  <2>2. Segments(cell) \subseteq Seq(Int)
    BY SegmentsAreCells DEF CellOK
  <2>3. ASSUME NEW seg \in Segments(cell)
        PROVE  SegmentWeeks(seg, total) = WeeksSaid(seg, total)
    BY <2>1, <2>2, SegmentSaid
  <2>4. {SegmentWeeks(seg, total) : seg \in Segments(cell)}
          = {WeeksSaid(seg, total) : seg \in Segments(cell)}
    BY <2>3
  <2> QED BY <2>4, Zenon DEF ParseWeeks
<1> QED BY <1>1, CellIsTyped, PTL

(* What is said of numbers is said within the bound. *)
LEMMA SlotsOfPeriods ==
  ASSUME NEW s \in Seq(Int)
  PROVE  {SlotMapping(p) : p \in Said(s, 10)} = SlotsSaid(s)
<1>1. \A p \in Said(s, 10) : p \in 1 .. 10
  BY DEF Said
<1>2. \A p \in 1 .. 10 : /\ SlotMapping(p) \in 1 .. 5
                         /\ p \in {2 * SlotMapping(p) - 1, 2 * SlotMapping(p)}
  BY DEF SlotMapping
<1>3. \A slot \in 1 .. 5 : \A p \in {2 * slot - 1, 2 * slot} : SlotMapping(p) = slot
  BY DEF SlotMapping
<1>4. ASSUME NEW p \in Said(s, 10) PROVE SlotMapping(p) \in SlotsSaid(s)
  BY <1>1, <1>2 DEF SlotsSaid
<1>5. ASSUME NEW slot \in SlotsSaid(s)
      PROVE  \E p \in Said(s, 10) : slot = SlotMapping(p)
  <2>1. slot \in 1 .. 5 /\ \E p \in Said(s, 10) : p \in {2 * slot - 1, 2 * slot}
    BY DEF SlotsSaid
  <2> QED BY <1>3, <2>1
<1> QED BY <1>4, <1>5

(* parse_period reads every cell as the slots that its segments say, and    *)
(* refuses every other.                                                     *)
THEOREM PeriodsAreRead == Spec => []PeriodsAsWritten
<1> DEFINE big == \E i \in DOMAIN cell : cell[i] = Da
           bare == Without(cell, {Di, Jie, IF big THEN Da ELSE Xiao})
<1>1. ASSUME CellOK PROVE Segments(bare) \subseteq Seq(Int)
  <2>1. bare \in Seq(Int)
    BY <1>1, WithoutIsCell DEF CellOK
  <2> QED BY <2>1, SegmentsAreCells
<1>2. ASSUME CellOK, big
      PROVE  ParsePeriod(cell) = Together({Said(seg, 5) : seg \in Segments(bare)})
  <2>1. {Di, Da, Jie} = {Di, Jie, Da}
    OBVIOUS
  <2>2. bare = Without(cell, {Di, Da, Jie})
    BY <1>2, <2>1, Zenon
  <2>3. ASSUME NEW seg \in Segments(bare) PROVE IntRange(seg, 1, MaxSlot) = Said(seg, 5)
    <3> HIDE DEF bare
    <3> QED BY <1>1, <1>2, RangeSaid DEF MaxSlot
  <2>4. ParsePeriod(cell)
          = Together({IntRange(seg, 1, MaxSlot) : seg \in Segments(bare)})
    BY <1>2, <2>2, Zenon DEF ParsePeriod
  <2> HIDE DEF bare
  <2>5. {IntRange(seg, 1, MaxSlot) : seg \in Segments(bare)}
          = {Said(seg, 5) : seg \in Segments(bare)}
    BY <2>3
  <2> QED BY <2>4, <2>5, Zenon
<1>3. ASSUME CellOK, ~big
      PROVE  ParsePeriod(cell) = Together({SlotsSaid(seg) : seg \in Segments(bare)})
  <2>1. bare = Without(cell, {Di, Jie, Xiao})
    BY <1>3, Zenon
  <2>2. ASSUME NEW seg \in Segments(bare)
        PROVE  {SlotMapping(p) : p \in IntRange(seg, 1, 10)} = SlotsSaid(seg)
    <3> HIDE DEF bare
    <3>1. seg \in Seq(Int)
      BY <1>1, <1>3
    <3>2. IntRange(seg, 1, 10) = Said(seg, 10)
      BY <3>1, RangeSaid
    <3> QED BY <3>1, <3>2, SlotsOfPeriods
  <2>3. ParsePeriod(cell)
          = Together({{SlotMapping(p) : p \in IntRange(seg, 1, 10)} :
                        seg \in Segments(bare)})
    BY <1>3, <2>1, Zenon DEF ParsePeriod
  <2> HIDE DEF bare
  <2>4. {{SlotMapping(p) : p \in IntRange(seg, 1, 10)} : seg \in Segments(bare)}
          = {SlotsSaid(seg) : seg \in Segments(bare)}
    BY <2>2
  <2> QED BY <2>3, <2>4, Zenon
<1>4. CellOK => PeriodsAsWritten
  BY <1>2, <1>3 DEF PeriodsAsWritten
<1> QED BY <1>4, CellIsTyped, PTL
=============================================================================
