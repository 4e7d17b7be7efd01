----------------------------- MODULE TimeSlots -----------------------------
(***************************************************************************)
(* The week and period cells of a timetable: common/parsing/time_slots.py. *)
(* A cell is a sequence of characters after normalisation (blanks removed, *)
(* full-width digits and punctuation replaced).  Digits stand for          *)
(* themselves, the other characters for negative numbers.  A cell that the *)
(* code refuses (ValueError) is read as the empty set, which no accepted   *)
(* cell is.                                                                *)
(***************************************************************************)
EXTENDS Integers, Sequences

Dash == -1
Comma == -2
Di == -3
Zhou == -4
Dan == -5
Shuang == -6
Jie == -7
Xiao == -8
Da == -9
-----------------------------------------------------------------------------
(* Characters and numbers *)

IsNumber(s) == s # <<>> /\ \A i \in DOMAIN s : s[i] >= 0

(* int(s) *)
Value(s) ==
  LET value[i \in 0 .. Len(s)] ==
        IF i = 0 THEN 0 ELSE 10 * value[i - 1] + s[i]
  IN  value[Len(s)]

Ends(s, tail) ==
  Len(tail) <= Len(s) /\ SubSeq(s, Len(s) - Len(tail) + 1, Len(s)) = tail

Shortened(s, n) == SubSeq(s, 1, Len(s) - n)

Without(s, C) ==
  LET kept[i \in 0 .. Len(s)] ==
        IF i = 0 THEN <<>>
        ELSE IF s[i] \in C THEN kept[i - 1] ELSE Append(kept[i - 1], s[i])
  IN  kept[Len(s)]

(* s.split(","): what lies between two neighbouring cuts. *)
Segments(s) ==
  LET cuts == {0, Len(s) + 1} \cup {i \in DOMAIN s : s[i] = Comma}
      After(i) == CHOOSE j \in cuts :
                    j > i /\ \A k \in cuts : k > i => k >= j
  IN  {SubSeq(s, i + 1, After(i) - 1) : i \in cuts \ {Len(s) + 1}}

(* One segment that is refused refuses the cell. *)
Together(readings) == IF {} \in readings THEN {} ELSE UNION readings

(* _parse_int_range: a number or a range of two, within lo .. hi. *)
IntRange(s, lo, hi) ==
  LET dashes == {i \in DOMAIN s : s[i] = Dash}
      i == CHOOSE k \in dashes : TRUE
      a == SubSeq(s, 1, i - 1)
      b == SubSeq(s, i + 1, Len(s))
  IN
  IF IsNumber(s) THEN {Value(s)} \cap (lo .. hi)
  ELSE IF \/ dashes = {} \/ ~IsNumber(a) \/ ~IsNumber(b)
          \/ Value(a) < lo \/ Value(b) > hi
       THEN {} ELSE Value(a) .. Value(b)
-----------------------------------------------------------------------------
(* Weeks *)

(* The mark a segment ends with and the parity it asks for. *)
(* mutant: the short marks are looked for first *)
Mark_ShortFirst(s) ==
  CASE Ends(s, <<Dan>>)          -> [length |-> 1, rests |-> {1}]
    [] Ends(s, <<Shuang>>)       -> [length |-> 1, rests |-> {0}]
    [] OTHER                     -> [length |-> 0, rests |-> {0, 1}]
Mark(s) ==
  CASE Ends(s, <<Dan, Zhou>>)    -> [length |-> 2, rests |-> {1}]
    [] Ends(s, <<Shuang, Zhou>>) -> [length |-> 2, rests |-> {0}]
    [] Ends(s, <<Dan>>)          -> [length |-> 1, rests |-> {1}]
    [] Ends(s, <<Shuang>>)       -> [length |-> 1, rests |-> {0}]
    [] OTHER                     -> [length |-> 0, rests |-> {0, 1}]

(* What is left of a segment without its mark and decoration. *)
Core(s) ==
  LET unmarked == Shortened(s, Mark(s).length)
      bare == IF unmarked # <<>> /\ Head(unmarked) = Di
              THEN Tail(unmarked) ELSE unmarked
  IN  IF Ends(bare, <<Zhou>>) THEN Shortened(bare, 1) ELSE bare

(* The characters the code refuses in a core are no digits, so IntRange     *)
(* refuses them too. *)
SegmentWeeks(s, total) ==
  {w \in IntRange(Core(s), 1, total) : w % 2 \in Mark(s).rests}

ParseWeeks(s, total) ==
  Together({SegmentWeeks(seg, total) : seg \in Segments(s)})
-----------------------------------------------------------------------------
(* Periods *)

(* DEFAULT_SLOT_MAPPING: two small periods make a slot. *)
(* mutant: the pairs begin one period late *)
SlotMapping_Late(p) == (p + 2) \div 2
SlotMapping(p) == (p + 1) \div 2
MaxSlot == 5

(* A cell with "da" names slots, any other names small periods. *)
ParsePeriod(s) ==
  IF \E i \in DOMAIN s : s[i] = Da
  THEN Together({IntRange(seg, 1, MaxSlot) :
                   seg \in Segments(Without(s, {Di, Da, Jie}))})
  ELSE Together({{SlotMapping(p) : p \in IntRange(seg, 1, 10)} :
                   seg \in Segments(Without(s, {Di, Jie, Xiao}))})
=============================================================================
