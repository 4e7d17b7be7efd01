----------------------------- MODULE CellReader ----------------------------
(***************************************************************************)
(* A cell of a timetable grows character by character, and is read after   *)
(* each as week cell and as period cell: TimeSlots against what the forms  *)
(* that time_slots.py documents say.                                       *)
(***************************************************************************)
EXTENDS TimeSlots

CONSTANTS
  CellDigits, \* the digits that are typed
  CellLength, \* bound: the characters of a cell
  CellTotals  \* the numbers of weeks the cell is read with

ASSUME CellAssumption ==
  CellDigits \subseteq 0 .. 9 /\ CellLength \in Nat /\ CellTotals \subseteq Nat

VARIABLE cell

CellChars ==
  CellDigits \cup {Dash, Comma, Di, Zhou, Dan, Shuang, Jie, Xiao, Da}

Init == cell = <<>>

Type(c) == Len(cell) < CellLength /\ cell' = Append(cell, c)

Next == \E c \in CellChars : Type(c)

Spec == Init /\ [][Next]_cell
-----------------------------------------------------------------------------
(* n is the number, or one of the range of numbers, that s writes down. *)
Says(s, n) ==
  \/ IsNumber(s) /\ n = Value(s)
  \/ \E i \in DOMAIN s :
       LET a == SubSeq(s, 1, i - 1)
           b == SubSeq(s, i + 1, Len(s))
       IN  s[i] = Dash /\ IsNumber(a) /\ IsNumber(b)
           /\ n \in Value(a) .. Value(b)

(* What s says, if all of it is within 1 .. top; a range has no holes, so   *)
(* the numbers next to the bounds tell. *)
Said(s, top) ==
  IF Says(s, 0) \/ Says(s, top + 1) THEN {} ELSE {n \in 1 .. top : Says(s, n)}

(* The forms of a segment of weeks: [di] range [zhou] [mark], where a mark  *)
(* is dan, dan zhou, shuang or shuang zhou. *)
WeeksSaid(s, top) ==
  LET Body(p, w, m) == SubSeq(s, Len(p) + 1, Len(s) - Len(w) - Len(m))
      Form(marks, rests) ==
        UNION {{n \in Said(Body(p, w, m), top) :
                  n % 2 \in rests /\ s = p \o Body(p, w, m) \o w \o m} :
                 p \in {<<>>, <<Di>>}, w \in {<<>>, <<Zhou>>}, m \in marks}
  IN  Form({<<>>}, {0, 1}) \cup Form({<<Dan>>, <<Dan, Zhou>>}, {1})
        \cup Form({<<Shuang>>, <<Shuang, Zhou>>}, {0})

(* A cell is read as the weeks its segments say, if each of them is of one  *)
(* of the forms, stays within the semester and says at least one week;      *)
(* otherwise it is refused (parse_weeks: ranges, lists, marks, decoration). *)
WeeksAsWritten ==
  \A total \in CellTotals :
    ParseWeeks(cell, total)
      = Together({WeeksSaid(seg, total) : seg \in Segments(cell)})

(* A cell of small periods is read as the slots that have one of them, and  *)
(* a cell with "da" as the slots it says; either is refused when it leaves  *)
(* the day (parse_period, with two small periods to each of five slots).    *)
SlotsSaid(s) ==
  {slot \in 1 .. 5 : {2 * slot - 1, 2 * slot} \cap Said(s, 10) # {}}

PeriodsAsWritten ==
  LET big  == \E i \in DOMAIN cell : cell[i] = Da
      bare == Without(cell, {Di, Jie, IF big THEN Da ELSE Xiao})
  IN  ParsePeriod(cell)
        = Together({IF big THEN Said(seg, 5) ELSE SlotsSaid(seg) :
                      seg \in Segments(bare)})
=============================================================================
