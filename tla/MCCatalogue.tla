---------------------------- MODULE MCCatalogue -----------------------------
(***************************************************************************)
(* One class, which has one of two colleges, two students with numbers of  *)
(* two, one course.  Students are listed without a filter, by status and   *)
(* by the college of their class, one on a page.                           *)
(***************************************************************************)
EXTENDS Catalogue, TLC

CONSTANTS Numbers, Colleges, One

MCCodes == [ class |-> {One}, student |-> Numbers, course |-> {One} ]

MCNames == [ class |-> Colleges, student |-> {One}, course |-> {One} ]

MCMaxId == [ class |-> 1, student |-> 2, course |-> 1 ]

All == [ name |-> NotGiven, status |-> NotGiven, cls |-> NotGiven, college |-> NotGiven ]

MCFilters ==
  [ class |-> {}, course |-> {},
    student |-> { All, [All EXCEPT !.status = "ACTIVE"] } \cup
                { [All EXCEPT !.college = n] : n \in Colleges } ]

\* Nothing reads the audit log: states that differ in it alone are one.  A step's
\* audit row is checked on every step, also on one to a state already seen.
MCView == << rows, taken, req, walk >>

MCSymmetry == Permutations(Reqs) \cup Permutations(Numbers) \cup Permutations(Colleges)

=============================================================================
