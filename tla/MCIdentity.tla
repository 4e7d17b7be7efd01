----------------------------- MODULE MCIdentity -----------------------------
(* Instances of Identity for TLC. *)
EXTENDS Identity, TLC

CONSTANTS manager, alice, teacher

(* An administrator who manages bindings, and an account with no role. *)
MCCodesRoles ==
  [u \in Users |-> IF u = manager THEN {"STUDENT_AFFAIRS_MANAGER"} ELSE {}]

(* A teacher who administers a manager; nobody is SUPER_ADMIN. *)
MCTeacherRoles ==
  [u \in Users |->
     IF u = teacher THEN {"TEACHER_ADMIN"} ELSE {"STUDENT_AFFAIRS_MANAGER"}]

(* The role sets the teacher asks for; some of them are out of bounds. *)
MCDesired ==
  {{}, {"STUDENT_AFFAIRS_MANAGER"}, {"STUDENT_AFFAIRS_MANAGER", "STUDENT"},
   {"TEACHER_ADMIN"}, {"TEACHER_ADMIN", "STUDENT_AFFAIRS_MANAGER"},
   {"SUPER_ADMIN"}}

(* The super administrator may call every handler. *)
MCSuperRoles ==
  [u \in Users |-> IF u = teacher THEN {"SUPER_ADMIN"} ELSE {}]

(* Requests are interchangeable. *)
MCSymmetry == Permutations(Reqs)

(* Codes and students too, where none is marked out. *)
MCAllSymmetry ==
  Permutations(Reqs) \cup Permutations(Tokens) \cup Permutations(Students)
=============================================================================
