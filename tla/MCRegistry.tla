----------------------------- MODULE MCRegistry -----------------------------
(***************************************************************************)
(* Two roles and two permissions, one of each from an earlier release, two *)
(* runs of the seed and one handler at a time.                             *)
(***************************************************************************)
EXTENDS Registry, TLC

CONSTANTS Teacher, Clerk, p1, p2, old

MCRoleCodes == {SuperAdmin, Teacher}
MCCodes == {p1, p2}
MCOldRoles == {Clerk}
MCOldCodes == {old}
MCMatrix == { <<SuperAdmin, p1>>, <<SuperAdmin, p2>>, <<Teacher, p1>> }

MCSymmetry == Permutations(Seeds)
=============================================================================
