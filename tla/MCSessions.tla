---------------------------- MODULE MCSessions -----------------------------
(* Instances of Sessions for TLC. *)
EXTENDS Sessions, TLC

(* Requests, sessions and the accounts of WeChat are interchangeable. *)
MCSymmetry ==
  Permutations(Reqs) \cup Permutations(Sids) \cup Permutations(Users \ WebUsers)
=============================================================================
