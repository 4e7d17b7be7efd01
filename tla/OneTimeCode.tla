---------------------------- MODULE OneTimeCode -----------------------------
(***************************************************************************)
(* What a binding code promises: it is issued once, and then it is either  *)
(* spent once or void for ever.  Identity implements this.                 *)
(***************************************************************************)
EXTENDS Naturals

CONSTANTS Codes  \* codes that may be issued

VARIABLES
  phase, \* where each code is in its life
  uses   \* how often each code has been spent

vars == <<phase, uses>>

Phases == {"unissued", "open", "spent", "void"}

Init ==
  /\ phase = [c \in Codes |-> "unissued"]
  /\ uses = [c \in Codes |-> 0]

Issue(c) ==
  /\ phase[c] = "unissued"
  /\ phase' = [phase EXCEPT ![c] = "open"]
  /\ UNCHANGED uses

Spend(c) ==
  /\ phase[c] = "open"
  /\ phase' = [phase EXCEPT ![c] = "spent"]
  /\ uses' = [uses EXCEPT ![c] = @ + 1]

Void(c) ==
  /\ phase[c] = "open"
  /\ phase' = [phase EXCEPT ![c] = "void"]
  /\ UNCHANGED uses

Next == \E c \in Codes : Issue(c) \/ Spend(c) \/ Void(c)

Spec == Init /\ [][Next]_vars
=============================================================================
