----------------------------- MODULE MCRowLocks -----------------------------
(***************************************************************************)
(* Two accounts and the rows they meet on: account 2 is bound to student 1,*)
(* class 1 and schedule 1 belong to semester 1.                            *)
(***************************************************************************)
EXTENDS RowLocks

MCCall(h, a, t, s) ==
  [op |-> h, actor |-> a, target |-> t, semester |-> s, item |-> 1, student |-> 1]

\* One handler of each group, by one or both of the accounts.
MCCalls ==
  { MCCall("update_semester", 1, 1, 1), MCCall("update_teaching_class", 1, 1, 1),
    MCCall("create_schedule", 2, 2, 1), MCCall("update_schedule", 2, 2, 1),
    MCCall("assign_roles", 2, 1, 1), MCCall("update_student", 1, 1, 1),
    MCCall("replace_roster", 2, 2, 1), MCCall("preview_roster", 1, 1, 1),
    MCCall("preview_for_semester", 2, 2, 1), MCCall("confirm_roster", 1, 1, 1),
    MCCall("confirm_volunteer", 2, 2, 2), MCCall("confirm_timetable", 1, 1, 1),
    MCCall("upsert_volunteer_qualification", 1, 2, 1),
    MCCall("admin_reset_binding", 1, 2, 1), MCCall("bind_student", 2, 2, 1),
    MCCall("issue_binding_token", 1, 1, 1), MCCall("revoke_binding_token", 2, 2, 1),
    MCCall("login_web", 2, 2, 1), MCCall("refresh", 2, 2, 1), MCCall("logout", 2, 2, 1) }

=============================================================================
