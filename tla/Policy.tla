------------------------------- MODULE Policy -------------------------------
(***************************************************************************)
(* Roles, permissions and the boundaries of role assignment:               *)
(* core/permissions.py and modules/identity/policy.py.  Everything here    *)
(* is a constant-level operator; the state machines use them as the code   *)
(* uses the pure functions of policy.py.                                   *)
(***************************************************************************)

RoleCode == {"SUPER_ADMIN", "TEACHER_ADMIN", "STUDENT_AFFAIRS_MANAGER",
             "VOLUNTEER", "STUDENT"}

(* The two identities the system maintains itself, never an administrator. *)
BusinessRoles == {"STUDENT", "VOLUNTEER"}

PermissionCode ==
  {"account.read", "account.manage", "role.assign",
   "optional_permission.manage", "identity.binding.manage", "academic.read",
   "academic.manage", "student.read", "student.manage", "volunteer.read",
   "volunteer.manage", "import.execute", "inspection.read",
   "inspection.generate", "inspection.cancel", "inspection.roster.read",
   "inspection.roster.manage", "assignment.manage",
   "assignment.change_request", "assignment.change_review",
   "submission_deadline.read", "submission_deadline.manage",
   "submission.create", "submission.read", "submission.review",
   "attendance.expected_count_adjust", "attendance.read",
   "attendance.correct", "statistics.read", "report.read",
   "report.generate", "objection.create", "objection.read",
   "objection.initial_review", "objection.final_review", "audit.read",
   "system.config.read", "system.config.manage"}

(* The three permissions that are switched per person. *)
OptionalCodes == {"statistics.read", "report.read", "objection.initial_review"}

AdminBaseline ==
  PermissionCode \ {"assignment.change_request", "submission.create",
                    "objection.create"}

DefaultRolePermissions ==
  [SUPER_ADMIN   |-> AdminBaseline,
   TEACHER_ADMIN |-> AdminBaseline \ {"account.read", "account.manage",
                       "audit.read", "system.config.read",
                       "system.config.manage"},
   STUDENT_AFFAIRS_MANAGER |->
     {"identity.binding.manage", "student.read", "inspection.read",
      "inspection.roster.read", "submission_deadline.read",
      "attendance.read"},
   VOLUNTEER |->
     {"inspection.read", "inspection.roster.read",
      "assignment.change_request", "submission.create", "submission.read"},
   STUDENT |-> {"attendance.read", "objection.create", "objection.read"}]

(* list_effective_permissions: the permissions of a set of roles, and the  *)
(* personal grants that are among the three optional ones.                 *)
EffectivePermissions(roles, grants) ==
  UNION {DefaultRolePermissions[c] : c \in roles} \cup (grants \cap OptionalCodes)

SymmetricDifference(S, T) == (S \ T) \cup (T \ S)

(* can_change_roles: may an actor holding actorRoles turn current into     *)
(* desired?                                                                *)
CanChangeRoles(actorRoles, current, desired) ==
  LET changed == SymmetricDifference(current, desired) IN
  /\ actorRoles \cup current \cup desired \subseteq RoleCode
  /\ changed \cap BusinessRoles = {}
  /\ \/ "SUPER_ADMIN" \in actorRoles
     \/ /\ "TEACHER_ADMIN" \in actorRoles
        /\ changed \subseteq {"STUDENT_AFFAIRS_MANAGER"}

(* assignable_roles: what the target selector offers to the actor. *)
AssignableRoles(actorRoles) ==
  {c \in RoleCode : CanChangeRoles(actorRoles, {}, {c})}
=============================================================================
