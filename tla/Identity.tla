------------------------------ MODULE Identity ------------------------------
(***************************************************************************)
(* Accounts, binding codes, roles and personal grants: the state-changing  *)
(* handlers of modules/identity/service.py, as MySQL runs them, with the   *)
(* volunteer qualifications of academic and importer, which give a role.   *)
(*                                                                         *)
(* A request is two database transactions.  The first authenticates the    *)
(* access token (Resolve); the second opens its REPEATABLE READ snapshot   *)
(* with the first plain SELECT that follows the commit of the first        *)
(* (Snapshot, with the router's permission dependency) and then runs the   *)
(* handler.  Every plain SELECT of the handler, and every object it loads  *)
(* without a lock, is read from that snapshot; a SELECT ... FOR UPDATE, a  *)
(* unique index and an UPDATE see the latest committed row.  All a handler *)
(* locks or writes stays locked until it commits, so the locking reads and *)
(* the writes are one step, the handler's own action.                      *)
(***************************************************************************)
EXTENDS Naturals, FiniteSets, Policy

CONSTANTS
  Users,         \* accounts (user_account rows); all of them ACTIVE
  Students,      \* student rows
  Tokens,        \* binding codes that may be issued
  Sessions,      \* sessions an account may open
  Reqs,          \* requests that may be in progress at once
  None,          \* the SQL NULL
  Kinds,         \* the handlers clients call
  InitRoles,     \* roles each account holds at first
  InitSessions,  \* sessions each account has open at first
  InitQualified, \* students with an enabled qualification at first
  DesiredRoles,  \* role sets an administrator may ask for
  GrantCodes,    \* permission codes an administrator may ask to switch
  MaxVersion,    \* bound on lock_version
  MaxFailed      \* bound on failed_attempts

HandlerKinds ==
  {"bind", "issue", "revoke", "reset", "assign", "optional", "qualify"}

ASSUME NoneAssumption == None \notin Users \cup Students
ASSUME KindsAssumption == Kinds \subseteq HandlerKinds
ASSUME RolesAssumption ==
  /\ InitRoles \in [Users -> SUBSET (RoleCode \ BusinessRoles)]
  /\ DesiredRoles \subseteq SUBSET RoleCode
  /\ GrantCodes \subseteq PermissionCode
ASSUME StartAssumption ==
  /\ InitSessions \subseteq Sessions
  /\ InitQualified \subseteq Students
ASSUME BoundsAssumption == MaxVersion \in Nat /\ MaxFailed \in Nat

VARIABLES
  db,          \* the latest committed rows
  lapsed,      \* issued codes whose expires_at has passed
  req,         \* the requests in progress
  redemptions  \* history: how often each code has been redeemed

vars == <<db, lapsed, req, redemptions>>
-----------------------------------------------------------------------------
(* Rows *)

TokenStatus == {"NONE", "UNUSED", "USED", "EXPIRED"}
SessionState == {"none", "live", "revoked"}

(* volunteer_qualification of the ACTIVE semester: no row, or its "enabled". *)
Qualification == {"none", "off", "on"}

(* identity_binding_token; "used" tells that used_at is set. *)
Token == [status : TokenStatus, used : BOOLEAN,
          student : Students \cup {None}, failed : Nat]

NoToken == [status |-> "NONE", used |-> FALSE, student |-> None, failed |-> 0]

DB == [student   : [Users -> Students \cup {None}],
       version   : [Users -> Nat],
       roles     : [Users -> SUBSET RoleCode],
       grants    : [Users -> SUBSET PermissionCode],
       session   : [Users -> [Sessions -> SessionState]],
       token     : [Tokens -> Token],
       qualification : [Students -> Qualification]]

InitDB ==
  [student   |-> [u \in Users |-> None],
   version   |-> [u \in Users |-> 0],
   roles     |-> InitRoles,
   grants    |-> [u \in Users |-> {}],
   session   |-> [u \in Users |-> [s \in Sessions |->
                    IF s \in InitSessions THEN "live" ELSE "none"]],
   token     |-> [t \in Tokens |-> NoToken],
   qualification |-> [s \in Students |->
                        IF s \in InitQualified THEN "on" ELSE "none"]]

Permissions(d, u) == EffectivePermissions(d.roles[u], d.grants[u])
-----------------------------------------------------------------------------
(* Requests *)

Request == [pc : {"idle", "resolved", "running"},
            kind : HandlerKinds \cup {"none"},
            actor : Users \cup {None}, target : Users \cup {None},
            expected : Nat, snap : DB]

Idle == [pc |-> "idle", kind |-> "none", actor |-> None, target |-> None,
         expected |-> 0, snap |-> InitDB]

(* The permission each administrative route depends on. *)
Required ==
  [issue |-> "identity.binding.manage", revoke |-> "identity.binding.manage",
   reset |-> "identity.binding.manage", assign |-> "role.assign",
   optional |-> "optional_permission.manage", qualify |-> "volunteer.manage"]

Targeted  == {"reset", "assign", "optional"}
Versioned == {"assign", "optional"}

Running(r, k) == req[r].pc = "running" /\ req[r].kind = k

(* What the plain SELECTs of a handler return. *)
View(r) == req[r].snap

(* The handler's own permission check, after it has locked the accounts. *)
Permitted(r) == Required[req[r].kind] \in Permissions(View(r), req[r].actor)

(* Commit: the rows change, the request ends. *)
Commit(r, newDB) ==
  /\ db' = newDB
  /\ req' = [req EXCEPT ![r] = Idle]
  /\ UNCHANGED lapsed
-----------------------------------------------------------------------------
(* Clients and time *)

(* _issue_session: a login opens a session of its own. *)
Login(u) ==
  /\ \E s \in Sessions :
       /\ db.session[u][s] = "none"
       /\ db' = [db EXCEPT !.session[u][s] = "live"]
  /\ UNCHANGED <<lapsed, req, redemptions>>

(* resolve_session_user up to its commit: a live session of the account. *)
Resolve(r, u) ==
  /\ req[r].pc = "idle"
  /\ \E s \in Sessions : db.session[u][s] = "live"
  /\ req' = [req EXCEPT ![r] = [Idle EXCEPT !.pc = "resolved", !.actor = u]]
  /\ UNCHANGED <<db, lapsed, redemptions>>

(* resolve_session_user after its commit, and the dependency of the route:  *)
(* the first SELECT fixes the snapshot of the handler.  The version a       *)
(* client sends is one that it has read earlier, never above the current.   *)
Snapshot(r, k, target, expected) ==
  LET u == req[r].actor IN
  /\ req[r].pc = "resolved"
  /\ k # "bind" => Required[k] \in Permissions(db, u)
  /\ k \notin Targeted => target = u
  /\ IF k \in Versioned THEN expected <= db.version[target] ELSE expected = 0
  /\ req' = [req EXCEPT ![r] =
               [pc |-> "running", kind |-> k, actor |-> u, target |-> target,
                expected |-> expected, snap |-> db]]
  /\ UNCHANGED <<db, lapsed, redemptions>>

(* A refusal, a constraint error, a lost client or a crash before the       *)
(* commit: the transaction rolls back.                                      *)
Rollback(r) ==
  /\ req[r].pc # "idle"
  /\ req' = [req EXCEPT ![r] = Idle]
  /\ UNCHANGED <<db, lapsed, redemptions>>

(* expires_at passes. *)
Lapse(t) ==
  /\ db.token[t].status # "NONE"
  /\ lapsed' = lapsed \cup {t}
  /\ UNCHANGED <<db, req, redemptions>>
-----------------------------------------------------------------------------
(* Binding codes *)

(* mutant: the column default of failed_attempts is missing *)
Issued_NoCounter(s) == [status |-> "UNUSED", used |-> FALSE, student |-> s]
Issued(s) == [status |-> "UNUSED", used |-> FALSE, student |-> s, failed |-> 0]

IssueBindingToken(r, t, s) ==
  /\ Running(r, "issue") /\ Permitted(r)
  /\ db.token[t].status = "NONE"
  /\ Commit(r, [db EXCEPT !.token[t] = Issued(s)])
  /\ UNCHANGED redemptions

(* mutant: a code that was redeemed may be revoked *)
Revocable_AnyStatus(r, t) == View(r).token[t].status # "NONE"
Revocable(r, t) == View(r).token[t].status = "UNUSED"

(* issue_binding_token of seed.py: whoever has a shell on the server issues a *)
(* code, with no account, permission or audit.                               *)
IssueFromShell(t, s) ==
  /\ db.token[t].status = "NONE"
  /\ db' = [db EXCEPT !.token[t] = Issued(s)]
  /\ UNCHANGED <<lapsed, req, redemptions>>

(* The row is loaded without a lock; the UPDATE sets the status alone. *)
RevokeBindingToken(r, t) ==
  /\ Running(r, "revoke") /\ Permitted(r)
  /\ Revocable(r, t)
  /\ Commit(r, [db EXCEPT !.token[t].status = "EXPIRED"])
  /\ UNCHANGED redemptions

(* The account that asks is not bound. *)
Unbound(r) == View(r).student[req[r].actor] = None

(* The row of the code as bind_student sees it: SELECT ... FOR UPDATE. *)
(* mutant: the lock is dropped *)
LockedToken_Unlocked(r, t) == View(r).token[t]
LockedToken(r, t) == db.token[t]

(* mutant: a code that is void passes *)
Redeemable_NotUsed(token) == token.status \notin {"NONE", "USED"} /\ ~token.used
Redeemable(token) == token.status = "UNUSED" /\ ~token.used

(* bind_student up to the state of the code. *)
Presents(r, t) ==
  /\ Running(r, "bind")
  /\ Unbound(r)
  /\ Redeemable(LockedToken(r, t))

BindLapsed(r, t) ==
  /\ Presents(r, t)
  /\ t \in lapsed
  /\ Commit(r, [db EXCEPT !.token[t].status = "EXPIRED"])
  /\ UNCHANGED redemptions

BindMismatch(r, t, s) ==
  /\ Presents(r, t)
  /\ t \notin lapsed
  /\ LockedToken(r, t).student # s
  /\ db.token[t].failed < MaxFailed
  /\ Commit(r, [db EXCEPT !.token[t].failed = @ + 1])
  /\ UNCHANGED redemptions

(* The unique index on user_account.student_id. *)
UniqueStudent(u, s) == \A v \in Users \ {u} : db.student[v] # s

(* The query for another account bound to the student. *)
NoOtherSeen(r, u, s) == \A v \in Users \ {u} : View(r).student[v] # s

(* grant_role inserts what the snapshot lacks. *)
Inserted(r, u, roles) == roles \ View(r).roles[u]

(* The primary key of user_role: an insert of a row that is there rolls back. *)
(* mutant: the rows have no key *)
NewRows_Unkeyed(u, new) == TRUE
NewRows(u, new) == new \cap db.roles[u] = {}

(* _grant_volunteer_if_qualified *)
(* mutant: redeeming a code does not look at the qualification *)
VolunteerGrant_Never(r, u, s) == {}
VolunteerGrant(r, u, s) ==
  IF View(r).qualification[s] = "on" THEN {"VOLUNTEER"} \ View(r).roles[u]
                                     ELSE {}

(* lock_version is computed from the unlocked row: two writes of one more. *)
BoundVersion(r, u, s) ==
  View(r).version[u] + 1 + Cardinality(VolunteerGrant(r, u, s))

(* mutant: the number need not be that of the code's student *)
CodeFits_AnyStudent(r, t, s) == t \notin lapsed
CodeFits(r, t, s) == t \notin lapsed /\ LockedToken(r, t).student = s

BindStudent(r, t, s) ==
  LET u   == req[r].actor
      new == Inserted(r, u, {"STUDENT"}) \cup VolunteerGrant(r, u, s)
  IN
  /\ Presents(r, t)
  /\ CodeFits(r, t, s)
  /\ NoOtherSeen(r, u, s)
  /\ UniqueStudent(u, s)
  /\ NewRows(u, new)
  /\ BoundVersion(r, u, s) <= MaxVersion
  /\ Commit(r, [db EXCEPT !.student[u] = s,
                          !.roles[u] = @ \cup new,
                          !.version[u] = BoundVersion(r, u, s),
                          !.token[t].status = "USED",
                          !.token[t].used = TRUE])
  /\ redemptions' = [redemptions EXCEPT ![t] = @ + 1]
-----------------------------------------------------------------------------
(* Administration of accounts.  _lock_accounts_ordered reads the account   *)
(* rows FOR UPDATE, so lock_version is the latest one; roles and grants    *)
(* are read by plain SELECTs.                                              *)

(* mutant: lock_version is not moved *)
NextVersion_Missing(u) == db.version[u]
NextVersion(u) == db.version[u] + 1

(* revoke_active_sessions: the sessions the snapshot shows as live. *)
SessionsRevoked(r, u) ==
  [s \in Sessions |-> IF View(r).session[u][s] = "live" THEN "revoked"
                                                       ELSE db.session[u][s]]

(* The roles a reset leaves: STUDENT follows the binding. *)
(* mutant: unbinding leaves the role *)
ResetRoles_KeepStudent(r, u, student) ==
  IF student # None THEN db.roles[u] \cup {"STUDENT"} ELSE db.roles[u]
ResetRoles(r, u, student) ==
  IF student # None
  THEN db.roles[u] \cup Inserted(r, u, {"STUDENT"})
  ELSE db.roles[u] \ (View(r).roles[u] \cap {"STUDENT"})

(* student is None to unbind. *)
StudentBindingReset(r, student) ==
  LET u == req[r].target IN
  /\ Running(r, "reset") /\ Permitted(r)
  /\ student # None =>
       /\ NoOtherSeen(r, u, student)
       /\ UniqueStudent(u, student)
       /\ NewRows(u, Inserted(r, u, {"STUDENT"}))
  /\ NextVersion(u) <= MaxVersion
  /\ Commit(r, [db EXCEPT !.student[u] = student,
                          !.roles[u] = ResetRoles(r, u, student),
                          !.session[u] = SessionsRevoked(r, u),
                          !.version[u] = NextVersion(u)])
  /\ UNCHANGED redemptions

(* mutant: lock_version is read without a lock *)
VersionFits_Unlocked(r) == View(r).version[req[r].target] = req[r].expected
VersionFits(r) == db.version[req[r].target] = req[r].expected

(* The ORM aligns the loaded collection with the desired one: it deletes    *)
(* and inserts the difference to the snapshot, and a row that is missing or *)
(* already there rolls the transaction back.                                *)
AlignRoles(r, u, desired) ==
  (db.roles[u] \ (View(r).roles[u] \ desired)) \cup Inserted(r, u, desired)

Aligns(r, u, desired) ==
  /\ View(r).roles[u] \ desired \subseteq db.roles[u]
  /\ NewRows(u, Inserted(r, u, desired))

ManagerRevoked(r, u, desired) ==
  "STUDENT_AFFAIRS_MANAGER" \in View(r).roles[u] \ desired

(* clear_optional_grants, when the manager role goes *)
GrantsKept(r, u, desired) ==
  IF ManagerRevoked(r, u, desired)
  THEN db.grants[u] \ (View(r).grants[u] \cap OptionalCodes)
  ELSE db.grants[u]

(* mutant: the two identities of the system are not set apart *)
MayAssign_Business(r, desired) ==
  LET actorRoles == View(r).roles[req[r].actor] IN
  \/ "SUPER_ADMIN" \in actorRoles
  \/ /\ "TEACHER_ADMIN" \in actorRoles
     /\ SymmetricDifference(View(r).roles[req[r].target], desired)
          \subseteq {"STUDENT_AFFAIRS_MANAGER"} \cup BusinessRoles
(* mutant: only the roles that are given are looked at, none that is taken *)
MayAssign_DesiredOnly(r, desired) ==
  desired \subseteq AssignableRoles(View(r).roles[req[r].actor])
MayAssign(r, desired) ==
  CanChangeRoles(View(r).roles[req[r].actor], View(r).roles[req[r].target],
                 desired)

AssignRoles(r, desired) ==
  LET u == req[r].target IN
  /\ Running(r, "assign") /\ Permitted(r)
  /\ MayAssign(r, desired)
  /\ VersionFits(r)
  /\ Aligns(r, u, desired)
  /\ NextVersion(u) <= MaxVersion
  /\ Commit(r, [db EXCEPT !.roles[u] = AlignRoles(r, u, desired),
                          !.grants[u] = GrantsKept(r, u, desired),
                          !.version[u] = NextVersion(u)])
  /\ UNCHANGED redemptions

(* The target is another account that holds the manager role. *)
MayConfigure(r, code) ==
  /\ code \in OptionalCodes
  /\ req[r].actor # req[r].target
  /\ "STUDENT_AFFAIRS_MANAGER" \in View(r).roles[req[r].target]

SetOptionalPermission(r, code, enabled) ==
  LET u == req[r].target
      new == IF enabled THEN {code} \ View(r).grants[u] ELSE {}
      old == IF enabled THEN {} ELSE {code} \cap View(r).grants[u]
  IN
  /\ Running(r, "optional") /\ Permitted(r)
  /\ MayConfigure(r, code)
  /\ VersionFits(r)
  /\ new \cap db.grants[u] = {}
  /\ NextVersion(u) <= MaxVersion
  /\ Commit(r, [db EXCEPT !.grants[u] = (@ \cup new) \ old,
                          !.version[u] = NextVersion(u)])
  /\ UNCHANGED redemptions
-----------------------------------------------------------------------------
(* Volunteer qualifications: upsert_volunteer_qualification writes one row, *)
(* the confirmation of a volunteer batch as many as the file has (and needs *)
(* import.execute too, which every role with volunteer.manage has).         *)

(* The ORM inserts a row that the snapshot lacks, which the unique index    *)
(* refuses if it is there, and updates one whose value it sees changed.     *)
RowsWritable(r, S) ==
  \A s \in S : View(r).qualification[s] = "none" => db.qualification[s] = "none"

QualificationSet(r, on, off) ==
  [s \in Students |->
     IF s \in on /\ View(r).qualification[s] # "on" THEN "on"
     ELSE IF s \in off /\ View(r).qualification[s] # "off" THEN "off"
     ELSE db.qualification[s]]

(* _grant_volunteer_role, _grant_volunteer_if_bound: the account that is    *)
(* bound in the snapshot, and what roles the snapshot shows it to lack.     *)
QualifiedGrant(r, on, u) ==
  IF View(r).student[u] \in on THEN {"VOLUNTEER"} \ View(r).roles[u] ELSE {}

(* The actor's row has been locked and refreshed, another one has not.      *)
LoadedVersion(r, u) ==
  IF u = req[r].actor THEN db.version[u] ELSE View(r).version[u]

QualifiedVersion(r, on, u) ==
  IF QualifiedGrant(r, on, u) = {} THEN db.version[u] ELSE LoadedVersion(r, u) + 1

Qualify(r, on, off) ==
  /\ Running(r, "qualify") /\ Permitted(r)
  /\ on \cap off = {} /\ on \cup off # {}
  /\ RowsWritable(r, on \cup off)
  /\ \A u \in Users : /\ NewRows(u, QualifiedGrant(r, on, u))
                      /\ QualifiedVersion(r, on, u) <= MaxVersion
  /\ Commit(r, [db EXCEPT
       !.qualification = QualificationSet(r, on, off),
       !.roles = [u \in Users |-> db.roles[u] \cup QualifiedGrant(r, on, u)],
       !.version = [u \in Users |-> QualifiedVersion(r, on, u)]])
  /\ UNCHANGED redemptions
-----------------------------------------------------------------------------
Init ==
  /\ db = InitDB
  /\ lapsed = {}
  /\ req = [r \in Reqs |-> Idle]
  /\ redemptions = [t \in Tokens |-> 0]

Next ==
  \/ \E u \in Users : Login(u)
  \/ \E t \in Tokens : Lapse(t)
  \/ \E t \in Tokens, s \in Students : IssueFromShell(t, s)
  \/ \E r \in Reqs, u \in Users : Resolve(r, u)
  \/ \E r \in Reqs, k \in Kinds, u \in Users, n \in 0 .. MaxVersion :
       Snapshot(r, k, u, n)
  \/ \E r \in Reqs : Rollback(r)
  \/ \E r \in Reqs, t \in Tokens, s \in Students : IssueBindingToken(r, t, s)
  \/ \E r \in Reqs, t \in Tokens : RevokeBindingToken(r, t)
  \/ \E r \in Reqs, t \in Tokens : BindLapsed(r, t)
  \/ \E r \in Reqs, t \in Tokens, s \in Students : BindMismatch(r, t, s)
  \/ \E r \in Reqs, t \in Tokens, s \in Students : BindStudent(r, t, s)
  \/ \E r \in Reqs, s \in Students \cup {None} : StudentBindingReset(r, s)
  \/ \E r \in Reqs, desired \in DesiredRoles : AssignRoles(r, desired)
  \/ \E r \in Reqs, c \in GrantCodes, on \in BOOLEAN :
       SetOptionalPermission(r, c, on)
  \/ \E r \in Reqs, on, off \in SUBSET Students : Qualify(r, on, off)

Spec == Init /\ [][Next]_vars
-----------------------------------------------------------------------------
TypeOK ==
  /\ db \in DB
  /\ lapsed \subseteq Tokens
  /\ req \in [Reqs -> Request]
  /\ redemptions \in [Tokens -> Nat]

(* A binding code is redeemed at most once, whatever is presented, revoked  *)
(* or reset at the same time (bind_student locks the row of the code before *)
(* it looks at its status).                                                 *)
RedeemedOnce == \A t \in Tokens : redemptions[t] <= 1

(* A binding code lives the life of a one-time code: a refinement of        *)
(* OneTimeCode, where a redeemed code counts as spent whatever status a     *)
(* racing revocation writes over it.                                        *)
PhaseOf(token) ==
  CASE token.used               -> "spent"
    [] ~token.used /\ token.status = "NONE"    -> "unissued"
    [] ~token.used /\ token.status = "EXPIRED" -> "void"
    [] OTHER                    -> "open"

CodePhase == [t \in Tokens |-> PhaseOf(db.token[t])]

Code == INSTANCE OneTimeCode
          WITH Codes <- Tokens, phase <- CodePhase, uses <- redemptions

CodesAreOneTime == Code!Spec

(* A code binds no other student than its own: the binding of an account    *)
(* changes only by redeeming a code that is open, in time and issued for that *)
(* student, or by a reset (bind_student and student_binding_reset).         *)
Redeems(u, t) ==
  /\ db.token[t].status = "UNUSED" /\ ~db.token[t].used /\ t \notin lapsed
  /\ db'.token[t].used
  /\ db.token[t].student = db'.student[u]

BindingJustified ==
  [][\A u \in Users :
       db'.student[u] # db.student[u] =>
         \/ \E r \in Reqs, s \in Students \cup {None} :
              req[r].target = u /\ StudentBindingReset(r, s)
         \/ \E t \in Tokens : Redeems(u, t)]_vars

(* The personal grants of an account last no longer than its manager role   *)
(* (assign_roles clears them in the same transaction; PERMISSIONS.md 6.2).  *)
GrantsNeedManager ==
  \A u \in Users :
    db.grants[u] # {} => "STUDENT_AFFAIRS_MANAGER" \in db.roles[u]

(* Whatever changes the roles, grants or binding of an account moves its    *)
(* lock_version forward, so a client's version identifies what it has read. *)
VersionMovesForward ==
  [][\A u \in Users :
       <<db'.roles[u], db'.grants[u], db'.student[u]>>
         # <<db.roles[u], db.grants[u], db.student[u]>>
       => db'.version[u] > db.version[u]]_vars

(* A role assignment that commits leaves exactly the roles that were asked   *)
(* for and found permitted: the version a client sends covers the snapshot    *)
(* the change is computed from (assign_roles; of two changes with the same    *)
(* version one succeeds).                                                     *)
AssignLeavesDesired ==
  [][\A r \in Reqs, desired \in DesiredRoles :
       AssignRoles(r, desired) => db'.roles[req[r].target] = desired]_vars

(* Assigning roles never adds or removes STUDENT or VOLUNTEER, not even     *)
(* those that another transaction has committed since the snapshot.         *)
BusinessRolesUntouched ==
  [][\A r \in Reqs, desired \in DesiredRoles :
       AssignRoles(r, desired) =>
         \A u \in Users :
           db'.roles[u] \cap BusinessRoles = db.roles[u] \cap BusinessRoles]_vars

(* No sequence of role changes gives anyone an administrator role where     *)
(* nobody is SUPER_ADMIN, and none takes one away (can_change_roles).       *)
ProtectedRoles == {"SUPER_ADMIN", "TEACHER_ADMIN"}

NoEscalation ==
  (\A u \in Users : "SUPER_ADMIN" \notin InitRoles[u]) =>
    \A u \in Users :
      db.roles[u] \cap ProtectedRoles = InitRoles[u] \cap ProtectedRoles

(* STUDENT is held exactly by the bound accounts: the invariant policy.py   *)
(* relies on to let a volunteer inherit the permissions of a student.       *)
StudentRoleIffBound ==
  \A u \in Users : "STUDENT" \in db.roles[u] <=> db.student[u] # None

(* No reset runs while another handler does. *)
ResetsAlone ==
  \A q, r \in Reqs : Running(r, "reset") /\ req[q].pc = "running" => q = r

(* A bound account never binds itself again, not even with two codes at     *)
(* once: rebinding goes through the administrators.  Both looks of          *)
(* bind_student at the binding, also the one after it has locked the code,  *)
(* see the snapshot; what stops the second redemption is the role STUDENT   *)
(* it inserts too.  A reset that overlaps a redemption can leave that role  *)
(* with an unbound account, which nothing stops then: hence ResetsAlone.    *)
SelfServiceBindsOnce ==
  [][\A u \in Users, t \in Tokens :
       redemptions'[t] > redemptions[t] /\ db'.student[u] # db.student[u]
         => db.student[u] = None]_vars

(* Whoever becomes a bound volunteer gets the role, in whichever order the  *)
(* qualification and the binding come (the two grants of bind_student and   *)
(* of the qualification handlers cover one order each; importer/service.py).*)
VolunteerFollows ==
  [][\A u \in Users, s \in Students :
       /\ db'.student[u] = s /\ db'.qualification[s] = "on"
       /\ \/ db.qualification[s] # "on"
          \/ /\ db.student[u] # s
             /\ \E t \in Tokens : redemptions'[t] > redemptions[t]
       => "VOLUNTEER" \in db'.roles[u]]_vars

(* A redeemed code keeps the status USED (revoke_binding_token refuses it). *)
UsedStaysUsed ==
  \A t \in Tokens : db.token[t].used => db.token[t].status = "USED"
=============================================================================
