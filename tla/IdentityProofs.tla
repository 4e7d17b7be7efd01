--------------------------- MODULE IdentityProofs ---------------------------
(***************************************************************************)
(* Theorems about Identity, for every set of accounts, students, codes and *)
(* requests and every choice of handlers: the types, what a request may    *)
(* have read, the life of a binding code, and then the account rows:       *)
(* bindings, roles, grants, the optimistic lock, and what holds while      *)
(* requests do not overlap.                                                *)
(***************************************************************************)
EXTENDS Identity, FiniteSetTheorems, TLAPS

(* What the handlers rely on of a request: who asks, about whom. *)
ActorsKnown ==
  \A r \in Reqs :
    /\ req[r].pc # "idle" => req[r].actor \in Users
    /\ req[r].pc = "running" => req[r].target \in Users

TypeInv == TypeOK /\ ActorsKnown
-----------------------------------------------------------------------------
(* The rows at the start are rows. *)
LEMMA InitDBType == InitDB \in DB
<1>1. NoToken \in Token
  BY DEF NoToken, Token, TokenStatus
<1>2. InitRoles \in [Users -> SUBSET RoleCode]
  BY RolesAssumption
<1> QED
  BY <1>1, <1>2 DEF InitDB, DB, SessionState, Qualification

(* A request that has ended is a request. *)
LEMMA IdleType == Idle \in Request
BY InitDBType DEF Idle, Request

(* A commit to rows of the right type keeps the types. *)
LEMMA CommitType ==
  ASSUME TypeInv, NEW r \in Reqs, NEW d \in DB, Commit(r, d)
  PROVE  db' \in DB /\ lapsed' \subseteq Tokens /\ req' \in [Reqs -> Request]
         /\ ActorsKnown'
<1>1. db' \in DB /\ lapsed' \subseteq Tokens
  BY DEF Commit, TypeInv, TypeOK
<1>2. req' = [req EXCEPT ![r] = Idle] /\ req \in [Reqs -> Request]
  BY DEF Commit, TypeInv, TypeOK
<1>3. req' \in [Reqs -> Request]
  BY <1>2, IdleType
<1>4. ActorsKnown'
  BY <1>2 DEF ActorsKnown, TypeInv, Idle
<1> QED BY <1>1, <1>3, <1>4

(* The types of what a running request has read. *)
LEMMA RequestType ==
  ASSUME TypeInv, NEW r \in Reqs, NEW k, Running(r, k)
  PROVE  View(r) \in DB /\ req[r].actor \in Users /\ req[r].target \in Users
BY DEF TypeInv, TypeOK, ActorsKnown, Running, View, Request

(* Binding moves lock_version by one or by two. *)
LEMMA VolunteerGrantSize ==
  ASSUME NEW r, NEW u, NEW s
  PROVE  VolunteerGrant(r, u, s) \subseteq {"VOLUNTEER"}
         /\ Cardinality(VolunteerGrant(r, u, s)) \in {0, 1}
<1>1. VolunteerGrant(r, u, s) \subseteq {"VOLUNTEER"}
  BY DEF VolunteerGrant
<1>2. VolunteerGrant(r, u, s) = {} \/ VolunteerGrant(r, u, s) = {"VOLUNTEER"}
  BY <1>1
<1> QED BY <1>1, <1>2, FS_EmptySet, FS_Singleton
-----------------------------------------------------------------------------
(* What each handler commits has the type of the rows. *)

LEMMA TokenWrites ==
  ASSUME NEW T \in [Tokens -> Token], NEW t \in Tokens
  PROVE  /\ [T EXCEPT ![t].status = "EXPIRED"] \in [Tokens -> Token]
         /\ [T EXCEPT ![t].failed = @ + 1] \in [Tokens -> Token]
         /\ [T EXCEPT ![t].status = "USED", ![t].used = TRUE]
              \in [Tokens -> Token]
<1> DEFINE row == T[t]
<1>1. row \in Token
  OBVIOUS
<1>2. [row EXCEPT !.status = "EXPIRED"] \in Token
  BY <1>1 DEF Token, TokenStatus
<1>3. [row EXCEPT !.failed = @ + 1] \in Token
  BY <1>1 DEF Token, TokenStatus
<1>4. [row EXCEPT !.status = "USED", !.used = TRUE] \in Token
  BY <1>1 DEF Token, TokenStatus
<1> QED BY <1>2, <1>3, <1>4

LEMMA TokenColumn ==
  ASSUME db \in DB, NEW T \in [Tokens -> Token]
  PROVE  [db EXCEPT !.token = T] \in DB
BY DEF DB

LEMMA IssueType ==
  ASSUME TypeInv, NEW r \in Reqs, NEW t \in Tokens, NEW s \in Students,
         IssueBindingToken(r, t, s)
  PROVE  TypeInv'
<1>1. Issued(s) \in Token
  BY DEF Issued, Token, TokenStatus
<1> DEFINE d == [db EXCEPT !.token[t] = Issued(s)]
<1>2. d \in DB
  BY <1>1 DEF TypeInv, TypeOK, DB
<1>3. Commit(r, d) /\ redemptions' = redemptions
  BY DEF IssueBindingToken
<1> QED BY <1>2, <1>3, CommitType DEF TypeInv, TypeOK

LEMMA ShellType ==
  ASSUME TypeInv, NEW t \in Tokens, NEW s \in Students, IssueFromShell(t, s)
  PROVE  TypeInv'
<1>1. Issued(s) \in Token
  BY DEF Issued, Token, TokenStatus
<1> DEFINE d == [db EXCEPT !.token[t] = Issued(s)]
<1>2. d \in DB
  BY <1>1 DEF TypeInv, TypeOK, DB
<1>3. db' = d /\ UNCHANGED <<lapsed, req, redemptions>>
  BY DEF IssueFromShell
<1> QED BY <1>2, <1>3 DEF TypeInv, TypeOK, ActorsKnown

LEMMA RevokeType ==
  ASSUME TypeInv, NEW r \in Reqs, NEW t \in Tokens, RevokeBindingToken(r, t)
  PROVE  TypeInv'
<1> DEFINE d == [db EXCEPT !.token[t].status = "EXPIRED"]
<1>1. d \in DB
  BY TokenWrites, TokenColumn DEF TypeInv, TypeOK, DB
<1>2. Commit(r, d) /\ redemptions' = redemptions
  BY DEF RevokeBindingToken
<1> QED BY <1>1, <1>2, CommitType DEF TypeInv, TypeOK

LEMMA BindLapsedType ==
  ASSUME TypeInv, NEW r \in Reqs, NEW t \in Tokens, BindLapsed(r, t)
  PROVE  TypeInv'
<1> DEFINE d == [db EXCEPT !.token[t].status = "EXPIRED"]
<1>1. d \in DB
  BY TokenWrites, TokenColumn DEF TypeInv, TypeOK, DB
<1>2. Commit(r, d) /\ redemptions' = redemptions
  BY DEF BindLapsed
<1> QED BY <1>1, <1>2, CommitType DEF TypeInv, TypeOK

LEMMA BindMismatchType ==
  ASSUME TypeInv, NEW r \in Reqs, NEW t \in Tokens, NEW s \in Students,
         BindMismatch(r, t, s)
  PROVE  TypeInv'
<1> DEFINE d == [db EXCEPT !.token[t].failed = @ + 1]
<1>1. d \in DB
  BY TokenWrites, TokenColumn DEF TypeInv, TypeOK, DB
<1>2. Commit(r, d) /\ redemptions' = redemptions
  BY DEF BindMismatch
<1> QED BY <1>1, <1>2, CommitType DEF TypeInv, TypeOK

LEMMA BindStudentType ==
  ASSUME TypeInv, NEW r \in Reqs, NEW t \in Tokens, NEW s \in Students,
         BindStudent(r, t, s)
  PROVE  TypeInv'
<1> DEFINE u   == req[r].actor
           new == Inserted(r, u, {"STUDENT"}) \cup VolunteerGrant(r, u, s)
           d == [db EXCEPT !.student[u] = s,
                           !.roles[u] = @ \cup new,
                           !.version[u] = BoundVersion(r, u, s),
                           !.token[t].status = "USED",
                           !.token[t].used = TRUE]
<1>1. Commit(r, d) /\ Running(r, "bind")
  BY DEF BindStudent, Presents
<1>2. redemptions' \in [Tokens -> Nat]
  BY DEF BindStudent, TypeInv, TypeOK
<1>3. u \in Users /\ View(r) \in DB
  BY <1>1, RequestType
<1>4. new \subseteq RoleCode
  BY VolunteerGrantSize DEF Inserted, RoleCode
<1>5. BoundVersion(r, u, s) \in Nat
  <2>1. View(r).version[u] \in Nat
    BY <1>3 DEF DB
  <2>2. Cardinality(VolunteerGrant(r, u, s)) \in Nat
    BY VolunteerGrantSize
  <2> QED BY <2>1, <2>2 DEF BoundVersion
<1>6. d \in DB
  <2>1. [db.student EXCEPT ![u] = s] \in [Users -> Students \cup {None}]
        /\ [db.roles EXCEPT ![u] = @ \cup new] \in [Users -> SUBSET RoleCode]
        /\ [db.version EXCEPT ![u] = BoundVersion(r, u, s)] \in [Users -> Nat]
    BY <1>3, <1>4, <1>5 DEF TypeInv, TypeOK, DB
  <2>2. [db.token EXCEPT ![t].status = "USED", ![t].used = TRUE]
          \in [Tokens -> Token]
    BY TokenWrites DEF TypeInv, TypeOK, DB
  <2> QED BY <2>1, <2>2 DEF TypeInv, TypeOK, DB
<1> QED BY <1>1, <1>2, <1>6, CommitType DEF TypeInv, TypeOK

LEMMA ResetType ==
  ASSUME TypeInv, NEW r \in Reqs, NEW s \in Students \cup {None},
         StudentBindingReset(r, s)
  PROVE  TypeInv'
<1> DEFINE u == req[r].target
           d == [db EXCEPT !.student[u] = s,
                           !.roles[u] = ResetRoles(r, u, s),
                           !.session[u] = SessionsRevoked(r, u),
                           !.version[u] = NextVersion(u)]
<1>1. Commit(r, d) /\ Running(r, "reset") /\ redemptions' = redemptions
  BY DEF StudentBindingReset
<1>2. u \in Users
  BY <1>1, RequestType
<1>3. d \in DB
  <2>1. ResetRoles(r, u, s) \subseteq RoleCode
    BY <1>2 DEF TypeInv, TypeOK, DB, ResetRoles, Inserted, RoleCode
  <2>2. SessionsRevoked(r, u) \in [Sessions -> SessionState]
    BY <1>2 DEF TypeInv, TypeOK, DB, SessionsRevoked, SessionState
  <2>3. NextVersion(u) \in Nat
    BY <1>2 DEF TypeInv, TypeOK, DB, NextVersion
  <2> QED BY <1>2, <2>1, <2>2, <2>3 DEF TypeInv, TypeOK, DB
<1> QED BY <1>1, <1>3, CommitType DEF TypeInv, TypeOK

LEMMA AssignType ==
  ASSUME TypeInv, NEW r \in Reqs, NEW desired \in DesiredRoles,
         AssignRoles(r, desired)
  PROVE  TypeInv'
<1> DEFINE u == req[r].target
           d == [db EXCEPT !.roles[u] = AlignRoles(r, u, desired),
                           !.grants[u] = GrantsKept(r, u, desired),
                           !.version[u] = NextVersion(u)]
<1>1. Commit(r, d) /\ Running(r, "assign") /\ redemptions' = redemptions
  BY DEF AssignRoles
<1>2. u \in Users
  BY <1>1, RequestType
<1>3. d \in DB
  <2>1. AlignRoles(r, u, desired) \subseteq RoleCode
    BY <1>2, RolesAssumption
    DEF TypeInv, TypeOK, DB, AlignRoles, Inserted
  <2>2. GrantsKept(r, u, desired) \subseteq PermissionCode
    BY <1>2 DEF TypeInv, TypeOK, DB, GrantsKept
  <2>3. NextVersion(u) \in Nat
    BY <1>2 DEF TypeInv, TypeOK, DB, NextVersion
  <2> QED BY <1>2, <2>1, <2>2, <2>3 DEF TypeInv, TypeOK, DB
<1> QED BY <1>1, <1>3, CommitType DEF TypeInv, TypeOK

LEMMA OptionalType ==
  ASSUME TypeInv, NEW r \in Reqs, NEW c \in GrantCodes, NEW on \in BOOLEAN,
         SetOptionalPermission(r, c, on)
  PROVE  TypeInv'
<1> DEFINE u == req[r].target
           new == IF on THEN {c} \ View(r).grants[u] ELSE {}
           old == IF on THEN {} ELSE {c} \cap View(r).grants[u]
           d == [db EXCEPT !.grants[u] = (@ \cup new) \ old,
                           !.version[u] = NextVersion(u)]
<1>1. Commit(r, d) /\ Running(r, "optional") /\ redemptions' = redemptions
  BY DEF SetOptionalPermission
<1>2. u \in Users
  BY <1>1, RequestType
<1>3. d \in DB
  <2>1. new \subseteq PermissionCode
    BY RolesAssumption
  <2>2. (db.grants[u] \cup new) \ old \subseteq PermissionCode
    BY <1>2, <2>1 DEF TypeInv, TypeOK, DB
  <2>3. NextVersion(u) \in Nat
    BY <1>2 DEF TypeInv, TypeOK, DB, NextVersion
  <2> QED BY <1>2, <2>2, <2>3 DEF TypeInv, TypeOK, DB
<1> QED BY <1>1, <1>3, CommitType DEF TypeInv, TypeOK

LEMMA QualifyType ==
  ASSUME TypeInv, NEW r \in Reqs, NEW on \in SUBSET Students,
         NEW off \in SUBSET Students, Qualify(r, on, off)
  PROVE  TypeInv'
<1> DEFINE R == [u \in Users |-> db.roles[u] \cup QualifiedGrant(r, on, u)]
           V == [u \in Users |-> QualifiedVersion(r, on, u)]
           d == [db EXCEPT !.qualification = QualificationSet(r, on, off),
                           !.roles = R, !.version = V]
<1>1. Commit(r, d) /\ Running(r, "qualify") /\ redemptions' = redemptions
  BY DEF Qualify
<1>2. db \in DB /\ View(r) \in DB
  BY <1>1, RequestType DEF TypeInv, TypeOK
<1>3. QualificationSet(r, on, off) \in [Students -> Qualification]
  BY <1>2 DEF QualificationSet, DB, Qualification
<1>4. R \in [Users -> SUBSET RoleCode]
  BY <1>2 DEF QualifiedGrant, DB, RoleCode
<1>5. V \in [Users -> Nat]
  <2>1. \A u \in Users : db.version[u] \in Nat /\ View(r).version[u] \in Nat
    BY <1>2 DEF DB
  <2> QED BY <2>1 DEF QualifiedVersion, LoadedVersion
<1>6. d \in DB
  BY <1>2, <1>3, <1>4, <1>5 DEF DB
<1> QED BY <1>1, <1>6, CommitType DEF TypeInv, TypeOK
-----------------------------------------------------------------------------
(* The steps of clients, of time and of the request itself. *)

LEMMA LoginType ==
  ASSUME TypeInv, NEW u \in Users, Login(u)
  PROVE  TypeInv'
<1>1. PICK s \in Sessions : db' = [db EXCEPT !.session[u][s] = "live"]
  BY DEF Login
<1>2. db' \in DB
  BY <1>1 DEF TypeInv, TypeOK, DB, SessionState
<1> QED BY <1>2 DEF Login, TypeInv, TypeOK, ActorsKnown

LEMMA ResolveType ==
  ASSUME TypeInv, NEW r \in Reqs, NEW u \in Users, Resolve(r, u)
  PROVE  TypeInv'
<1> DEFINE q == [Idle EXCEPT !.pc = "resolved", !.actor = u]
<1>1. q \in Request
  BY InitDBType DEF Idle, Request
<1>2. req' = [req EXCEPT ![r] = q]
  BY DEF Resolve
<1>3. q.pc = "resolved" /\ q.actor = u
  BY DEF Idle
<1>4. req' \in [Reqs -> Request] /\ ActorsKnown'
  BY <1>1, <1>2, <1>3 DEF TypeInv, TypeOK, ActorsKnown
<1> QED BY <1>4 DEF Resolve, TypeInv, TypeOK

LEMMA SnapshotType ==
  ASSUME TypeInv, NEW r \in Reqs, NEW k \in Kinds, NEW u \in Users,
         NEW n \in 0 .. MaxVersion, Snapshot(r, k, u, n)
  PROVE  TypeInv'
<1> DEFINE q == [pc |-> "running", kind |-> k, actor |-> req[r].actor,
                 target |-> u, expected |-> n, snap |-> db]
<1>1. req' = [req EXCEPT ![r] = q] /\ req[r].actor \in Users
  BY DEF Snapshot, TypeInv, ActorsKnown
<1>2. k \in HandlerKinds /\ n \in Nat
  BY KindsAssumption, BoundsAssumption
<1>3. q \in Request
  BY <1>1, <1>2 DEF Request, TypeInv, TypeOK
<1>4. req' \in [Reqs -> Request] /\ ActorsKnown'
  BY <1>1, <1>3 DEF TypeInv, TypeOK, ActorsKnown
<1> QED BY <1>4 DEF Snapshot, TypeInv, TypeOK

LEMMA RollbackType ==
  ASSUME TypeInv, NEW r \in Reqs, Rollback(r)
  PROVE  TypeInv'
BY IdleType DEF Rollback, TypeInv, TypeOK, ActorsKnown, Idle

LEMMA LapseType ==
  ASSUME TypeInv, NEW t \in Tokens, Lapse(t)
  PROVE  TypeInv'
BY DEF Lapse, TypeInv, TypeOK, ActorsKnown

(* Every step keeps the types. *)
LEMMA TypeStep == TypeInv /\ [Next]_vars => TypeInv'
<1> SUFFICES ASSUME TypeInv, [Next]_vars PROVE TypeInv'
  OBVIOUS
<1>1. CASE UNCHANGED vars
  BY <1>1 DEF vars, TypeInv, TypeOK, ActorsKnown
<1>2. CASE Next
  BY <1>2, LoginType, LapseType, ResolveType, SnapshotType, RollbackType,
     ShellType, IssueType, RevokeType, BindLapsedType, BindMismatchType, BindStudentType,
     ResetType, AssignType, OptionalType, QualifyType DEF Next
<1> QED BY <1>1, <1>2

LEMMA TypeStart == Init => TypeInv
BY InitDBType, IdleType DEF Init, TypeInv, TypeOK, ActorsKnown, Idle

(* The rows, the requests and the history always have their types: no       *)
(* handler commits a row of another shape, whoever runs beside it.          *)
THEOREM TypeCorrect == Spec => []TypeOK
<1>1. TypeInv => TypeOK
  BY DEF TypeInv
<1> QED BY <1>1, TypeStart, TypeStep, PTL DEF Spec
-----------------------------------------------------------------------------
(* The request r runs its handler to the end. *)
Handles(r) ==
  \/ \E t \in Tokens, s \in Students : IssueBindingToken(r, t, s)
  \/ \E t \in Tokens : RevokeBindingToken(r, t)
  \/ \E t \in Tokens : BindLapsed(r, t)
  \/ \E t \in Tokens, s \in Students : BindMismatch(r, t, s)
  \/ \E t \in Tokens, s \in Students : BindStudent(r, t, s)
  \/ \E s \in Students \cup {None} : StudentBindingReset(r, s)
  \/ \E desired \in DesiredRoles : AssignRoles(r, desired)
  \/ \E c \in GrantCodes, on \in BOOLEAN : SetOptionalPermission(r, c, on)
  \/ \E on, off \in SUBSET Students : Qualify(r, on, off)

LEMMA HandlersCommit ==
  ASSUME NEW r \in Reqs, Handles(r)
  PROVE  req[r].pc = "running" /\ \E d : Commit(r, d)
<1>1. ASSUME NEW t \in Tokens, NEW s \in Students, IssueBindingToken(r, t, s)
      PROVE  req[r].pc = "running" /\ \E d : Commit(r, d)
  BY <1>1 DEF IssueBindingToken, Running
<1>2. ASSUME NEW t \in Tokens, RevokeBindingToken(r, t)
      PROVE  req[r].pc = "running" /\ \E d : Commit(r, d)
  BY <1>2 DEF RevokeBindingToken, Running
<1>3. ASSUME NEW t \in Tokens, BindLapsed(r, t)
      PROVE  req[r].pc = "running" /\ \E d : Commit(r, d)
  BY <1>3 DEF BindLapsed, Presents, Running
<1>4. ASSUME NEW t \in Tokens, NEW s \in Students, BindMismatch(r, t, s)
      PROVE  req[r].pc = "running" /\ \E d : Commit(r, d)
  BY <1>4 DEF BindMismatch, Presents, Running
<1>5. ASSUME NEW t \in Tokens, NEW s \in Students, BindStudent(r, t, s)
      PROVE  req[r].pc = "running" /\ \E d : Commit(r, d)
  BY <1>5 DEF BindStudent, Presents, Running
<1>6. ASSUME NEW s \in Students \cup {None}, StudentBindingReset(r, s)
      PROVE  req[r].pc = "running" /\ \E d : Commit(r, d)
  BY <1>6 DEF StudentBindingReset, Running
<1>7. ASSUME NEW desired \in DesiredRoles, AssignRoles(r, desired)
      PROVE  req[r].pc = "running" /\ \E d : Commit(r, d)
  BY <1>7 DEF AssignRoles, Running
<1>8. ASSUME NEW c \in GrantCodes, NEW on \in BOOLEAN, SetOptionalPermission(r, c, on)
      PROVE  req[r].pc = "running" /\ \E d : Commit(r, d)
  BY <1>8 DEF SetOptionalPermission, Running
<1>9. ASSUME NEW on \in SUBSET Students, NEW off \in SUBSET Students,
             Qualify(r, on, off)
      PROVE  req[r].pc = "running" /\ \E d : Commit(r, d)
  BY <1>9 DEF Qualify, Running
<1> QED
  BY <1>1, <1>2, <1>3, <1>4, <1>5, <1>6, <1>7, <1>8, <1>9 DEF Handles

(* What a request has read was committed: a step leaves its snapshot, clears *)
(* it, or takes the rows as they are.                                        *)
LEMMA SnapshotOrigin ==
  ASSUME TypeInv, [Next]_vars, NEW q \in Reqs
  PROVE  View(q)' = View(q) \/ View(q)' = InitDB \/ View(q)' = db
<1> USE DEF View
<1>1. ASSUME NEW r \in Reqs, NEW d, Commit(r, d) \/ Rollback(r)
      PROVE  View(q)' = View(q) \/ View(q)' = InitDB
  BY <1>1 DEF TypeInv, TypeOK, Commit, Rollback, Idle
<1>2. ASSUME NEW r \in Reqs, NEW u \in Users, Resolve(r, u)
      PROVE  View(q)' = View(q) \/ View(q)' = InitDB
  BY <1>2 DEF TypeInv, TypeOK, Resolve, Idle
<1>3. ASSUME NEW r \in Reqs, NEW k \in Kinds, NEW u \in Users,
             NEW n \in 0 .. MaxVersion, Snapshot(r, k, u, n)
      PROVE  View(q)' = View(q) \/ View(q)' = db
  BY <1>3 DEF TypeInv, TypeOK, Snapshot
<1>4. ASSUME req' = req
      PROVE  View(q)' = View(q)
  BY <1>4
<1>5. CASE UNCHANGED vars
  BY <1>5, <1>4 DEF vars
<1>6. CASE Next
  <2>1. ASSUME NEW u \in Users, Login(u) PROVE req' = req
    BY <2>1 DEF Login
  <2>2. ASSUME NEW t \in Tokens, Lapse(t) PROVE req' = req
    BY <2>2 DEF Lapse
  <2>4. ASSUME NEW t \in Tokens, NEW s \in Students, IssueFromShell(t, s)
        PROVE  req' = req
    BY <2>4 DEF IssueFromShell
  <2>3. ASSUME NEW r \in Reqs, Handles(r) PROVE \E d : Commit(r, d)
    BY <2>3, HandlersCommit
  <2> QED BY <1>1, <1>2, <1>3, <1>4, <1>6, <2>1, <2>2, <2>3, <2>4
     DEF Next, Handles
<1> QED BY <1>5, <1>6
-----------------------------------------------------------------------------
(* Binding codes are one-time *)

(* What makes a code one-time.  The history counts exactly the rows whose   *)
(* used_at is set, so a second redemption would have to start from a row    *)
(* that is still open; and a code that some request has read as issued is   *)
(* issued, so that a revocation cannot touch a row that is not there.       *)
CodeInv ==
  \A t \in Tokens :
    /\ redemptions[t] = IF db.token[t].used THEN 1 ELSE 0
    /\ db.token[t].status = "NONE" => ~db.token[t].used
    /\ \A r \in Reqs :
         View(r).token[t].status # "NONE" => db.token[t].status # "NONE"

(* A step that leaves the codes alone. *)
CodesKept == db'.token = db.token /\ redemptions' = redemptions
-----------------------------------------------------------------------------
(* Which steps leave the codes alone. *)
LEMMA KeepingClients ==
  ASSUME TypeInv
  PROVE  /\ \A u \in Users : Login(u) => CodesKept
         /\ \A t \in Tokens : Lapse(t) => CodesKept
BY DEF TypeInv, TypeOK, DB, CodesKept, Login, Lapse

LEMMA KeepingSteps ==
  ASSUME TypeInv, NEW r \in Reqs
  PROVE  /\ \A u \in Users : Resolve(r, u) => CodesKept
         /\ \A k \in Kinds, u \in Users, n \in 0 .. MaxVersion :
              Snapshot(r, k, u, n) => CodesKept
         /\ Rollback(r) => CodesKept
         /\ \A s \in Students \cup {None} :
              StudentBindingReset(r, s) => CodesKept
         /\ \A desired \in DesiredRoles : AssignRoles(r, desired) => CodesKept
         /\ \A c \in GrantCodes, on \in BOOLEAN :
              SetOptionalPermission(r, c, on) => CodesKept
         /\ \A on, off \in SUBSET Students : Qualify(r, on, off) => CodesKept
BY DEF TypeInv, TypeOK, DB, CodesKept, Resolve, Snapshot,
       Rollback, StudentBindingReset, AssignRoles, SetOptionalPermission, Qualify,
       Commit

LEMMA TokenRows == TypeInv => db.token \in [Tokens -> Token]
BY DEF TypeInv, TypeOK, DB

(* A handler or the shell issues a code. *)
Issues(t, s) == IssueFromShell(t, s) \/ \E r \in Reqs : IssueBindingToken(r, t, s)

LEMMA IssueSteps ==
  ASSUME TypeInv, NEW t \in Tokens, NEW s \in Students, Issues(t, s)
  PROVE  /\ db.token[t].status = "NONE"
         /\ db'.token = [db.token EXCEPT ![t] = Issued(s)]
         /\ redemptions' = redemptions
BY DEF TypeInv, TypeOK, DB, Commit, Issues, IssueFromShell, IssueBindingToken

(* The row each other step on codes leaves, and the count. *)
LEMMA CodeSteps ==
  ASSUME TypeInv, NEW r \in Reqs, NEW t \in Tokens, NEW s \in Students
  PROVE  /\ RevokeBindingToken(r, t) =>
              /\ View(r).token[t].status = "UNUSED"
              /\ db'.token = [db.token EXCEPT ![t].status = "EXPIRED"]
              /\ redemptions' = redemptions
         /\ BindLapsed(r, t) =>
              /\ db.token[t].status = "UNUSED" /\ ~db.token[t].used
              /\ db'.token = [db.token EXCEPT ![t].status = "EXPIRED"]
              /\ redemptions' = redemptions
         /\ BindMismatch(r, t, s) =>
              /\ db.token[t].status = "UNUSED" /\ ~db.token[t].used
              /\ db'.token = [db.token EXCEPT ![t].failed = @ + 1]
              /\ redemptions' = redemptions
         /\ BindStudent(r, t, s) =>
              /\ db.token[t].status = "UNUSED" /\ ~db.token[t].used
              /\ db'.token = [db.token EXCEPT ![t].status = "USED",
                                              ![t].used = TRUE]
              /\ redemptions' = [redemptions EXCEPT ![t] = @ + 1]
BY DEF TypeInv, TypeOK, DB, Commit, RevokeBindingToken, Revocable,
       BindLapsed, BindMismatch, BindStudent, Presents, Redeemable,
       LockedToken

(* Every step keeps the count and the rows in agreement. *)
LEMMA CodeStep == TypeInv /\ CodeInv /\ [Next]_vars => CodeInv'
<1> SUFFICES ASSUME TypeInv, CodeInv, [Next]_vars, NEW x \in Tokens
             PROVE  /\ redemptions'[x] = IF db'.token[x].used THEN 1 ELSE 0
                    /\ db'.token[x].status = "NONE" => ~db'.token[x].used
                    /\ \A q \in Reqs : View(q)'.token[x].status # "NONE" =>
                                          db'.token[x].status # "NONE"
  BY DEF CodeInv
<1> DEFINE Kept == /\ redemptions'[x] = IF db'.token[x].used THEN 1 ELSE 0
                   /\ db'.token[x].status = "NONE" => ~db'.token[x].used
                   /\ db.token[x].status # "NONE" =>
                        db'.token[x].status # "NONE"
<1>1. Kept
  <2>1. ASSUME db'.token[x] = db.token[x], redemptions'[x] = redemptions[x]
        PROVE  Kept
    BY <2>1 DEF CodeInv
  <2>2. ASSUME ~db.token[x].used, ~db'.token[x].used,
               db'.token[x].status # "NONE", redemptions'[x] = redemptions[x]
        PROVE  Kept
    BY <2>2 DEF CodeInv
  <2>3. ASSUME NEW t \in Tokens, NEW s \in Students, Issues(t, s)
        PROVE  Kept
    <3>1. /\ db.token[t].status = "NONE"
          /\ db'.token = [db.token EXCEPT ![t] = Issued(s)]
          /\ redemptions' = redemptions
      BY <2>3, IssueSteps
    <3>2. CASE x = t
      BY <3>1, <3>2, <2>2, TokenRows DEF CodeInv, Issued
    <3>3. CASE x # t
      BY <3>1, <3>3, <2>1, TokenRows
    <3> QED BY <3>2, <3>3
  <2>4. ASSUME NEW r \in Reqs, NEW t \in Tokens, RevokeBindingToken(r, t)
        PROVE  Kept
    <3>1. /\ View(r).token[t].status = "UNUSED"
          /\ db'.token = [db.token EXCEPT ![t].status = "EXPIRED"]
          /\ redemptions' = redemptions
      BY <2>4 DEF RevokeBindingToken, Revocable, Commit, TypeInv, TypeOK, DB
    <3>2. CASE x = t
      <4>1. db'.token[x].status = "EXPIRED" /\ db'.token[x].used = db.token[x].used
        BY <3>1, <3>2, TokenRows DEF Token
      <4> QED BY <3>1, <4>1 DEF CodeInv
    <3>3. CASE x # t
      BY <3>1, <3>3, <2>1, TokenRows
    <3> QED BY <3>2, <3>3
  <2>5. ASSUME NEW r \in Reqs, NEW t \in Tokens, BindLapsed(r, t)
        PROVE  Kept
    <3>1. /\ db.token[t].status = "UNUSED" /\ ~db.token[t].used
          /\ db'.token = [db.token EXCEPT ![t].status = "EXPIRED"]
          /\ redemptions' = redemptions
      BY <2>5 DEF BindLapsed, Presents, Redeemable, LockedToken, Commit,
                  TypeInv, TypeOK, DB
    <3>2. CASE x = t
      <4>1. db'.token[x].status = "EXPIRED" /\ db'.token[x].used = db.token[x].used
        BY <3>1, <3>2, TokenRows DEF Token
      <4> QED BY <2>2, <3>1, <3>2, <4>1
    <3>3. CASE x # t
      BY <3>1, <3>3, <2>1, TokenRows
    <3> QED BY <3>2, <3>3
  <2>6. ASSUME NEW r \in Reqs, NEW t \in Tokens, NEW s \in Students,
               BindMismatch(r, t, s)
        PROVE  Kept
    <3>1. /\ db.token[t].status = "UNUSED" /\ ~db.token[t].used
          /\ db'.token = [db.token EXCEPT ![t].failed = @ + 1]
          /\ redemptions' = redemptions
      BY <2>6, CodeSteps
    <3>2. CASE x = t
      <4>1. db'.token[x].status = "UNUSED" /\ db'.token[x].used = db.token[x].used
        BY <3>1, <3>2, TokenRows DEF Token
      <4> QED BY <2>2, <3>1, <3>2, <4>1
    <3>3. CASE x # t
      BY <3>1, <3>3, <2>1, TokenRows
    <3> QED BY <3>2, <3>3
  <2>7. ASSUME NEW r \in Reqs, NEW t \in Tokens, NEW s \in Students,
               BindStudent(r, t, s)
        PROVE  Kept
    <3>1. /\ ~db.token[t].used
          /\ db'.token = [db.token EXCEPT ![t].status = "USED", ![t].used = TRUE]
          /\ redemptions' = [redemptions EXCEPT ![t] = @ + 1]
      BY <2>7, CodeSteps
    <3>2. CASE x = t
      <4>1. db'.token[x].status = "USED" /\ db'.token[x].used
        BY <3>1, <3>2, TokenRows DEF Token
      <4>2. redemptions'[x] = 1
        BY <3>1, <3>2 DEF CodeInv, TypeInv, TypeOK
      <4> QED BY <4>1, <4>2
    <3>3. CASE x # t
      BY <3>1, <3>3, <2>1, TokenRows DEF TypeInv, TypeOK
    <3> QED BY <3>2, <3>3
  <2>8. CodesKept => Kept
    BY <2>1 DEF CodesKept
  <2>9. CASE UNCHANGED vars
    BY <2>9, <2>8 DEF vars, CodesKept
  <2>10. CASE Next
    BY <2>10, <2>3, <2>4, <2>5, <2>6, <2>7, <2>8, KeepingClients,
       KeepingSteps DEF Next, Issues
  <2> QED BY <2>9, <2>10
<1>2. ASSUME NEW q \in Reqs, View(q)'.token[x].status # "NONE"
      PROVE  db'.token[x].status # "NONE"
  <2>1. InitDB.token[x].status = "NONE"
    BY DEF InitDB, NoToken
  <2>2. View(q)' = View(q) \/ View(q)' = InitDB \/ View(q)' = db
    BY SnapshotOrigin
  <2>3. View(q).token[x].status # "NONE" \/ db.token[x].status # "NONE"
    BY <1>2, <2>1, <2>2
  <2> QED BY <1>1, <2>3 DEF CodeInv
<1> QED BY <1>1, <1>2

LEMMA CodeStart == Init => TypeInv /\ CodeInv
<1>1. \A t \in Tokens : InitDB.token[t] = NoToken
  BY DEF InitDB
<1>2. Init => CodeInv
  BY <1>1 DEF Init, CodeInv, Idle, NoToken, View
<1> QED BY <1>2, TypeStart

LEMMA CodeInvariant == Spec => [](TypeInv /\ CodeInv)
BY CodeStart, CodeStep, TypeStep, PTL DEF Spec

(* No code is redeemed twice, however many requests present it at once and  *)
(* whatever revocations and resets run beside them: bind_student reads the  *)
(* row FOR UPDATE, and the row alone decides.                               *)
THEOREM CodesRedeemedOnce == Spec => []RedeemedOnce
<1>1. TypeInv /\ CodeInv => RedeemedOnce
  BY DEF CodeInv, RedeemedOnce
<1> QED BY <1>1, CodeInvariant, PTL
-----------------------------------------------------------------------------
(* The life of a code. *)

(* The phases after a step that writes one row. *)
LEMMA PhaseWritten ==
  ASSUME TypeInv, NEW t \in Tokens, NEW row,
         db'.token = [db.token EXCEPT ![t] = row]
  PROVE  CodePhase' = [CodePhase EXCEPT ![t] = PhaseOf(row)]
BY TokenRows DEF CodePhase

LEMMA PhaseCases ==
  ASSUME NEW row \in Token
  PROVE  /\ row.used => PhaseOf(row) = "spent"
         /\ ~row.used /\ row.status = "NONE" => PhaseOf(row) = "unissued"
         /\ ~row.used /\ row.status = "EXPIRED" => PhaseOf(row) = "void"
         /\ ~row.used /\ row.status \in {"UNUSED", "USED"} =>
              PhaseOf(row) = "open"
BY DEF PhaseOf, Token

(* Every step of Identity is one of a one-time code, or none of them. *)
LEMMA CodeRefinesStep ==
  ASSUME TypeInv, CodeInv, [Next]_vars
  PROVE  [Code!Next]_(Code!vars)
<1>1. ASSUME CodesKept PROVE UNCHANGED Code!vars
  BY <1>1 DEF CodesKept, Code!vars, CodePhase
<1>2. ASSUME NEW t \in Tokens, NEW s \in Students, Issues(t, s)
      PROVE  Code!Issue(t)
  <2>1. /\ db.token[t].status = "NONE"
        /\ db'.token = [db.token EXCEPT ![t] = Issued(s)]
        /\ redemptions' = redemptions
    BY <1>2, IssueSteps
  <2>2. Issued(s).status = "UNUSED" /\ ~Issued(s).used
    BY DEF Issued
  <2>3. PhaseOf(Issued(s)) = "open"
    BY <2>2 DEF PhaseOf
  <2>4. ~db.token[t].used
    BY <2>1 DEF CodeInv
  <2>5. CodePhase[t] = "unissued"
    BY <2>1, <2>4, TokenRows, PhaseCases DEF CodePhase
  <2> QED BY <2>1, <2>3, <2>5, PhaseWritten DEF Code!Issue
<1>3. ASSUME NEW r \in Reqs, NEW t \in Tokens,
             RevokeBindingToken(r, t) \/ BindLapsed(r, t)
      PROVE  Code!Void(t) \/ UNCHANGED Code!vars
  <2> DEFINE row == [db.token[t] EXCEPT !.status = "EXPIRED"]
  <2>1. /\ db'.token = [db.token EXCEPT ![t].status = "EXPIRED"]
        /\ redemptions' = redemptions
    BY <1>3 DEF RevokeBindingToken, BindLapsed, Commit, TypeInv, TypeOK, DB
  <2>2. db.token[t].status # "NONE"
    BY <1>3 DEF RevokeBindingToken, Revocable, BindLapsed, Presents, Redeemable,
                LockedToken, CodeInv
  <2>3. db.token[t] \in Token /\ row \in Token
    BY TokenRows DEF Token, TokenStatus
  <2>4. CodePhase' = [CodePhase EXCEPT ![t] = PhaseOf(row)]
    BY <2>1, PhaseWritten
  <2>5. CASE db.token[t].used
    <3>1. PhaseOf(row) = "spent" /\ CodePhase[t] = "spent"
      BY <2>3, <2>5, PhaseCases DEF CodePhase, Token
    <3> QED BY <2>1, <2>4, <3>1 DEF Code!vars, CodePhase
  <2>6. CASE ~db.token[t].used
    <3>1. PhaseOf(row) = "void"
      BY <2>3, <2>6, PhaseCases DEF Token
    <3>2. CASE db.token[t].status = "EXPIRED"
      <4>1. CodePhase[t] = "void"
        BY <2>3, <2>6, <3>2, PhaseCases DEF CodePhase
      <4> QED BY <2>1, <2>4, <3>1, <4>1 DEF Code!vars, CodePhase
    <3>3. CASE db.token[t].status # "EXPIRED"
      <4>1. CodePhase[t] = "open"
        BY <2>2, <2>3, <2>6, <3>3, PhaseCases DEF CodePhase, Token, TokenStatus
      <4> QED BY <2>1, <2>4, <3>1, <4>1 DEF Code!Void
    <3> QED BY <3>2, <3>3
  <2> QED BY <2>5, <2>6
<1>4. ASSUME NEW r \in Reqs, NEW t \in Tokens, NEW s \in Students,
             BindMismatch(r, t, s)
      PROVE  UNCHANGED Code!vars
  <2> DEFINE row == [db.token[t] EXCEPT !.failed = @ + 1]
  <2>1. /\ db.token[t].status = "UNUSED" /\ ~db.token[t].used
        /\ db'.token = [db.token EXCEPT ![t].failed = @ + 1]
        /\ redemptions' = redemptions
    BY <1>4, CodeSteps
  <2>2. db.token[t] \in Token /\ row \in Token
    BY TokenRows DEF Token
  <2>3. PhaseOf(row) = "open" /\ CodePhase[t] = "open"
    BY <2>1, <2>2, PhaseCases DEF CodePhase, Token
  <2>4. db'.token = [db.token EXCEPT ![t] = row]
    BY <2>1
  <2> QED BY <2>1, <2>3, <2>4, PhaseWritten DEF Code!vars, CodePhase
<1>5. ASSUME NEW r \in Reqs, NEW t \in Tokens, NEW s \in Students,
             BindStudent(r, t, s)
      PROVE  Code!Spend(t)
  <2> DEFINE row == [db.token[t] EXCEPT !.status = "USED", !.used = TRUE]
  <2>1. /\ db.token[t].status = "UNUSED" /\ ~db.token[t].used
        /\ db'.token = [db.token EXCEPT ![t].status = "USED", ![t].used = TRUE]
        /\ redemptions' = [redemptions EXCEPT ![t] = @ + 1]
    BY <1>5, CodeSteps
  <2>2. db.token[t] \in Token /\ row \in Token /\ row.used
    BY TokenRows DEF Token, TokenStatus
  <2>3. PhaseOf(row) = "spent" /\ CodePhase[t] = "open"
    BY <2>1, <2>2, PhaseCases DEF CodePhase
  <2>4. db'.token = [db.token EXCEPT ![t] = row]
    BY <2>1
  <2> QED BY <2>1, <2>3, <2>4, PhaseWritten DEF Code!Spend
<1>6. CASE UNCHANGED vars
  BY <1>6, <1>1 DEF vars, CodesKept
<1>7. CASE Next
  BY <1>7, <1>1, <1>2, <1>3, <1>4, <1>5, KeepingClients, KeepingSteps
  DEF Next, Code!Next, Issues
<1> QED BY <1>6, <1>7

(* Identity implements OneTimeCode: a code is issued once, and from then on *)
(* is spent once or void for ever, also when the revocation of a code races *)
(* its redemption and writes over the status.                               *)
THEOREM CodesImplementOneTime == Spec => CodesAreOneTime
<1>1. Init => Code!Init
  <2>1. \A t \in Tokens : PhaseOf(InitDB.token[t]) = "unissued"
    BY DEF InitDB, NoToken, PhaseOf
  <2> QED BY <2>1 DEF Init, Code!Init, CodePhase
<1>2. TypeInv /\ CodeInv /\ [Next]_vars => [Code!Next]_(Code!vars)
  BY CodeRefinesStep
<1> QED
  BY <1>1, <1>2, CodeInvariant, PTL DEF Spec, CodesAreOneTime, Code!Spec
-----------------------------------------------------------------------------
LEMMA AccountRows ==
  TypeInv => /\ db.roles \in [Users -> SUBSET RoleCode]
             /\ db.grants \in [Users -> SUBSET PermissionCode]
             /\ db.version \in [Users -> Nat]
             /\ db.student \in [Users -> Students \cup {None}]
BY DEF TypeInv, TypeOK, DB

(* What an assignment commits, when its own checks have passed. *)
LEMMA AssignStep ==
  ASSUME TypeInv, NEW r \in Reqs, NEW desired \in DesiredRoles,
         AssignRoles(r, desired)
  PROVE  LET u == req[r].target IN
         /\ u \in Users
         /\ db'.roles = [db.roles EXCEPT ![u] = AlignRoles(r, u, desired)]
         /\ db'.grants = [db.grants EXCEPT ![u] = GrantsKept(r, u, desired)]
         /\ db'.version = [db.version EXCEPT ![u] = NextVersion(u)]
         /\ db'.student = db.student
         /\ View(r) \in DB
BY RequestType DEF AssignRoles, Commit, TypeInv, TypeOK, DB

LEMMA ResetStep ==
  ASSUME TypeInv, NEW r \in Reqs, NEW s \in Students \cup {None},
         StudentBindingReset(r, s)
  PROVE  LET u == req[r].target IN
         /\ u \in Users
         /\ db'.roles = [db.roles EXCEPT ![u] = ResetRoles(r, u, s)]
         /\ db'.grants = db.grants
         /\ db'.version = [db.version EXCEPT ![u] = NextVersion(u)]
         /\ db'.student = [db.student EXCEPT ![u] = s]
BY RequestType DEF StudentBindingReset, Commit, TypeInv, TypeOK, DB

LEMMA OptionalStep ==
  ASSUME TypeInv, NEW r \in Reqs, NEW c \in GrantCodes, NEW on \in BOOLEAN,
         SetOptionalPermission(r, c, on)
  PROVE  LET u == req[r].target IN
         /\ u \in Users
         /\ db'.roles = db.roles
         /\ db'.grants = [db.grants EXCEPT ![u] = db'.grants[u]]
         /\ db'.grants[u] \subseteq db.grants[u] \cup {c}
         /\ db'.version = [db.version EXCEPT ![u] = NextVersion(u)]
         /\ db'.student = db.student
BY RequestType DEF SetOptionalPermission, Commit, TypeInv, TypeOK, DB

LEMMA QualifyStep ==
  ASSUME TypeInv, NEW r \in Reqs, NEW on \in SUBSET Students,
         NEW off \in SUBSET Students, Qualify(r, on, off)
  PROVE  /\ Running(r, "qualify")
         /\ \A u \in Users :
              db'.roles[u] = db.roles[u] \cup QualifiedGrant(r, on, u)
         /\ db'.grants = db.grants /\ db'.student = db.student
         /\ db'.qualification = QualificationSet(r, on, off)
BY DEF Qualify, Commit, TypeInv, TypeOK, DB

(* A step that changes none of what lock_version covers. *)
AccountsKept ==
  /\ db'.roles = db.roles /\ db'.grants = db.grants
  /\ db'.version = db.version /\ db'.student = db.student

LEMMA KeptByClients ==
  ASSUME TypeInv
  PROVE  /\ \A u \in Users : Login(u) => AccountsKept
         /\ \A t \in Tokens : Lapse(t) => AccountsKept
         /\ \A t \in Tokens, s \in Students : IssueFromShell(t, s) => AccountsKept
BY DEF TypeInv, TypeOK, DB, AccountsKept, Login, Lapse, IssueFromShell

LEMMA KeptByRequests ==
  ASSUME TypeInv, NEW r \in Reqs
  PROVE  /\ \A u \in Users : Resolve(r, u) => AccountsKept
         /\ \A k \in Kinds, u \in Users, n \in 0 .. MaxVersion :
              Snapshot(r, k, u, n) => AccountsKept
         /\ Rollback(r) => AccountsKept
         /\ \A t \in Tokens, s \in Students :
              IssueBindingToken(r, t, s) \/ BindMismatch(r, t, s) => AccountsKept
         /\ \A t \in Tokens :
              RevokeBindingToken(r, t) \/ BindLapsed(r, t) => AccountsKept
BY DEF TypeInv, TypeOK, DB, AccountsKept, Resolve, Snapshot, Rollback, Commit,
       IssueBindingToken, RevokeBindingToken, BindLapsed, BindMismatch

LEMMA BindStep ==
  ASSUME TypeInv, NEW r \in Reqs, NEW t \in Tokens, NEW s \in Students,
         BindStudent(r, t, s)
  PROVE  /\ Running(r, "bind") /\ req[r].actor \in Users
         /\ db'.roles = [db.roles EXCEPT ![req[r].actor] =
              @ \cup (Inserted(r, req[r].actor, {"STUDENT"})
                      \cup VolunteerGrant(r, req[r].actor, s))]
         /\ db'.student = [db.student EXCEPT ![req[r].actor] = s]
         /\ db'.grants = db.grants
BY RequestType DEF BindStudent, Presents, Commit, TypeInv, TypeOK, DB
-----------------------------------------------------------------------------
(* The identities of the system *)

(* What an assignment deletes and inserts is the difference that            *)
(* can_change_roles has looked at.                                          *)
LEMMA AssignKeepsBusiness ==
  ASSUME TypeInv, NEW r \in Reqs, NEW desired \in DesiredRoles,
         AssignRoles(r, desired), NEW u \in Users
  PROVE  db'.roles[u] \cap BusinessRoles = db.roles[u] \cap BusinessRoles
<1>1. SymmetricDifference(View(r).roles[req[r].target], desired)
        \cap BusinessRoles = {}
  BY DEF AssignRoles, MayAssign, CanChangeRoles
<1>2. AlignRoles(r, req[r].target, desired) \cap BusinessRoles
        = db.roles[req[r].target] \cap BusinessRoles
  BY <1>1 DEF SymmetricDifference, AlignRoles, Inserted
<1>3. /\ req[r].target \in Users
      /\ db'.roles = [db.roles EXCEPT ![req[r].target] =
                        AlignRoles(r, req[r].target, desired)]
  BY AssignStep
<1> QED BY <1>2, <1>3, AccountRows

(* Of the two identities the system maintains itself, none is changed by an *)
(* assignment, whatever has been committed since its snapshot.              *)
THEOREM BusinessRolesSafe == Spec => BusinessRolesUntouched
<1> DEFINE Untouched ==
      \A r \in Reqs, desired \in DesiredRoles :
        AssignRoles(r, desired) =>
          \A u \in Users :
            db'.roles[u] \cap BusinessRoles = db.roles[u] \cap BusinessRoles
<1>1. TypeInv => Untouched
  BY AssignKeepsBusiness
<1>2. TypeInv /\ [Next]_vars => [Untouched]_vars
  BY <1>1
<1> QED
  BY <1>2, TypeStart, TypeStep, PTL DEF Spec, BusinessRolesUntouched
-----------------------------------------------------------------------------
(* Escalation *)

(* The administrator roles of everyone are those of the start, in the rows  *)
(* and in every snapshot: an actor is judged by what it has read.           *)
ProtectedAsAtFirst(d) ==
  \A u \in Users : d.roles[u] \cap ProtectedRoles = InitRoles[u] \cap ProtectedRoles

EscalationInv ==
  ProtectedAsAtFirst(db) /\ \A q \in Reqs : ProtectedAsAtFirst(View(q))

NobodySuper == \A u \in Users : "SUPER_ADMIN" \notin InitRoles[u]

LEMMA ProtectedWrite ==
  ASSUME TypeInv, EscalationInv, NEW u \in Users, NEW R,
         db'.roles = [db.roles EXCEPT ![u] = R],
         R \cap ProtectedRoles = db.roles[u] \cap ProtectedRoles
  PROVE  ProtectedAsAtFirst(db')
BY AccountRows DEF EscalationInv, ProtectedAsAtFirst

LEMMA EscalationStep ==
  ASSUME NobodySuper, TypeInv, EscalationInv, [Next]_vars
  PROVE  EscalationInv'
<1>1. ASSUME AccountsKept PROVE ProtectedAsAtFirst(db')
  BY <1>1 DEF AccountsKept, EscalationInv, ProtectedAsAtFirst
<1>2. ASSUME NEW r \in Reqs, NEW t \in Tokens, NEW s \in Students,
             BindStudent(r, t, s)
      PROVE  ProtectedAsAtFirst(db')
  <2>1. (Inserted(r, req[r].actor, {"STUDENT"})
           \cup VolunteerGrant(r, req[r].actor, s)) \cap ProtectedRoles = {}
    BY VolunteerGrantSize DEF Inserted, ProtectedRoles
  <2> DEFINE u == req[r].actor
             R == db.roles[u] \cup (Inserted(r, u, {"STUDENT"})
                                   \cup VolunteerGrant(r, u, s))
  <2>2. u \in Users /\ db'.roles = [db.roles EXCEPT ![u] = R]
    <3>1. db'.roles = [db.roles EXCEPT ![req[r].actor] =
            @ \cup (Inserted(r, req[r].actor, {"STUDENT"})
                    \cup VolunteerGrant(r, req[r].actor, s))]
      BY <1>2, BindStep
    <3> QED BY <1>2, <3>1, BindStep, AccountRows
  <2>3. R \cap ProtectedRoles = db.roles[u] \cap ProtectedRoles
    BY <2>1
  <2> QED BY <2>2, <2>3, ProtectedWrite
<1>3. ASSUME NEW r \in Reqs, NEW s \in Students \cup {None},
             StudentBindingReset(r, s)
      PROVE  ProtectedAsAtFirst(db')
  <2>1. ResetRoles(r, req[r].target, s) \cap ProtectedRoles
          = db.roles[req[r].target] \cap ProtectedRoles
    BY DEF ResetRoles, Inserted, ProtectedRoles
  <2>2. /\ req[r].target \in Users
        /\ db'.roles = [db.roles EXCEPT ![req[r].target] =
                          ResetRoles(r, req[r].target, s)]
    BY <1>3, ResetStep
  <2> QED BY <2>1, <2>2, ProtectedWrite
<1>4. ASSUME NEW r \in Reqs, NEW desired \in DesiredRoles,
             AssignRoles(r, desired)
      PROVE  ProtectedAsAtFirst(db')
  <2> DEFINE u == req[r].target
  <2>1. req[r].actor \in Users /\ u \in Users
    BY <1>4, RequestType DEF AssignRoles
  <2>2. "SUPER_ADMIN" \notin View(r).roles[req[r].actor]
    BY <2>1 DEF EscalationInv, ProtectedAsAtFirst, NobodySuper, ProtectedRoles
  <2>3. SymmetricDifference(View(r).roles[u], desired)
          \subseteq {"STUDENT_AFFAIRS_MANAGER"}
    BY <1>4, <2>2 DEF AssignRoles, MayAssign, CanChangeRoles
  <2>4. AlignRoles(r, u, desired) \cap ProtectedRoles
          = db.roles[u] \cap ProtectedRoles
    BY <2>3 DEF SymmetricDifference, AlignRoles, Inserted, ProtectedRoles
  <2>5. db'.roles = [db.roles EXCEPT ![u] = AlignRoles(r, u, desired)]
    BY <1>4, AssignStep
  <2> QED BY <2>1, <2>4, <2>5, ProtectedWrite
<1>5. ASSUME NEW r \in Reqs, NEW c \in GrantCodes, NEW on \in BOOLEAN,
             SetOptionalPermission(r, c, on)
      PROVE  ProtectedAsAtFirst(db')
  <2>1. db'.roles = db.roles
    BY <1>5, OptionalStep
  <2> QED BY <2>1 DEF EscalationInv, ProtectedAsAtFirst
<1>8. ASSUME NEW r \in Reqs, NEW on \in SUBSET Students,
             NEW off \in SUBSET Students, Qualify(r, on, off)
      PROVE  ProtectedAsAtFirst(db')
  <2> SUFFICES ASSUME NEW u \in Users
               PROVE  db'.roles[u] \cap ProtectedRoles
                        = InitRoles[u] \cap ProtectedRoles
    BY DEF ProtectedAsAtFirst
  <2>1. db'.roles[u] = db.roles[u] \cup QualifiedGrant(r, on, u)
    BY <1>8, QualifyStep
  <2>2. QualifiedGrant(r, on, u) \cap ProtectedRoles = {}
    BY DEF QualifiedGrant, ProtectedRoles
  <2>3. db.roles[u] \cap ProtectedRoles = InitRoles[u] \cap ProtectedRoles
    BY DEF EscalationInv, ProtectedAsAtFirst
  <2> QED BY <2>1, <2>2, <2>3
<1>6. ProtectedAsAtFirst(db')
  <2>1. CASE UNCHANGED vars
    BY <1>1, <2>1 DEF vars, AccountsKept
  <2>2. CASE Next
    BY <2>2, <1>1, <1>2, <1>3, <1>4, <1>5, <1>8, KeptByClients, KeptByRequests
    DEF Next
  <2> QED BY <2>1, <2>2
<1>7. ASSUME NEW q \in Reqs PROVE ProtectedAsAtFirst(View(q)')
  <2>1. ProtectedAsAtFirst(InitDB)
    BY DEF ProtectedAsAtFirst, InitDB
  <2> QED BY <2>1, SnapshotOrigin DEF EscalationInv
<1> QED BY <1>6, <1>7 DEF EscalationInv

(* Where nobody is SUPER_ADMIN, no sequence of role changes, bindings and   *)
(* resets gives an account an administrator role or takes one away.         *)
THEOREM NoOneEscalates == Spec => []NoEscalation
<1>1. CASE ~NobodySuper
  <2>1. NoEscalation
    BY <1>1 DEF NobodySuper, NoEscalation
  <2> QED BY <2>1, PTL
<1>2. CASE NobodySuper
  <2>1. Init => EscalationInv
    BY DEF Init, EscalationInv, ProtectedAsAtFirst, InitDB, View, Idle
  <2>2. TypeInv /\ EscalationInv /\ [Next]_vars => EscalationInv'
    BY <1>2, EscalationStep
  <2>3. EscalationInv => NoEscalation
    BY DEF EscalationInv, ProtectedAsAtFirst, NoEscalation
  <2> QED BY <2>1, <2>2, <2>3, TypeStart, TypeStep, PTL DEF Spec
<1> QED BY <1>1, <1>2
-----------------------------------------------------------------------------
(* The optimistic lock: what lock_version covers when every handler that    *)
(* writes an account locks its row.  bind_student and the qualification     *)
(* handlers do not: they can take a version back.                           *)

(* No client calls a handler that writes an account without its lock. *)
AllLock == Kinds \cap {"bind", "qualify"} = {}

(* e is d, or later: an account with the same lock_version is the same.     *)
Covers(d, e) ==
  \A u \in Users :
    /\ d.version[u] <= e.version[u]
    /\ d.version[u] = e.version[u] =>
         /\ d.roles[u] = e.roles[u]
         /\ d.grants[u] = e.grants[u]
         /\ d.student[u] = e.student[u]

(* A running request reads the past, and its client an older one. *)
VersionInv ==
  /\ Covers(InitDB, db)
  /\ \A q \in Reqs : Covers(View(q), db)
  /\ \A q \in Reqs :
       req[q].pc = "running" =>
         /\ req[q].kind \in Kinds
         /\ req[q].kind \in Versioned =>
              req[q].expected <= View(q).version[req[q].target]

(* What the personal grants are for. *)
GrantInv ==
  \A u \in Users :
    /\ db.grants[u] \subseteq OptionalCodes
    /\ db.grants[u] # {} => "STUDENT_AFFAIRS_MANAGER" \in db.roles[u]

LEMMA CoversTransitive ==
  ASSUME NEW d \in DB, NEW e \in DB, NEW f \in DB, Covers(d, e), Covers(e, f)
  PROVE  Covers(d, f)
<1> SUFFICES ASSUME NEW u \in Users
             PROVE  /\ d.version[u] <= f.version[u]
                    /\ d.version[u] = f.version[u] =>
                         /\ d.roles[u] = f.roles[u]
                         /\ d.grants[u] = f.grants[u]
                         /\ d.student[u] = f.student[u]
  BY DEF Covers
<1>1. /\ d.version[u] \in Nat /\ e.version[u] \in Nat /\ f.version[u] \in Nat
  BY DEF DB
<1>2. d.version[u] <= e.version[u] /\ e.version[u] <= f.version[u]
  BY DEF Covers
<1>3. CASE d.version[u] = f.version[u]
  <2>1. d.version[u] = e.version[u] /\ e.version[u] = f.version[u]
    BY <1>1, <1>2, <1>3
  <2> QED BY <2>1 DEF Covers
<1> QED BY <1>1, <1>2, <1>3

LEMMA CoversItself ==
  ASSUME NEW d \in DB PROVE Covers(d, d)
BY DEF Covers, DB

(* A handler that moves the version of the account it writes. *)
LEMMA MovedVersion ==
  ASSUME TypeInv, NEW u \in Users, NEW R, NEW G, NEW S,
         db'.roles = [db.roles EXCEPT ![u] = R],
         db'.grants = [db.grants EXCEPT ![u] = G],
         db'.student = [db.student EXCEPT ![u] = S],
         db'.version = [db.version EXCEPT ![u] = NextVersion(u)]
  PROVE  Covers(db, db') /\ db'.version[u] > db.version[u]
BY AccountRows DEF Covers, NextVersion

LEMMA MovesForward ==
  ASSUME AllLock, TypeInv, VersionInv, [Next]_vars
  PROVE  Covers(db, db')
<1>1. ASSUME AccountsKept PROVE Covers(db, db')
  BY <1>1, AccountRows DEF AccountsKept, Covers
<1>2. ASSUME NEW r \in Reqs, NEW t \in Tokens, NEW s \in Students
      PROVE  ~BindStudent(r, t, s)
  BY DEF AllLock, BindStudent, Presents, Running, VersionInv
<1>8. ASSUME NEW r \in Reqs, NEW on \in SUBSET Students,
             NEW off \in SUBSET Students
      PROVE  ~Qualify(r, on, off)
  BY DEF AllLock, Qualify, Running, VersionInv
<1>3. ASSUME NEW r \in Reqs, NEW s \in Students \cup {None},
             StudentBindingReset(r, s)
      PROVE  Covers(db, db')
  <2> DEFINE u == req[r].target
  <2>1. /\ u \in Users
        /\ db'.roles = [db.roles EXCEPT ![u] = ResetRoles(r, u, s)]
        /\ db'.grants = db.grants
        /\ db'.version = [db.version EXCEPT ![u] = NextVersion(u)]
        /\ db'.student = [db.student EXCEPT ![u] = s]
    BY <1>3, ResetStep
  <2>2. db'.grants = [db.grants EXCEPT ![u] = db.grants[u]]
    BY <2>1, AccountRows
  <2> QED BY <2>1, <2>2, MovedVersion
<1>4. ASSUME NEW r \in Reqs, NEW desired \in DesiredRoles,
             AssignRoles(r, desired)
      PROVE  Covers(db, db')
  <2> DEFINE u == req[r].target
  <2>1. /\ u \in Users
        /\ db'.roles = [db.roles EXCEPT ![u] = AlignRoles(r, u, desired)]
        /\ db'.grants = [db.grants EXCEPT ![u] = GrantsKept(r, u, desired)]
        /\ db'.version = [db.version EXCEPT ![u] = NextVersion(u)]
        /\ db'.student = db.student
    BY <1>4, AssignStep
  <2>2. db'.student = [db.student EXCEPT ![u] = db.student[u]]
    BY <2>1, AccountRows
  <2> QED BY <2>1, <2>2, MovedVersion
<1>5. ASSUME NEW r \in Reqs, NEW c \in GrantCodes, NEW on \in BOOLEAN,
             SetOptionalPermission(r, c, on)
      PROVE  Covers(db, db')
  <2> DEFINE u == req[r].target
  <2>1. /\ u \in Users
        /\ db'.roles = db.roles
        /\ db'.grants = [db.grants EXCEPT ![u] = db'.grants[u]]
        /\ db'.version = [db.version EXCEPT ![u] = NextVersion(u)]
        /\ db'.student = db.student
    BY <1>5, OptionalStep
  <2>2. db'.student = [db.student EXCEPT ![u] = db.student[u]]
    BY <2>1, AccountRows
  <2>3. db'.roles = [db.roles EXCEPT ![u] = db.roles[u]]
    BY <2>1, AccountRows
  <2> HIDE DEF u
  <2> QED BY <2>1, <2>2, <2>3, MovedVersion
<1>6. CASE UNCHANGED vars
  BY <1>1, <1>6 DEF vars, AccountsKept
<1>7. CASE Next
  BY <1>7, <1>1, <1>2, <1>3, <1>4, <1>5, <1>8, KeptByClients, KeptByRequests
  DEF Next
<1> QED BY <1>6, <1>7

(* What a client knows of a request: it is set when the snapshot is taken. *)
LEMMA ExpectedStep ==
  ASSUME TypeInv, VersionInv, [Next]_vars, NEW q \in Reqs,
         req'[q].pc = "running"
  PROVE  /\ req'[q].kind \in Kinds
         /\ req'[q].kind \in Versioned =>
              req'[q].expected <= View(q)'.version[req'[q].target]
<1> DEFINE Known == /\ req'[q].kind \in Kinds
                    /\ req'[q].kind \in Versioned =>
                         req'[q].expected <= View(q)'.version[req'[q].target]
<1>1. ASSUME req'[q] = req[q] PROVE Known
  BY <1>1 DEF VersionInv, View
<1>2. ASSUME NEW r \in Reqs, NEW d, Commit(r, d) \/ Rollback(r) PROVE Known
  BY <1>1, <1>2 DEF Commit, Rollback, Idle, TypeInv, TypeOK
<1>3. ASSUME NEW r \in Reqs, NEW u \in Users, Resolve(r, u) PROVE Known
  BY <1>1, <1>3 DEF Resolve, Idle, TypeInv, TypeOK
<1>4. ASSUME NEW r \in Reqs, NEW k \in Kinds, NEW u \in Users,
             NEW n \in 0 .. MaxVersion, Snapshot(r, k, u, n)
      PROVE  Known
  BY <1>1, <1>4 DEF Snapshot, TypeInv, TypeOK, View
<1>5. CASE UNCHANGED vars
  BY <1>1, <1>5 DEF vars
<1>6. CASE Next
  <2>1. ASSUME NEW u \in Users, Login(u) PROVE Known
    BY <2>1, <1>1 DEF Login
  <2>2. ASSUME NEW t \in Tokens, Lapse(t) PROVE Known
    BY <2>2, <1>1 DEF Lapse
  <2>6. ASSUME NEW t \in Tokens, NEW s \in Students, IssueFromShell(t, s)
        PROVE  Known
    BY <2>6, <1>1 DEF IssueFromShell
  <2>3. ASSUME NEW r \in Reqs, Handles(r) PROVE \E d : Commit(r, d)
    BY <2>3, HandlersCommit
  <2> QED BY <1>2, <1>3, <1>4, <1>6, <2>1, <2>2, <2>3, <2>6
     DEF Next, Handles
<1> QED BY <1>5, <1>6

LEMMA VersionStep ==
  ASSUME AllLock, TypeInv, VersionInv, [Next]_vars
  PROVE  VersionInv'
<1>1. db' \in DB /\ InitDB \in DB /\ db \in DB /\ \A q \in Reqs : View(q) \in DB
  BY TypeStep, InitDBType DEF TypeInv, TypeOK, Request, View
<1>2. Covers(db, db')
  BY MovesForward
<1>3. Covers(InitDB, db')
  BY <1>1, <1>2, CoversTransitive DEF VersionInv
<1>4. ASSUME NEW q \in Reqs PROVE Covers(View(q)', db')
  <2>1. Covers(View(q), db')
    BY <1>1, <1>2, CoversTransitive DEF VersionInv
  <2> QED BY <1>2, <1>3, <2>1, SnapshotOrigin
<1> QED BY <1>3, <1>4, ExpectedStep DEF VersionInv

LEMMA VersionStart == Init => VersionInv
<1>1. Covers(InitDB, InitDB)
  BY CoversItself, InitDBType
<1> QED BY <1>1 DEF Init, VersionInv, View, Idle

(* The lock: a handler whose version fits has read the account as it is. *)
LEMMA FittingSnapshot ==
  ASSUME TypeInv, VersionInv, NEW r \in Reqs,
         req[r].pc = "running", req[r].kind \in Versioned, VersionFits(r)
  PROVE  /\ View(r).roles[req[r].target] = db.roles[req[r].target]
         /\ View(r).grants[req[r].target] = db.grants[req[r].target]
<1> DEFINE u == req[r].target
<1>1. u \in Users /\ req[r].expected \in Nat /\ View(r) \in DB /\ db \in DB
  BY DEF TypeInv, TypeOK, ActorsKnown, Request, View
<1>2. View(r).version[u] \in Nat /\ db.version[u] \in Nat
  BY <1>1 DEF DB
<1>3. /\ db.version[u] = req[r].expected
      /\ req[r].expected <= View(r).version[u]
      /\ View(r).version[u] <= db.version[u]
  BY <1>1 DEF VersionFits, VersionInv, Covers
<1>4. View(r).version[u] = db.version[u]
  BY <1>1, <1>2, <1>3
<1> QED BY <1>1, <1>4 DEF VersionInv, Covers
-----------------------------------------------------------------------------
(* Where all lock, whatever changes an account moves its lock_version.       *)
THEOREM VersionsMove ==
  ASSUME AllLock PROVE Spec => VersionMovesForward
<1> DEFINE Forward ==
      \A u \in Users :
        <<db'.roles[u], db'.grants[u], db'.student[u]>>
          # <<db.roles[u], db.grants[u], db.student[u]>>
        => db'.version[u] > db.version[u]
<1>1. TypeInv /\ TypeInv' /\ VersionInv /\ [Next]_vars => [Forward]_vars
  <2> SUFFICES ASSUME TypeInv, TypeInv', VersionInv, [Next]_vars,
                      NEW u \in Users,
                      <<db'.roles[u], db'.grants[u], db'.student[u]>>
                        # <<db.roles[u], db.grants[u], db.student[u]>>
               PROVE  db'.version[u] > db.version[u]
    OBVIOUS
  <2>1. Covers(db, db')
    BY MovesForward
  <2>2. db.version[u] \in Nat /\ db'.version[u] \in Nat
    BY DEF TypeInv, TypeOK, DB
  <2> QED BY <2>1, <2>2 DEF Covers
<1>2. TypeInv /\ VersionInv /\ [Next]_vars => VersionInv'
  BY VersionStep
<1> QED
  BY <1>1, <1>2, TypeStart, VersionStart, TypeStep, PTL
  DEF Spec, VersionMovesForward

(* Where all lock, an assignment that commits leaves what was asked for:    *)
(* its version fits, so its snapshot of the account is current.             *)
THEOREM AssignmentsExact ==
  ASSUME AllLock PROVE Spec => AssignLeavesDesired
<1> DEFINE Exact ==
      \A r \in Reqs, desired \in DesiredRoles :
        AssignRoles(r, desired) => db'.roles[req[r].target] = desired
<1>1. TypeInv /\ VersionInv => Exact
  <2> SUFFICES ASSUME TypeInv, VersionInv, NEW r \in Reqs,
                      NEW desired \in DesiredRoles, AssignRoles(r, desired)
               PROVE  db'.roles[req[r].target] = desired
    OBVIOUS
  <2>1. View(r).roles[req[r].target] = db.roles[req[r].target]
    BY FittingSnapshot DEF AssignRoles, Running, Versioned
  <2>2. AlignRoles(r, req[r].target, desired) = desired
    BY <2>1 DEF AlignRoles, Inserted
  <2>3. /\ req[r].target \in Users
        /\ db'.roles = [db.roles EXCEPT ![req[r].target] =
                          AlignRoles(r, req[r].target, desired)]
    BY AssignStep
  <2> QED BY <2>2, <2>3, AccountRows
<1>2. TypeInv /\ VersionInv /\ [Next]_vars => VersionInv'
  BY VersionStep
<1>3. TypeInv /\ VersionInv => [Exact]_vars
  BY <1>1
<1> QED
  BY <1>2, <1>3, TypeStart, VersionStart, TypeStep, PTL
  DEF Spec, AssignLeavesDesired
-----------------------------------------------------------------------------
(* Personal grants *)

(* What a handler leaves of the account it writes is enough. *)
LEMMA GrantWrite ==
  ASSUME TypeInv, GrantInv, NEW u \in Users, NEW R, NEW G,
         db'.roles = [db.roles EXCEPT ![u] = R],
         db'.grants = [db.grants EXCEPT ![u] = G],
         G \subseteq OptionalCodes,
         G # {} => "STUDENT_AFFAIRS_MANAGER" \in R
  PROVE  GrantInv'
BY AccountRows DEF GrantInv

LEMMA GrantStep ==
  ASSUME AllLock, TypeInv, VersionInv, GrantInv, [Next]_vars
  PROVE  GrantInv'
<1>1. ASSUME AccountsKept PROVE GrantInv'
  BY <1>1 DEF AccountsKept, GrantInv
<1>2. ASSUME NEW r \in Reqs, NEW t \in Tokens, NEW s \in Students
      PROVE  ~BindStudent(r, t, s)
  BY DEF AllLock, BindStudent, Presents, Running, VersionInv
<1>8. ASSUME NEW r \in Reqs, NEW on \in SUBSET Students,
             NEW off \in SUBSET Students
      PROVE  ~Qualify(r, on, off)
  BY DEF AllLock, Qualify, Running, VersionInv
<1>3. ASSUME NEW r \in Reqs, NEW s \in Students \cup {None},
             StudentBindingReset(r, s)
      PROVE  GrantInv'
  <2> DEFINE u == req[r].target
  <2>1. /\ u \in Users
        /\ db'.roles = [db.roles EXCEPT ![u] = ResetRoles(r, u, s)]
        /\ db'.grants = db.grants
    BY <1>3, ResetStep
  <2>2. db'.grants = [db.grants EXCEPT ![u] = db.grants[u]]
    BY <2>1, AccountRows
  <2>3. "STUDENT_AFFAIRS_MANAGER" \in db.roles[u] =>
          "STUDENT_AFFAIRS_MANAGER" \in ResetRoles(r, u, s)
    BY DEF ResetRoles, Inserted
  <2> QED BY <2>1, <2>2, <2>3, GrantWrite DEF GrantInv
<1>4. ASSUME NEW r \in Reqs, NEW desired \in DesiredRoles,
             AssignRoles(r, desired)
      PROVE  GrantInv'
  <2> DEFINE u == req[r].target
             R == AlignRoles(r, u, desired)
             G == GrantsKept(r, u, desired)
  <2>1. /\ u \in Users
        /\ db'.roles = [db.roles EXCEPT ![u] = R]
        /\ db'.grants = [db.grants EXCEPT ![u] = G]
    BY <1>4, AssignStep
  <2>2. View(r).roles[u] = db.roles[u] /\ View(r).grants[u] = db.grants[u]
    BY <1>4, FittingSnapshot DEF AssignRoles, Running, Versioned
  <2>3. R = desired
    BY <2>2 DEF AlignRoles, Inserted
  <2>4. db.grants[u] \subseteq OptionalCodes
    BY <2>1 DEF GrantInv
  <2>5. CASE ManagerRevoked(r, u, desired)
    <3>1. G = {}
      BY <2>2, <2>4, <2>5 DEF GrantsKept
    <3> QED BY <2>1, <3>1, GrantWrite
  <2>6. CASE ~ManagerRevoked(r, u, desired)
    <3>1. G = db.grants[u]
      BY <2>6 DEF GrantsKept
    <3>2. G # {} => "STUDENT_AFFAIRS_MANAGER" \in R
      BY <2>1, <2>2, <2>3, <2>6, <3>1 DEF GrantInv, ManagerRevoked
    <3>3. G \subseteq OptionalCodes
      BY <2>4, <3>1
    <3> QED BY <2>1, <3>2, <3>3, GrantWrite
  <2> QED BY <2>5, <2>6
<1>5. ASSUME NEW r \in Reqs, NEW c \in GrantCodes, NEW on \in BOOLEAN,
             SetOptionalPermission(r, c, on)
      PROVE  GrantInv'
  <2> DEFINE u == req[r].target
  <2>1. /\ u \in Users
        /\ db'.roles = db.roles
        /\ db'.grants = [db.grants EXCEPT ![u] = db'.grants[u]]
        /\ db'.version = [db.version EXCEPT ![u] = NextVersion(u)]
        /\ db'.student = db.student
    BY <1>5, OptionalStep
  <2>2. db'.grants[u] \subseteq db.grants[u] \cup {c}
    BY <1>5, OptionalStep
  <2>3. db'.roles = [db.roles EXCEPT ![u] = db.roles[u]]
    BY <2>1, AccountRows
  <2>4. c \in OptionalCodes /\ "STUDENT_AFFAIRS_MANAGER" \in View(r).roles[u]
    BY <1>5 DEF SetOptionalPermission, MayConfigure
  <2>5. View(r).roles[u] = db.roles[u]
    BY <1>5, FittingSnapshot DEF SetOptionalPermission, Running, Versioned
  <2>6. db'.grants[u] \subseteq OptionalCodes
    BY <2>1, <2>4, <2>2 DEF GrantInv
  <2>7. db'.grants[u] # {} => "STUDENT_AFFAIRS_MANAGER" \in db.roles[u]
    BY <2>4, <2>5
  <2> QED BY <2>1, <2>3, <2>6, <2>7, GrantWrite
<1>6. CASE UNCHANGED vars
  BY <1>1, <1>6 DEF vars, AccountsKept
<1>7. CASE Next
  BY <1>7, <1>1, <1>2, <1>3, <1>4, <1>5, <1>8, KeptByClients, KeptByRequests
  DEF Next
<1> QED BY <1>6, <1>7

(* Where all lock, personal grants are the three optional ones and last     *)
(* no longer than the manager role, however assignments and switches of the *)
(* same account overlap.                                                    *)
THEOREM GrantsFollowTheRole ==
  ASSUME AllLock PROVE Spec => []GrantsNeedManager
<1>1. Init => GrantInv
  BY DEF Init, InitDB, GrantInv
<1>2. TypeInv /\ VersionInv /\ [Next]_vars => VersionInv'
  BY VersionStep
<1>3. TypeInv /\ VersionInv /\ GrantInv /\ [Next]_vars => GrantInv'
  BY GrantStep
<1>4. GrantInv => GrantsNeedManager
  BY DEF GrantInv, GrantsNeedManager
<1> QED
  BY <1>1, <1>2, <1>3, <1>4, TypeStart, VersionStart, TypeStep, PTL DEF Spec
-----------------------------------------------------------------------------
(* What changes a binding *)

LEMMA BindsActor ==
  ASSUME TypeInv, NEW r \in Reqs, NEW t \in Tokens, NEW s \in Students,
         BindStudent(r, t, s), NEW u \in Users, db'.student[u] # db.student[u]
  PROVE  u = req[r].actor
BY BindStep, AccountRows

LEMMA BoundBy ==
  ASSUME TypeInv, [Next]_vars, NEW u \in Users,
         db'.student[u] # db.student[u]
  PROVE  \/ \E r \in Reqs, t \in Tokens, s \in Students :
              BindStudent(r, t, s) /\ u = req[r].actor
         \/ \E r \in Reqs, s \in Students \cup {None} :
              StudentBindingReset(r, s) /\ u = req[r].target
<1>1. ~AccountsKept
  BY DEF AccountsKept
<1>2. Next
  BY <1>1 DEF vars, AccountsKept
<1>3. ASSUME NEW r \in Reqs, NEW t \in Tokens, NEW s \in Students,
             BindStudent(r, t, s)
      PROVE  u = req[r].actor
  BY <1>3, BindsActor
<1>4. ASSUME NEW r \in Reqs, NEW s \in Students \cup {None},
             StudentBindingReset(r, s)
      PROVE  u = req[r].target
  BY <1>4, ResetStep, AccountRows
<1>5. ASSUME NEW r \in Reqs
      PROVE  /\ \A desired \in DesiredRoles : ~AssignRoles(r, desired)
             /\ \A c \in GrantCodes, on \in BOOLEAN :
                  ~SetOptionalPermission(r, c, on)
             /\ \A on, off \in SUBSET Students : ~Qualify(r, on, off)
  BY AssignStep, OptionalStep, QualifyStep
<1> QED BY <1>1, <1>2, <1>3, <1>4, <1>5, KeptByClients, KeptByRequests DEF Next

(* A code is counted by nobody but bind_student. *)
LEMMA RedeemedBy ==
  ASSUME TypeInv, [Next]_vars, NEW t \in Tokens,
         redemptions'[t] > redemptions[t]
  PROVE  \E r \in Reqs, s \in Students : BindStudent(r, t, s)
<1>1. redemptions \in [Tokens -> Nat]
  BY DEF TypeInv, TypeOK
<1>2. redemptions' # redemptions
  BY <1>1
<1>3. Next
  BY <1>2 DEF vars
<1>4. ASSUME NEW r \in Reqs, NEW x \in Tokens, NEW s \in Students,
             BindStudent(r, x, s)
      PROVE  x = t
  <2>1. redemptions' = [redemptions EXCEPT ![x] = @ + 1]
    BY <1>4, CodeSteps
  <2> QED BY <1>1, <2>1
<1>5. ASSUME NEW x \in Tokens, NEW s \in Students
      PROVE  /\ ~IssueFromShell(x, s)
             /\ \A r \in Reqs : ~IssueBindingToken(r, x, s) /\ ~BindMismatch(r, x, s)
  BY <1>2, <1>5 DEF IssueFromShell, IssueBindingToken, BindMismatch
<1>6. ASSUME NEW r \in Reqs, NEW x \in Tokens
      PROVE  ~RevokeBindingToken(r, x) /\ ~BindLapsed(r, x)
  BY <1>2, <1>6 DEF RevokeBindingToken, BindLapsed
<1>7. ~CodesKept
  BY <1>2 DEF CodesKept
<1>8. \E r \in Reqs, x \in Tokens, s \in Students : BindStudent(r, x, s)
  BY <1>3, <1>5, <1>6, <1>7, KeepingClients, KeepingSteps DEF Next
<1> QED BY <1>4, <1>8

(* A qualification changes by the hands of those who manage them. *)
LEMMA QualifiedBy ==
  ASSUME TypeInv, [Next]_vars, NEW s \in Students,
         db'.qualification[s] # db.qualification[s]
  PROVE  \E r \in Reqs, on, off \in SUBSET Students : Qualify(r, on, off)
<1>1. Next
  BY DEF vars
<1>2. ASSUME NEW u \in Users, Login(u) PROVE FALSE
  BY <1>2 DEF Login, TypeInv, TypeOK, DB
<1>3. ASSUME NEW t \in Tokens, Lapse(t) PROVE FALSE
  BY <1>3 DEF Lapse
<1>4. ASSUME NEW t \in Tokens, NEW x \in Students, IssueFromShell(t, x)
      PROVE  FALSE
  BY <1>4 DEF IssueFromShell, TypeInv, TypeOK, DB
<1>5. ASSUME NEW r \in Reqs
      PROVE  /\ \A u \in Users : ~Resolve(r, u)
             /\ \A k \in Kinds, u \in Users, n \in 0 .. MaxVersion :
                  ~Snapshot(r, k, u, n)
             /\ ~Rollback(r)
  BY DEF Resolve, Snapshot, Rollback
<1>6. ASSUME NEW r \in Reqs, NEW t \in Tokens
      PROVE  /\ \A x \in Students : /\ ~IssueBindingToken(r, t, x)
                                    /\ ~BindMismatch(r, t, x)
             /\ ~RevokeBindingToken(r, t) /\ ~BindLapsed(r, t)
  BY DEF IssueBindingToken, BindMismatch, RevokeBindingToken, BindLapsed,
         Commit, TypeInv, TypeOK, DB
<1>7. ASSUME NEW r \in Reqs, NEW t \in Tokens, NEW x \in Students,
             BindStudent(r, t, x)
      PROVE  FALSE
  BY <1>7 DEF BindStudent, Commit, TypeInv, TypeOK, DB
<1>8. ASSUME NEW r \in Reqs
      PROVE  /\ \A x \in Students \cup {None} : ~StudentBindingReset(r, x)
             /\ \A desired \in DesiredRoles : ~AssignRoles(r, desired)
             /\ \A c \in GrantCodes, on \in BOOLEAN :
                  ~SetOptionalPermission(r, c, on)
  BY DEF StudentBindingReset, AssignRoles, SetOptionalPermission, Commit,
         TypeInv, TypeOK, DB
<1> QED
  BY <1>1, <1>2, <1>3, <1>4, <1>5, <1>6, <1>7, <1>8 DEF Next

(* A code binds no other student than its own: nothing but a redemption of  *)
(* an open code issued for the student, or a reset, changes a binding.      *)
THEOREM BindingsJustified == Spec => BindingJustified
<1> DEFINE Justified ==
      \A u \in Users :
        db'.student[u] # db.student[u] =>
          \/ \E r \in Reqs, s \in Students \cup {None} :
               req[r].target = u /\ StudentBindingReset(r, s)
          \/ \E t \in Tokens : Redeems(u, t)
<1>1. ASSUME TypeInv, NEW r \in Reqs, NEW t \in Tokens, NEW s \in Students,
             BindStudent(r, t, s)
      PROVE  Redeems(req[r].actor, t)
  <2>1. req[r].actor \in Users /\ db'.student[req[r].actor] = s
    <3>1. /\ req[r].actor \in Users
          /\ db'.student = [db.student EXCEPT ![req[r].actor] = s]
      BY <1>1, BindStep
    <3> QED BY <1>1, <3>1, AccountRows
  <2>2. db'.token[t].used
    <3>1. db'.token = [db.token EXCEPT ![t].status = "USED", ![t].used = TRUE]
      BY <1>1, CodeSteps
    <3> QED BY <1>1, <3>1, TokenRows DEF Token
  <2>3. /\ db.token[t].status = "UNUSED" /\ ~db.token[t].used
        /\ t \notin lapsed /\ db.token[t].student = s
    BY <1>1 DEF BindStudent, Presents, Redeemable, LockedToken, CodeFits
  <2> QED BY <2>1, <2>2, <2>3 DEF Redeems
<1>2. TypeInv /\ [Next]_vars => [Justified]_vars
  BY <1>1, BoundBy
<1> QED BY <1>2, TypeStart, TypeStep, PTL DEF Spec, BindingJustified
-----------------------------------------------------------------------------
(* Requests that do not overlap *)

(* No two handlers run at once. *)
NoOverlap ==
  \A q, r \in Reqs : req[q].pc = "running" /\ req[r].pc = "running" => q = r

(* What a request has read still stands, but for the codes that the shell   *)
(* has issued meanwhile (and the logins, which no theorem here reads).      *)
Stands(d) ==
  /\ d.student = db.student /\ d.roles = db.roles
  /\ d.qualification = db.qualification
  /\ \A t \in Tokens : d.token[t].status # "NONE" => d.token[t] = db.token[t]

SeesCurrent == \A r \in Reqs : req[r].pc = "running" => Stands(View(r))

(* A commit ends the only request that has read anything. *)
LEMMA SeesCurrentStep ==
  TypeInv /\ NoOverlap /\ SeesCurrent /\ [Next]_vars => SeesCurrent'
<1> SUFFICES ASSUME TypeInv, NoOverlap, SeesCurrent, [Next]_vars,
                    NEW q \in Reqs, req'[q].pc = "running"
             PROVE  Stands(View(q))'
  BY DEF SeesCurrent
<1>1. ASSUME req'[q] = req[q],
             db'.student = db.student, db'.roles = db.roles,
             db'.qualification = db.qualification,
             \A t \in Tokens :
               db.token[t].status # "NONE" => db'.token[t] = db.token[t]
      PROVE  Stands(View(q))'
  BY <1>1 DEF SeesCurrent, Stands, View
<1>2. ASSUME req'[q] = req[q], db' = db PROVE Stands(View(q))'
  BY <1>1, <1>2
<1>3. CASE UNCHANGED vars
  BY <1>2, <1>3 DEF vars
<1>4. ASSUME NEW u \in Users, Login(u) PROVE Stands(View(q))'
  BY <1>1, <1>4 DEF Login, TypeInv, TypeOK, DB
<1>5. ASSUME NEW t \in Tokens, Lapse(t) PROVE Stands(View(q))'
  BY <1>2, <1>5 DEF Lapse
<1>6. ASSUME NEW t \in Tokens, NEW s \in Students, IssueFromShell(t, s)
      PROVE  Stands(View(q))'
  BY <1>1, <1>6 DEF IssueFromShell, TypeInv, TypeOK, DB
<1>7. ASSUME NEW r \in Reqs, NEW u \in Users, Resolve(r, u)
      PROVE  Stands(View(q))'
  BY <1>2, <1>7 DEF Resolve, Idle, TypeInv, TypeOK
<1>8. ASSUME NEW r \in Reqs, NEW k \in Kinds, NEW u \in Users,
             NEW n \in 0 .. MaxVersion, Snapshot(r, k, u, n)
      PROVE  Stands(View(q))'
  <2>1. db' = db
    BY <1>8 DEF Snapshot
  <2>2. CASE q = r
    BY <1>8, <2>1, <2>2 DEF Snapshot, Stands, View, TypeInv, TypeOK
  <2>3. CASE q # r
    BY <1>2, <1>8, <2>1, <2>3 DEF Snapshot, TypeInv, TypeOK
  <2> QED BY <2>2, <2>3
<1>9. ASSUME NEW r \in Reqs, Rollback(r) PROVE Stands(View(q))'
  BY <1>2, <1>9 DEF Rollback, Idle, TypeInv, TypeOK
<1>10. ASSUME NEW r \in Reqs, Handles(r) PROVE FALSE
  <2>1. req' = [req EXCEPT ![r] = Idle]
    BY <1>10, HandlersCommit DEF Commit
  <2>2. q # r /\ req[q].pc = "running"
    BY <2>1 DEF Idle, TypeInv, TypeOK
  <2> QED BY <1>10, <2>2, HandlersCommit DEF NoOverlap
<1> QED
  BY <1>3, <1>4, <1>5, <1>6, <1>7, <1>8, <1>9, <1>10 DEF Next, Handles

LEMMA SeesCurrentStart == Init => SeesCurrent
BY DEF Init, SeesCurrent, Idle

(* A code that is marked used keeps the status USED: the revocation, which  *)
(* does not lock the row, has read the status that the row still has.       *)
THEOREM UsedStays == Spec /\ []NoOverlap => []UsedStaysUsed
<1>1. ASSUME TypeInv, SeesCurrent, UsedStaysUsed, [Next]_vars, NEW x \in Tokens,
             db'.token[x].used
      PROVE  db'.token[x].status = "USED"
  <2> USE <1>1
  <2>1. CASE db'.token = db.token
    BY <2>1 DEF UsedStaysUsed
  <2>2. ASSUME NEW t \in Tokens, NEW s \in Students, Issues(t, s)
        PROVE  db'.token[x].status = "USED"
    <3>1. db'.token = [db.token EXCEPT ![t] = Issued(s)]
      BY <2>2, IssueSteps
    <3> QED BY <3>1, TokenRows DEF UsedStaysUsed, Issued
  <2>3. ASSUME NEW r \in Reqs, NEW t \in Tokens, RevokeBindingToken(r, t)
        PROVE  db'.token[x].status = "USED"
    <3>1. View(r).token[t] = db.token[t] /\ View(r).token[t].status = "UNUSED"
      BY <2>3 DEF SeesCurrent, Stands, RevokeBindingToken, Revocable, Running
    <3>2. db'.token = [db.token EXCEPT ![t].status = "EXPIRED"]
      BY <2>3 DEF RevokeBindingToken, Commit, TypeInv, TypeOK, DB
    <3> QED BY <3>1, <3>2, TokenRows DEF UsedStaysUsed, Token
  <2>4. ASSUME NEW r \in Reqs, NEW t \in Tokens, BindLapsed(r, t)
        PROVE  db'.token[x].status = "USED"
    <3>1. ~db.token[t].used
      BY <2>4 DEF BindLapsed, Presents, Redeemable, LockedToken
    <3>2. db'.token = [db.token EXCEPT ![t].status = "EXPIRED"]
      BY <2>4 DEF BindLapsed, Commit, TypeInv, TypeOK, DB
    <3> QED BY <3>1, <3>2, TokenRows DEF UsedStaysUsed, Token
  <2>5. ASSUME NEW r \in Reqs, NEW t \in Tokens, NEW s \in Students,
               BindMismatch(r, t, s)
        PROVE  db'.token[x].status = "USED"
    <3>1. db'.token = [db.token EXCEPT ![t].failed = @ + 1]
      BY <2>5, CodeSteps
    <3> QED BY <3>1, TokenRows DEF UsedStaysUsed, Token
  <2>6. ASSUME NEW r \in Reqs, NEW t \in Tokens, NEW s \in Students,
               BindStudent(r, t, s)
        PROVE  db'.token[x].status = "USED"
    <3>1. db'.token = [db.token EXCEPT ![t].status = "USED", ![t].used = TRUE]
      BY <2>6, CodeSteps
    <3> QED BY <3>1, TokenRows DEF UsedStaysUsed, Token
  <2>7. CASE UNCHANGED vars
    BY <2>1, <2>7 DEF vars
  <2>8. CASE Next
    BY <2>8, <2>1, <2>2, <2>3, <2>4, <2>5, <2>6, KeepingClients, KeepingSteps
    DEF Next, Issues, CodesKept
  <2> QED BY <2>7, <2>8
<1>2. TypeInv /\ SeesCurrent /\ UsedStaysUsed /\ [Next]_vars => UsedStaysUsed'
  BY <1>1 DEF UsedStaysUsed
<1>3. Init => UsedStaysUsed
  BY DEF Init, InitDB, NoToken, UsedStaysUsed
<1> QED
  BY <1>2, <1>3, TypeStart, TypeStep, SeesCurrentStart, SeesCurrentStep, PTL
  DEF Spec

(* Whoever becomes a bound volunteer gets the role, whichever comes last,   *)
(* the qualification or the binding.                                        *)
THEOREM VolunteerRoleFollows == Spec /\ []NoOverlap => VolunteerFollows
<1> DEFINE Volunteers ==
      \A u \in Users, s \in Students :
        /\ db'.student[u] = s /\ db'.qualification[s] = "on"
        /\ \/ db.qualification[s] # "on"
           \/ /\ db.student[u] # s
              /\ \E t \in Tokens : redemptions'[t] > redemptions[t]
        => "VOLUNTEER" \in db'.roles[u]
<1>1. ASSUME TypeInv, SeesCurrent, [Next]_vars, NEW u \in Users,
             NEW s \in Students, db'.student[u] = s, db'.qualification[s] = "on",
             db.qualification[s] # "on"
      PROVE  "VOLUNTEER" \in db'.roles[u]
  <2> USE <1>1
  <2>1. PICK r \in Reqs, on \in SUBSET Students, off \in SUBSET Students :
          Qualify(r, on, off)
    BY QualifiedBy
  <2>2. View(r).student = db.student /\ View(r).roles = db.roles
    BY <2>1 DEF SeesCurrent, Stands, Qualify, Running
  <2>3. /\ db'.roles[u] = db.roles[u] \cup QualifiedGrant(r, on, u)
        /\ db'.student = db.student
        /\ db'.qualification = QualificationSet(r, on, off)
    BY <2>1, QualifyStep
  <2>4. s \in on
    BY <2>3 DEF QualificationSet
  <2> QED BY <2>2, <2>3, <2>4 DEF QualifiedGrant
<1>2. ASSUME TypeInv, SeesCurrent, [Next]_vars, NEW u \in Users,
             NEW s \in Students, db'.student[u] = s, db'.qualification[s] = "on",
             db.student[u] # s, NEW t \in Tokens,
             redemptions'[t] > redemptions[t]
      PROVE  "VOLUNTEER" \in db'.roles[u]
  <2> USE <1>2
  <2>1. PICK r \in Reqs, x \in Students : BindStudent(r, t, x)
    BY RedeemedBy
  <2>2. /\ req[r].actor \in Users /\ req[r].pc = "running"
        /\ db'.student = [db.student EXCEPT ![req[r].actor] = x]
        /\ db'.roles = [db.roles EXCEPT ![req[r].actor] =
             @ \cup (Inserted(r, req[r].actor, {"STUDENT"})
                     \cup VolunteerGrant(r, req[r].actor, x))]
    BY <2>1, BindStep DEF Running
  <2>3. u = req[r].actor /\ x = s
    BY <2>2, AccountRows
  <2>4. View(r).qualification[s] = "on" /\ View(r).roles = db.roles
    <3>1. db'.qualification = db.qualification
      BY <2>1 DEF BindStudent, Commit, TypeInv, TypeOK, DB
    <3> QED BY <2>2, <3>1 DEF SeesCurrent, Stands
  <2>5. VolunteerGrant(r, u, s) = {"VOLUNTEER"} \ db.roles[u]
    BY <2>4 DEF VolunteerGrant
  <2> QED BY <2>2, <2>3, <2>5, AccountRows
<1>3. TypeInv /\ SeesCurrent /\ [Next]_vars => [Volunteers]_vars
  BY <1>1, <1>2
<1> QED
  BY <1>3, TypeStart, TypeStep, SeesCurrentStart, SeesCurrentStep, PTL
  DEF Spec, VolunteerFollows
-----------------------------------------------------------------------------
(* Resets that overlap no other handler.  Redemptions, assignments and      *)
(* qualifications may overlap each other as they like.                      *)

Bindings(d) ==
  \A u \in Users : "STUDENT" \in d.roles[u] <=> d.student[u] # None

(* Whatever a request has read, it has read STUDENT with the binding. *)
ReadBindings == \A r \in Reqs : Bindings(View(r))

(* What a reset has read of the roles still stands. *)
ResetSees == \A r \in Reqs : Running(r, "reset") => View(r).roles = db.roles

LEMMA FirstBindings == Bindings(InitDB)
BY RolesAssumption DEF Bindings, InitDB, BusinessRoles

LEMMA ReadBindingsStep ==
  TypeInv /\ StudentRoleIffBound /\ ReadBindings /\ [Next]_vars
    => ReadBindings'
<1> SUFFICES ASSUME TypeInv, StudentRoleIffBound, ReadBindings, [Next]_vars,
                    NEW q \in Reqs
             PROVE  Bindings(View(q)')
  BY DEF ReadBindings, Bindings
<1>1. Bindings(db)
  BY DEF StudentRoleIffBound, Bindings
<1>2. Bindings(View(q))
  BY DEF ReadBindings
<1>3. View(q)' = View(q) \/ View(q)' = InitDB \/ View(q)' = db
  BY SnapshotOrigin
<1> QED BY <1>1, <1>2, <1>3, FirstBindings

(* The roles move by a commit, and no request has one beside a reset. *)
LEMMA ResetSeesStep ==
  TypeInv /\ ResetsAlone /\ ResetSees /\ [Next]_vars => ResetSees'
<1> SUFFICES ASSUME TypeInv, ResetsAlone, ResetSees, [Next]_vars,
                    NEW q \in Reqs, Running(q, "reset")'
             PROVE  View(q).roles' = db'.roles
  BY DEF ResetSees
<1>1. ASSUME req'[q] = req[q], db'.roles = db.roles
      PROVE  View(q).roles' = db'.roles
  BY <1>1 DEF ResetSees, Running, View
<1>2. CASE UNCHANGED vars
  BY <1>1, <1>2 DEF vars
<1>3. ASSUME NEW u \in Users, Login(u) PROVE View(q).roles' = db'.roles
  BY <1>1, <1>3, KeptByClients DEF Login, AccountsKept
<1>4. ASSUME NEW t \in Tokens, Lapse(t) PROVE View(q).roles' = db'.roles
  BY <1>1, <1>4 DEF Lapse
<1>5. ASSUME NEW t \in Tokens, NEW s \in Students, IssueFromShell(t, s)
      PROVE  View(q).roles' = db'.roles
  BY <1>1, <1>5, KeptByClients DEF IssueFromShell, AccountsKept
<1>6. ASSUME NEW r \in Reqs, NEW u \in Users, Resolve(r, u)
      PROVE  View(q).roles' = db'.roles
  BY <1>1, <1>6 DEF Resolve, Running, Idle, TypeInv, TypeOK
<1>7. ASSUME NEW r \in Reqs, NEW k \in Kinds, NEW u \in Users,
             NEW n \in 0 .. MaxVersion, Snapshot(r, k, u, n)
      PROVE  View(q).roles' = db'.roles
  <2>1. db' = db
    BY <1>7 DEF Snapshot
  <2>2. CASE q = r
    BY <1>7, <2>1, <2>2 DEF Snapshot, View, TypeInv, TypeOK
  <2>3. CASE q # r
    BY <1>1, <1>7, <2>1, <2>3 DEF Snapshot, TypeInv, TypeOK
  <2> QED BY <2>2, <2>3
<1>8. ASSUME NEW r \in Reqs, Rollback(r) PROVE View(q).roles' = db'.roles
  BY <1>1, <1>8 DEF Rollback, Running, Idle, TypeInv, TypeOK
<1>9. ASSUME NEW r \in Reqs, Handles(r) PROVE FALSE
  <2>1. req' = [req EXCEPT ![r] = Idle]
    BY <1>9, HandlersCommit DEF Commit
  <2>2. q # r /\ Running(q, "reset")
    BY <2>1 DEF Running, Idle, TypeInv, TypeOK
  <2> QED BY <1>9, <2>2, HandlersCommit DEF ResetsAlone
<1> QED BY <1>2, <1>3, <1>4, <1>5, <1>6, <1>7, <1>8, <1>9 DEF Next, Handles

(* A redemption gives the role, for it has read an account with neither     *)
(* binding nor role; a reset has read the role that is there; an assignment *)
(* touches neither.                                                         *)
LEMMA RolesFollowStep ==
  TypeInv /\ ReadBindings /\ ResetSees /\ StudentRoleIffBound /\ [Next]_vars
    => StudentRoleIffBound'
<1> DEFINE Follows(u) == "STUDENT" \in db.roles[u] <=> db.student[u] # None
<1>1. ASSUME TypeInv, ReadBindings, ResetSees, StudentRoleIffBound, [Next]_vars,
             NEW u \in Users
      PROVE  Follows(u)'
  <2> USE <1>1
  <2>1. Follows(u)
    BY DEF StudentRoleIffBound
  <2>2. ASSUME AccountsKept PROVE Follows(u)'
    BY <2>1, <2>2 DEF AccountsKept
  <2>3. ASSUME NEW r \in Reqs, NEW t \in Tokens, NEW s \in Students,
               BindStudent(r, t, s)
        PROVE  Follows(u)'
    <3>1. "STUDENT" \in Inserted(r, req[r].actor, {"STUDENT"})
      BY <2>3, BindStep
      DEF ReadBindings, Bindings, BindStudent, Presents, Unbound, Inserted
    <3>2. VolunteerGrant(r, req[r].actor, s) \subseteq {"VOLUNTEER"}
      BY VolunteerGrantSize
    <3>3. /\ req[r].actor \in Users
          /\ db'.roles = [db.roles EXCEPT ![req[r].actor] =
               @ \cup (Inserted(r, req[r].actor, {"STUDENT"})
                       \cup VolunteerGrant(r, req[r].actor, s))]
          /\ db'.student = [db.student EXCEPT ![req[r].actor] = s]
      BY <2>3, BindStep
    <3>4. CASE u = req[r].actor
      <4>1. "STUDENT" \in db'.roles[u]
        BY <3>1, <3>3, <3>4, AccountRows
      <4>2. db'.student[u] = s
        BY <3>3, <3>4, AccountRows
      <4> QED BY <4>1, <4>2, NoneAssumption
    <3>5. CASE u # req[r].actor
      BY <2>1, <3>3, <3>5, AccountRows
    <3> QED BY <3>4, <3>5
  <2>4. ASSUME NEW r \in Reqs, NEW s \in Students \cup {None},
               StudentBindingReset(r, s)
        PROVE  Follows(u)'
    <3>1. View(r).roles = db.roles
      BY <2>4 DEF ResetSees, StudentBindingReset
    <3>2. /\ req[r].target \in Users
          /\ db'.roles = [db.roles EXCEPT ![req[r].target] =
                            ResetRoles(r, req[r].target, s)]
          /\ db'.student = [db.student EXCEPT ![req[r].target] = s]
      BY <2>4, ResetStep
    <3>3. "STUDENT" \in ResetRoles(r, req[r].target, s) <=> s # None
      BY <3>1 DEF ResetRoles, Inserted
    <3> QED BY <2>1, <3>2, <3>3, AccountRows
  <2>5. ASSUME NEW r \in Reqs, NEW desired \in DesiredRoles,
               AssignRoles(r, desired)
        PROVE  Follows(u)'
    <3>1. db'.roles[u] \cap BusinessRoles = db.roles[u] \cap BusinessRoles
      BY <2>5, AssignKeepsBusiness
    <3>2. db'.student = db.student
      BY <2>5, AssignStep
    <3> QED BY <2>1, <3>1, <3>2 DEF BusinessRoles
  <2>6. ASSUME NEW r \in Reqs, NEW c \in GrantCodes, NEW on \in BOOLEAN,
               SetOptionalPermission(r, c, on)
        PROVE  Follows(u)'
    <3>1. db'.roles = db.roles /\ db'.student = db.student
      BY <2>6, OptionalStep
    <3> QED BY <2>1, <3>1
  <2>7. ASSUME NEW r \in Reqs, NEW on \in SUBSET Students,
               NEW off \in SUBSET Students, Qualify(r, on, off)
        PROVE  Follows(u)'
    <3>1. /\ db'.roles[u] = db.roles[u] \cup QualifiedGrant(r, on, u)
          /\ db'.student = db.student
      BY <2>7, QualifyStep
    <3> QED BY <2>1, <3>1 DEF QualifiedGrant
  <2>8. CASE UNCHANGED vars
    BY <2>2, <2>8 DEF vars, AccountsKept
  <2>9. CASE Next
    BY <2>9, <2>2, <2>3, <2>4, <2>5, <2>6, <2>7, KeptByClients, KeptByRequests
    DEF Next
  <2> QED BY <2>8, <2>9
<1> QED BY <1>1 DEF StudentRoleIffBound

LEMMA RolesFollow ==
  Spec /\ []ResetsAlone =>
    [](TypeInv /\ ReadBindings /\ ResetSees /\ StudentRoleIffBound)
<1>1. Init => ReadBindings /\ ResetSees /\ StudentRoleIffBound
  <2>1. Init => ReadBindings
    BY FirstBindings DEF Init, ReadBindings, View, Idle
  <2>2. Init => ResetSees
    BY DEF Init, ResetSees, Running, Idle
  <2>3. Init => StudentRoleIffBound
    BY FirstBindings DEF Init, StudentRoleIffBound, Bindings
  <2> QED BY <2>1, <2>2, <2>3
<1> QED
  BY <1>1, TypeStart, TypeStep, ReadBindingsStep, ResetSeesStep,
     RolesFollowStep, PTL
  DEF Spec

(* The role STUDENT is held exactly by the bound accounts, however the       *)
(* redemptions, assignments and qualifications overlap: a binding, a reset   *)
(* and an assignment each move both or neither (service.py:778-784).         *)
THEOREM StudentRoleFollows == Spec /\ []ResetsAlone => []StudentRoleIffBound
BY RolesFollow, PTL

(* An account never binds itself while it is bound, however many codes it    *)
(* redeems at once: whoever has read it as unbound has read it without       *)
(* STUDENT and inserts the role, which the key of user_role refuses to an    *)
(* account that has been bound meanwhile (repository.py:114-124).            *)
THEOREM BindsOnce == Spec /\ []ResetsAlone => SelfServiceBindsOnce
<1> DEFINE Once ==
      \A u \in Users, t \in Tokens :
        redemptions'[t] > redemptions[t] /\ db'.student[u] # db.student[u]
          => db.student[u] = None
<1>1. ASSUME TypeInv, ReadBindings, StudentRoleIffBound, [Next]_vars,
             NEW u \in Users, NEW t \in Tokens,
             redemptions'[t] > redemptions[t], db'.student[u] # db.student[u]
      PROVE  db.student[u] = None
  <2> USE <1>1
  <2>1. PICK r \in Reqs, s \in Students : BindStudent(r, t, s)
    BY RedeemedBy
  <2>2. u = req[r].actor
    BY <2>1, BindsActor
  <2>3. View(r).student[u] = None
    BY <2>1, <2>2 DEF BindStudent, Presents, Unbound
  <2>4. "STUDENT" \in Inserted(r, u, {"STUDENT"})
    BY <2>3 DEF ReadBindings, Bindings, Inserted
  <2>5. "STUDENT" \notin db.roles[u]
    BY <2>1, <2>2, <2>4 DEF BindStudent, NewRows
  <2> QED BY <2>5 DEF StudentRoleIffBound
<1>2. TypeInv /\ ReadBindings /\ StudentRoleIffBound /\ [Next]_vars
        => [Once]_vars
  BY <1>1
<1> QED BY <1>2, RolesFollow, PTL DEF Spec, SelfServiceBindsOnce
=============================================================================
