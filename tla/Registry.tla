------------------------------ MODULE Registry ------------------------------
(***************************************************************************)
(* The seed, modules/identity/seed.py: it brings the rows of the policy's  *)
(* roles and permissions and the links of these roles to its matrix, and   *)
(* creates the first administrator and, when asked to, a class and a       *)
(* student to try the system with.  The other modules read the matrix for  *)
(* the links (EffectivePermissions of Policy): here is why they may.       *)
(*                                                                         *)
(* A row is known by what its unique index holds, so the rows of all the   *)
(* tables are one set.  A seed is one transaction: Begin is its snapshot,  *)
(* from which it works out every INSERT and DELETE, and these and the      *)
(* commit are one step, as nobody passes the rows it has locked.  Seeds    *)
(* run beside each other and beside the handlers, which create a role or a *)
(* permission they miss, without links.                                    *)
(***************************************************************************)
EXTENDS FiniteSets

CONSTANTS
  RoleCodes,     \* the codes of RoleCode
  Codes,         \* the codes of PermissionCode
  OldRoles,      \* roles of an earlier release, still in the table
  OldCodes,      \* permissions of an earlier release
  Matrix,        \* DEFAULT_ROLE_PERMISSIONS, a set of <<role, permission>>
  SuperAdmin,    \* the role of the first administrator
  Admin,         \* the row with its user name
  Demo,          \* the rows of the demonstration class and student
  Seeds,         \* runs of the seed, each with a password of its own
  Calls,         \* requests of handlers that may be in progress at once
  None

RegistryRows == RoleCodes \cup Codes
TableRows == RegistryRows \cup OldRoles \cup OldCodes
Rows == TableRows \cup {Admin} \cup Demo
Links == (RoleCodes \cup OldRoles) \X (Codes \cup OldCodes)

Account == [ password : Seeds, roles : SUBSET RoleCodes ]

ASSUME MatrixAssumption == Matrix \subseteq RoleCodes \X Codes /\ SuperAdmin \in RoleCodes
ASSUME NamesAssumption ==
  /\ Admin \notin TableRows \cup Demo
  /\ None \notin Account

VARIABLES
  rows,      \* committed rows
  links,     \* committed rows of role_permission
  account,   \* the administrator: None, or its password (the seed that set it) and roles
  seed,      \* the runs of the seed
  call       \* the requests of handlers

vars == << rows, links, account, seed, call >>

NoReport == [ created |-> {}, added |-> {}, removed |-> {}, admin |-> FALSE ]

Ready == [ pc |-> "ready", wanted |-> {}, rows |-> {}, links |-> {}, report |-> NoReport ]

IdleCall == [ pc |-> "idle", asked |-> {}, rows |-> {}, sets |-> FALSE ]

Init ==
  /\ rows \in SUBSET TableRows
  /\ links \in SUBSET { l \in Links : {l[1], l[2]} \subseteq rows }
  /\ account = None
  /\ seed = [s \in Seeds |-> Ready]
  /\ call = [c \in Calls |-> IdleCall]
-----------------------------------------------------------------------------
(* The seed                                                                *)

\* What a run looks for: --skip-admin, --with-demo.
Wanted(admin, demo) ==
  RegistryRows \cup (IF admin THEN {Admin} ELSE {}) \cup (IF demo THEN Demo ELSE {})

Begin(s) ==
  \E admin, demo \in BOOLEAN :
    /\ seed[s].pc = "ready"
    /\ seed' = [seed EXCEPT ![s] =
         [ pc |-> "running", wanted |-> Wanted(admin, demo), rows |-> rows,
           links |-> links, report |-> NoReport ]]
    /\ UNCHANGED << rows, links, account, call >>

\* _upsert_roles, _upsert_permissions, ensure_admin_account, _ensure_demo_student.
Inserts(s) == seed[s].wanted \ seed[s].rows

(* mutant: what the policy no longer gives stays *)
Removes_Kept(s) == {}

\* The links sync_registry looks at: those of the policy's roles.
Policed(L) == {l \in L : l[1] \in RoleCodes}

\* sync_registry: to_remove and to_add of all the policy's roles.
Removes(s) == Policed(seed[s].links) \ Matrix
Adds(s) == Matrix \ seed[s].links

(* mutant: the user name is not unique *)
NoDuplicate_Names(s) == (Inserts(s) \ {Admin}) \cap rows = {} /\ Adds(s) \cap links = {}

\* The unique indexes and the primary key of role_permission.
NoDuplicate(s) == Inserts(s) \cap rows = {} /\ Adds(s) \cap links = {}

(* mutant: the rows are not counted *)
RowsCounted_Never(s) == TRUE

\* A DELETE of a link that somebody has deleted is an error of the ORM, which
\* compares the number of rows with what it asked for.
RowsCounted(s) == Removes(s) \subseteq links

\* What the run logs and tests read.
Report(s) ==
  [ created |-> Inserts(s) \cap RegistryRows, added |-> Adds(s),
    removed |-> Removes(s), admin |-> Admin \in Inserts(s) ]

CommitSeed(s) ==
  /\ seed[s].pc = "running"
  /\ NoDuplicate(s)
  /\ RowsCounted(s)
  /\ rows' = rows \cup Inserts(s)
  /\ links' = (links \ Removes(s)) \cup Adds(s)
  /\ account' = IF Admin \in Inserts(s)
                THEN [ password |-> s, roles |-> {SuperAdmin} ] ELSE account
  /\ seed' = [seed EXCEPT ![s] = [ Ready EXCEPT !.pc = "done", !.report = Report(s) ]]
  /\ UNCHANGED call

\* An error, one of the two above or any other: session_scope rolls back.
FailSeed(s) ==
  /\ seed[s].pc = "running"
  /\ seed' = [seed EXCEPT ![s] = [ Ready EXCEPT !.pc = "failed" ]]
  /\ UNCHANGED << rows, links, account, call >>
-----------------------------------------------------------------------------
(* The handlers                                                            *)

\* A handler begins that will get or create some roles or a permission;
\* assign_roles will also give the roles to the administrator.
BeginCall(c) ==
  \E asked \in (SUBSET RoleCodes) \cup { {p} : p \in Codes }, sets \in BOOLEAN :
    /\ call[c].pc = "idle"
    /\ sets => asked \subseteq RoleCodes
    /\ call' = [call EXCEPT ![c] =
         [ pc |-> "running", asked |-> asked, rows |-> rows, sets |-> sets ]]
    /\ UNCHANGED << rows, links, account, seed >>

\* get_or_create_role, get_or_create_permission.
Creates(c) == call[c].asked \ call[c].rows

CommitCall(c) ==
  /\ call[c].pc = "running"
  /\ Creates(c) \cap rows = {}
  /\ rows' = rows \cup Creates(c)
  /\ account' = IF call[c].sets /\ Admin \in call[c].rows
                THEN [account EXCEPT !.roles = call[c].asked] ELSE account
  /\ call' = [call EXCEPT ![c] = IdleCall]
  /\ UNCHANGED << links, seed >>

FailCall(c) ==
  /\ call[c].pc = "running"
  /\ call' = [call EXCEPT ![c] = IdleCall]
  /\ UNCHANGED << rows, links, account, seed >>

Next ==
  \/ \E s \in Seeds : Begin(s) \/ CommitSeed(s) \/ FailSeed(s)
  \/ \E c \in Calls : BeginCall(c) \/ CommitCall(c) \/ FailCall(c)

Spec == Init /\ [][Next]_vars
-----------------------------------------------------------------------------
Done(s) == seed[s].pc = "done"

\* Once a run of the seed has succeeded, every role and permission has its row
\* and the roles of the policy have the links of its matrix and no others, for
\* good: neither a second seed that began before the first committed, nor a
\* handler that creates a role at the same time, nor what an earlier release
\* gave these roles gets in between (sync_registry).
PolicyInForce ==
  (\E s \in Seeds : Done(s)) => RegistryRows \subseteq rows /\ Policed(links) = Matrix

\* A run that succeeds has done what it reports, no more and no less, although
\* it has worked out the report from what it saw when it began (RegistrySyncReport).
ReportTrue ==
  [][\A s \in Seeds :
       ~Done(s) /\ Done(s)' =>
         /\ seed'[s].report.created = (rows' \ rows) \cap RegistryRows
         /\ seed'[s].report.added = links' \ links
         /\ seed'[s].report.removed = links \ links']_vars

\* The administrator has the password of the run that says it created the
\* account: a later run, or one beside it, never resets it and never says it
\* has created one (ensure_admin_account).
PasswordKept ==
  \A s \in Seeds : Done(s) /\ seed[s].report.admin => account # None /\ account.password = s
=============================================================================
