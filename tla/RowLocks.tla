------------------------------ MODULE RowLocks ------------------------------
(***************************************************************************)
(* The order in which the handlers of the identity, academic and importer  *)
(* services lock rows, the connection pool they share and InnoDB's         *)
(* deadlock victim.  The data behind the rows is that of the other         *)
(* modules; here a handler is the sequence of row locks it takes:          *)
(*   - X for SELECT ... FOR UPDATE, UPDATE and DELETE of a row that other  *)
(*     handlers touch too;                                                 *)
(*   - S for the parent row of a foreign key when a child row is inserted. *)
(* Every lock is kept until the transaction commits or rolls back.         *)
(***************************************************************************)
EXTENDS Naturals, Sequences, FiniteSets

CONSTANTS
  Reqs,       \* HTTP requests in service at a time
  Accounts,   \* ids of user accounts, numbers: they are locked in their order
  Ids,        \* ids of the other rows
  Calls,      \* the calls made: a handler, its caller and the rows it is about
  PoolSize    \* DB_POOL_SIZE + DB_MAX_OVERFLOW

\* Handlers that lock their caller and a semester.
SemesterHandlers ==
  { "update_semester", "upsert_period_definition", "delete_period_definition",
    "create_calendar_override", "delete_calendar_override", "create_teaching_class" }

\* Handlers that lock a teaching class, then its semester.
ClassHandlers == { "update_teaching_class", "create_schedule" }

\* Handlers that lock a schedule, then its semester.
ScheduleHandlers == { "update_schedule", "delete_schedule" }

\* Handlers that lock two accounts in the order of their ids.
AccountHandlers == { "assign_roles", "set_optional_permission" }

Handlers ==
  SemesterHandlers \cup ClassHandlers \cup ScheduleHandlers \cup AccountHandlers \cup
  { "update_student", "replace_roster", "upsert_volunteer_qualification",
    "preview_roster", "preview_for_semester",
    "confirm_roster", "confirm_volunteer", "confirm_timetable",
    "admin_reset_binding", "bind_student", "issue_binding_token", "revoke_binding_token",
    "login_web", "refresh", "logout" }

Call ==
  [ op : Handlers, actor : Accounts, target : Accounts,
    semester : Ids, item : Ids, student : Ids ]

ASSUME CallsAssumption == Calls \subseteq Call /\ Calls # {}

\* Account ids are natural numbers, and any group of accounts has a largest id.
ASSUME AccountsAssumption ==
  /\ Accounts \subseteq Nat
  /\ \A T \in SUBSET Accounts : T # {} => \E a \in T : \A b \in T : b <= a

ASSUME PoolAssumption == PoolSize \in Nat \ {0}

(***************************************************************************)
(* Rows and the handlers' locks                                            *)
(***************************************************************************)
AccountTables == { "account", "user_role", "session" }   \* one entry per account
OtherTables   == { "batch", "token", "class", "schedule", "semester", "student" }

Rows == [ table : AccountTables, id : Accounts ] \cup [ table : OtherTables, id : Ids ]

Locks == [ mode : {"X", "S"}, row : Rows ]

X(table, id) == [ mode |-> "X", row |-> [ table |-> table, id |-> id ] ]
S(table, id) == [ mode |-> "S", row |-> [ table |-> table, id |-> id ] ]

\* The sequences of locks a call may take from its first statement to its
\* commit, when none of its checks refuses it.

SemesterPlan(c) == << X("account", c.actor), X("semester", c.semester) >>

ClassPlan(c) == << X("account", c.actor), X("class", c.item), X("semester", c.semester) >>

SchedulePlan(c) == << X("account", c.actor), X("schedule", c.item), X("semester", c.semester) >>

StudentPlan(c) == << X("account", c.actor), X("student", c.student) >>

RosterPlan(c) ==
  << X("account", c.actor), X("class", c.item), X("semester", c.semester), S("student", c.student) >>

\* The student has no account, or one that is a volunteer already; or the
\* account is given the role: INSERT INTO user_role locks its parent, then
\* lock_version += 1 updates the account at a later flush.
VolunteerPlans(c) ==
  { << X("account", c.actor), X("semester", c.semester), S("student", c.student) >>,
    << X("account", c.actor), X("semester", c.semester), S("student", c.student),
       S("account", c.target), X("user_role", c.target), X("account", c.target) >> }

\* create_preview inserts the batch, a child of its class or of its semester.
PreviewPlan(c, parent) == << X("account", c.actor), parent >>

ConfirmRosterPlan(c) ==
  << X("batch", c.item), X("account", c.actor), X("class", c.item), X("semester", c.semester),
     S("student", c.student) >>

ConfirmVolunteerPlans(c) ==
  { << X("batch", c.item), X("account", c.actor), X("semester", c.semester), S("student", c.student) >>,
    << X("batch", c.item), X("account", c.actor), X("semester", c.semester), S("student", c.student),
       S("account", c.target), X("user_role", c.target), X("account", c.target) >> }

\* The schedules of a class that exists are inserted below it.
ConfirmTimetablePlan(c) ==
  << X("batch", c.item), X("account", c.actor), X("semester", c.semester), S("class", c.item) >>

\* A mutant: the caller's account first, then the target's.
LockAccountsAsGiven(a, b) ==
  IF a = b THEN << X("account", a) >> ELSE << X("account", a), X("account", b) >>

\* _lock_accounts_ordered: both accounts, each once, in ascending order of id.
LockAccountsOrdered(a, b) ==
  IF a = b THEN << X("account", a) >>
  ELSE IF a < b THEN << X("account", a), X("account", b) >>
  ELSE << X("account", b), X("account", a) >>

\* admin_reset_binding goes on with the new student and the target's sessions.
ResetPlan(c) ==
  LockAccountsOrdered(c.actor, c.target) \o << S("student", c.student), X("session", c.target) >>

\* bind_student locks the code first.  The update of the account (with its
\* student as the parent) and the insert of its role are one flush: no
\* relationship ties their tables and SQLAlchemy sends them in either order.
BindPlans(c) ==
  { << X("token", c.item), X("account", c.actor), S("student", c.student),
       X("user_role", c.actor) >>,
    << X("token", c.item), S("account", c.actor), X("user_role", c.actor),
       X("account", c.actor), S("student", c.student) >> }

\* The code's student, then the caller as the parent of the audit row.
IssuePlan(c) == << S("student", c.student), S("account", c.actor) >>

\* The update of the code and the insert of the audit row, in either order too.
RevokePlans(c) ==
  { << X("token", c.item), S("account", c.actor) >>, << S("account", c.actor), X("token", c.item) >> }

\* The reset failure count and the new session, in either order.
LoginPlans(c) ==
  { << X("account", c.actor), S("account", c.actor) >>,
    << S("account", c.actor), X("account", c.actor) >> }

RefreshPlan(c) == << X("session", c.actor), S("account", c.actor) >>

LogoutPlan(c) == << X("session", c.actor) >>

Plans(c) ==
  CASE c.op \in SemesterHandlers -> { SemesterPlan(c) }
    [] c.op \in ClassHandlers -> { ClassPlan(c) }
    [] c.op \in ScheduleHandlers -> { SchedulePlan(c) }
    [] c.op \in AccountHandlers -> { LockAccountsOrdered(c.actor, c.target) }
    [] c.op = "update_student" -> { StudentPlan(c) }
    [] c.op = "replace_roster" -> { RosterPlan(c) }
    [] c.op = "upsert_volunteer_qualification" -> VolunteerPlans(c)
    [] c.op = "preview_roster" -> { PreviewPlan(c, S("class", c.item)) }
    [] c.op = "preview_for_semester" -> { PreviewPlan(c, S("semester", c.semester)) }
    [] c.op = "confirm_roster" -> { ConfirmRosterPlan(c) }
    [] c.op = "confirm_volunteer" -> ConfirmVolunteerPlans(c)
    [] c.op = "confirm_timetable" -> { ConfirmTimetablePlan(c) }
    [] c.op = "admin_reset_binding" -> { ResetPlan(c) }
    [] c.op = "bind_student" -> BindPlans(c)
    [] c.op = "issue_binding_token" -> { IssuePlan(c) }
    [] c.op = "revoke_binding_token" -> RevokePlans(c)
    [] c.op = "login_web" -> LoginPlans(c)
    [] c.op = "refresh" -> { RefreshPlan(c) }
    [] c.op = "logout" -> { LogoutPlan(c) }

(***************************************************************************)
(* Requests, the pool and the lock table                                   *)
(***************************************************************************)
VARIABLES
  phase,     \* idle, queued for a connection, running a statement, or waiting for a lock
  op,        \* the handler a request runs
  plan,      \* the locks it has yet to take
  granted,   \* the locks of the table: [by, mode, row]
  ahead      \* the waiting requests a waiting one stands behind

vars == << phase, op, plan, granted, ahead >>

NoOp == "none"

TypeOK ==
  /\ phase \in [Reqs -> {"idle", "queued", "running", "waiting"}]
  /\ op \in [Reqs -> Handlers \cup {NoOp}]
  /\ plan \in [Reqs -> Seq(Locks)]
  /\ granted \subseteq [by : Reqs, mode : {"X", "S"}, row : Rows]
  /\ ahead \in [Reqs -> SUBSET Reqs]

Init ==
  /\ phase = [r \in Reqs |-> "idle"]
  /\ op = [r \in Reqs |-> NoOp]
  /\ plan = [r \in Reqs |-> << >>]
  /\ granted = {}
  /\ ahead = [r \in Reqs |-> {}]

InTransaction(r) == phase[r] \in {"running", "waiting"}

\* Two locks of different transactions that cannot be granted together.
Conflict(l, k) == l.row = k.row /\ (l.mode = "X" \/ k.mode = "X")

\* Requests whose granted lock stands in the way of the next lock of r.
Holders(r) ==
  { q \in Reqs \ {r} : \E g \in granted : g.by = q /\ Conflict(Head(plan[r]), g) }

\* Waiting requests whose earlier claim stands in the way of the next lock of r.
Claimants(r) ==
  { q \in Reqs \ {r} : phase[q] = "waiting" /\ Conflict(Head(plan[r]), Head(plan[q])) }

\* The transactions a waiting request waits for.
WaitsFor(r) == Holders(r) \cup ahead[r]

\* A group of waiting requests each of which waits for another of the group:
\* none of them can ever be granted its lock.
Deadlocked(C) ==
  C # {} /\ \A r \in C : phase[r] = "waiting" /\ WaitsFor(r) \cap C # {}

\* A request that waits, directly or not, for itself.
InCycle(r) ==
  \E C \in SUBSET { q \in Reqs : phase[q] = "waiting" } :
    r \in C /\ Deadlocked(C) /\ \A D \in SUBSET C : Deadlocked(D) => D = C

\* r leaves the lock table: its locks and its place in every queue.
Released(r) == { g \in granted : g.by # r }
Without(r) == [q \in Reqs |-> IF q = r THEN {} ELSE ahead[q] \ {r}]

\* A mutant: the failed handler's transaction is left open on its connection.
CloseKeepsLocks(r) ==
  /\ phase' = [phase EXCEPT ![r] = "idle"]
  /\ op' = [op EXCEPT ![r] = NoOp]
  /\ plan' = [plan EXCEPT ![r] = << >>]
  /\ ahead' = Without(r)
  /\ UNCHANGED granted

\* The handler is done or failed: get_db closes the session, which rolls back
\* what was not committed and gives the connection back to the pool.
Close(r) ==
  /\ phase' = [phase EXCEPT ![r] = "idle"]
  /\ op' = [op EXCEPT ![r] = NoOp]
  /\ plan' = [plan EXCEPT ![r] = << >>]
  /\ granted' = Released(r)
  /\ ahead' = Without(r)

(***************************************************************************)
(* Steps                                                                   *)
(***************************************************************************)
\* A user sends a request; its session takes a connection at its first statement.
Arrive(r) ==
  /\ phase[r] = "idle"
  /\ phase' = [phase EXCEPT ![r] = "queued"]
  /\ UNCHANGED << op, plan, granted, ahead >>

\* The pool has a connection left: the handler's transaction begins.
Connect(r) ==
  /\ phase[r] = "queued"
  /\ Cardinality({q \in Reqs : InTransaction(q)}) < PoolSize
  /\ \E c \in Calls : \E p \in Plans(c) :
       /\ op' = [op EXCEPT ![r] = c.op]
       /\ plan' = [plan EXCEPT ![r] = p]
  /\ phase' = [phase EXCEPT ![r] = "running"]
  /\ UNCHANGED << granted, ahead >>

\* The pool stays exhausted for DB_POOL_TIMEOUT seconds: the request fails.
PoolTimeout(r) ==
  /\ phase[r] = "queued"
  /\ Cardinality({q \in Reqs : InTransaction(q)}) >= PoolSize
  /\ Close(r)

\* The next statement's row is free: its lock is granted at once.
LockFree(r) ==
  /\ phase[r] = "running"
  /\ plan[r] # << >>
  /\ Holders(r) = {}
  /\ Claimants(r) = {}
  /\ granted' = granted \cup { [by |-> r, mode |-> Head(plan[r]).mode, row |-> Head(plan[r]).row] }
  /\ plan' = [plan EXCEPT ![r] = Tail(@)]
  /\ UNCHANGED << phase, op, ahead >>

\* The row is held, or claimed by an earlier statement that waits: the
\* statement joins the row's queue.
LockWait(r) ==
  /\ phase[r] = "running"
  /\ plan[r] # << >>
  /\ Holders(r) \cup Claimants(r) # {}
  /\ phase' = [phase EXCEPT ![r] = "waiting"]
  /\ ahead' = [ahead EXCEPT ![r] = Claimants(r)]
  /\ UNCHANGED << op, plan, granted >>

\* Everything a waiting statement waited for is gone: it is granted its lock.
Grant(r) ==
  /\ phase[r] = "waiting"
  /\ WaitsFor(r) = {}
  /\ phase' = [phase EXCEPT ![r] = "running"]
  /\ granted' = granted \cup { [by |-> r, mode |-> Head(plan[r]).mode, row |-> Head(plan[r]).row] }
  /\ plan' = [plan EXCEPT ![r] = Tail(@)]
  /\ ahead' = Without(r)
  /\ UNCHANGED op

\* A check of the handler refuses the call between two statements.
Refuse(r) ==
  /\ phase[r] = "running"
  /\ plan[r] # << >>
  /\ Close(r)

\* The handler's last statement, its single commit, and the end of the request.
Commit(r) ==
  /\ phase[r] = "running"
  /\ plan[r] = << >>
  /\ Close(r)

\* InnoDB rolls back one transaction of a cycle; the handler catches nothing
\* and the request ends with an error.
Victim(r) ==
  /\ phase[r] = "waiting"
  /\ InCycle(r)
  /\ Close(r)

\* A running handler goes on to its next statement, a refusal or its end.
Proceed(r) == LockFree(r) \/ LockWait(r) \/ Refuse(r) \/ Commit(r)

Next ==
  \E r \in Reqs :
    Arrive(r) \/ Connect(r) \/ PoolTimeout(r) \/ Proceed(r) \/ Grant(r) \/ Victim(r)

\* A queued request gets a connection or times out, a handler's thread runs on,
\* a lock whose row is free is granted, and a deadlock is broken.  Users owe nothing.
Fairness ==
  \A r \in Reqs :
    /\ WF_vars(Connect(r) \/ PoolTimeout(r))
    /\ WF_vars(Proceed(r))
    /\ WF_vars(Grant(r))
    /\ WF_vars(Victim(r))

Spec == Init /\ [][Next]_vars

FairSpec == Spec /\ Fairness

(***************************************************************************)
(* Properties                                                              *)
(***************************************************************************)
\* The tables from parents to children, as most handlers go through them.
Level ==
  [ batch |-> 0, account |-> 1, user_role |-> 2, class |-> 3, schedule |-> 3,
    semester |-> 4, student |-> 5, session |-> 6, token |-> 7 ]

\* The order rows are locked in: by table, and accounts by id.
Below(x, y) ==
  \/ Level[x.table] < Level[y.table]
  \/ x.table = "account" /\ y.table = "account" /\ x.id < y.id

\* The handlers whose locks do not follow the order of Below: a timetable is
\* imported from the semester down to the class, a volunteer qualification
\* comes back to an account after the semester, a binding code is issued or
\* revoked, a session opened or refreshed, with the account last; and a
\* binding, an opened session and a qualification lock an account for reading
\* before they change it.
OutOfOrder ==
  { "confirm_timetable", "upsert_volunteer_qualification", "confirm_volunteer",
    "bind_student", "issue_binding_token", "revoke_binding_token", "login_web", "refresh" }

\* Locking parents and children "in a fixed order" and accounts "in ascending
\* order of id" keeps the handlers from waiting for each other in a circle
\* (academic/service.py:6-7, identity/service.py:310): any group of requests
\* that wait for each other runs one of the handlers that leave that order.
OrderedNeverDeadlock ==
  \A C \in SUBSET Reqs : Deadlocked(C) => \E r \in C : op[r] \in OutOfOrder

\* Whatever the calls and the deadlocks among them, every request ends: no
\* exit of a handler keeps a lock or a connection for which another waits.
EveryRequestEnds == \A r \in Reqs : phase[r] # "idle" ~> phase[r] = "idle"

=============================================================================
