--------------------------- MODULE RowLocksProofs ---------------------------
(***************************************************************************)
(* Any number of requests, accounts, rows and connections: requests of the *)
(* handlers that keep to the locking order never deadlock among themselves.*)
(***************************************************************************)
EXTENDS RowLocks, TLAPS

Ordered == (Handlers \cup {NoOp}) \ OutOfOrder

\* The locks of p climb.
Climbs(p) == \A i, j \in 1 .. Len(p) : i < j => Below(p[i].row, p[j].row)

\* Every lock r holds lies below every lock it has yet to take.
HeldBelow(r) ==
  \A g \in granted : g.by = r => \A i \in 1 .. Len(plan[r]) : Below(g.row, plan[r][i].row)

\* Waiting requests have a lock to wait for, only they stand behind others,
\* and those are waiting for the same row.
QueueOK ==
  \A r \in Reqs :
    /\ phase[r] = "waiting" => plan[r] # << >>
    /\ \A q \in ahead[r] :
         /\ phase[r] = "waiting" /\ phase[q] = "waiting"
         /\ Head(plan[q]).row = Head(plan[r]).row

\* No circle of requests stands one behind the other: each group has a first.
QueueFirst ==
  \A D \in SUBSET Reqs : D # {} => \E d \in D : ahead[d] \cap D = {}

\* Only transactions hold locks.
HoldersOpen == \A g \in granted : InTransaction(g.by)

\* What keeps the handlers apart that follow the order.
OrderOK ==
  \A r \in Reqs : op[r] \in Ordered => Climbs(plan[r]) /\ HeldBelow(r)

IInv == TypeOK /\ QueueOK /\ QueueFirst /\ HoldersOpen /\ OrderOK

-----------------------------------------------------------------------------
(* The rows of a call are rows: every sequence of locks it may take is one,  *)
(* and it climbs unless the handler is one of those that leave the order.    *)
LEMMA RowTypes ==
  ASSUME NEW c \in Calls
  PROVE  /\ c \in Call
         /\ \A a \in {c.actor, c.target}, t \in AccountTables : X(t, a) \in Locks /\ S(t, a) \in Locks
         /\ \A t \in OtherTables, i \in {c.semester, c.item, c.student} :
              X(t, i) \in Locks /\ S(t, i) \in Locks
<1>1. c \in Call
  BY CallsAssumption
<1>2. /\ {c.actor, c.target} \subseteq Accounts
      /\ {c.semester, c.item, c.student} \subseteq Ids
  BY <1>1 DEF Call
<1> QED BY <1>1, <1>2 DEF X, S, Locks, Rows

LEMMA TwoAccounts ==
  ASSUME NEW c \in Calls
  PROVE  LET p == LockAccountsOrdered(c.actor, c.target)
         IN  p \in Seq(Locks) /\ Climbs(p)
<1>1. c.actor \in Nat /\ c.target \in Nat
  BY RowTypes, AccountsAssumption DEF Call
<1>2. X("account", c.actor) \in Locks /\ X("account", c.target) \in Locks
  BY RowTypes DEF AccountTables
<1>3. CASE c.actor = c.target
  <2>1. LockAccountsOrdered(c.actor, c.target) = << X("account", c.actor) >>
    BY <1>3 DEF LockAccountsOrdered
  <2> QED BY <1>2, <2>1 DEF Climbs
<1>4. CASE c.actor < c.target
  <2>1. LockAccountsOrdered(c.actor, c.target) = << X("account", c.actor), X("account", c.target) >>
    BY <1>1, <1>4 DEF LockAccountsOrdered
  <2>2. Below(X("account", c.actor).row, X("account", c.target).row)
    BY <1>4 DEF Below, X
  <2> QED BY <1>2, <2>1, <2>2 DEF Climbs
<1>5. CASE c.target < c.actor
  <2>1. LockAccountsOrdered(c.actor, c.target) = << X("account", c.target), X("account", c.actor) >>
    BY <1>1, <1>5 DEF LockAccountsOrdered
  <2>2. Below(X("account", c.target).row, X("account", c.actor).row)
    BY <1>5 DEF Below, X
  <2> QED BY <1>2, <2>1, <2>2 DEF Climbs
<1> QED BY <1>1, <1>3, <1>4, <1>5

(* Reset: the accounts lie below the student and the sessions. *)
LEMMA ResetClimbs ==
  ASSUME NEW c \in Calls
  PROVE  ResetPlan(c) \in Seq(Locks) /\ Climbs(ResetPlan(c))
<1> DEFINE p == LockAccountsOrdered(c.actor, c.target)
           t == << S("student", c.student), X("session", c.target) >>
<1>1. p \in Seq(Locks) /\ Climbs(p)
  BY TwoAccounts
<1>2. t \in Seq(Locks) /\ Climbs(t)
  <2>1. S("student", c.student) \in Locks /\ X("session", c.target) \in Locks
    BY RowTypes DEF AccountTables, OtherTables
  <2>2. Below(S("student", c.student).row, X("session", c.target).row)
    BY DEF Below, S, X, Level
  <2> QED BY <2>1, <2>2 DEF Climbs
<1>3. \A i \in 1 .. Len(p) : p[i].row.table = "account"
  BY DEF LockAccountsOrdered, X
<1>4. \A j \in 1 .. Len(t) : t[j].row.table \in {"student", "session"}
  BY DEF S, X
<1>5. \A i \in 1 .. Len(p), j \in 1 .. Len(t) : Below(p[i].row, t[j].row)
  BY <1>3, <1>4 DEF Below, Level
<1>6. ResetPlan(c) = p \o t
  BY DEF ResetPlan
<1> HIDE DEF p, t
<1>7. Climbs(p \o t)
  <2> SUFFICES ASSUME NEW i \in 1 .. Len(p \o t), NEW j \in 1 .. Len(p \o t), i < j
               PROVE  Below((p \o t)[i].row, (p \o t)[j].row)
    BY DEF Climbs
  <2>1. Len(p) \in Nat /\ Len(t) \in Nat /\ Len(p \o t) = Len(p) + Len(t)
    BY <1>1, <1>2
  <2>2. CASE j <= Len(p)
    <3>1. i \in 1 .. Len(p) /\ j \in 1 .. Len(p) /\ (p \o t)[i] = p[i] /\ (p \o t)[j] = p[j]
      BY <1>1, <1>2, <2>1, <2>2
    <3> QED BY <1>1, <3>1 DEF Climbs
  <2>3. CASE i <= Len(p) /\ j > Len(p)
    <3>1. i \in 1 .. Len(p) /\ j - Len(p) \in 1 .. Len(t)
          /\ (p \o t)[i] = p[i] /\ (p \o t)[j] = t[j - Len(p)]
      BY <1>1, <1>2, <2>1, <2>3
    <3> QED BY <1>5, <3>1
  <2>4. CASE i > Len(p)
    <3>1. i - Len(p) \in 1 .. Len(t) /\ j - Len(p) \in 1 .. Len(t) /\ i - Len(p) < j - Len(p)
          /\ (p \o t)[i] = t[i - Len(p)] /\ (p \o t)[j] = t[j - Len(p)]
      BY <1>1, <1>2, <2>1, <2>4
    <3> QED BY <1>2, <3>1 DEF Climbs
  <2> QED BY <2>1, <2>2, <2>3, <2>4
<1> QED BY <1>1, <1>2, <1>6, <1>7

(* Every sequence of locks of a call is one, whatever its handler. *)
LEMMA PlansAreLocks ==
  ASSUME NEW c \in Calls, NEW p \in Plans(c)
  PROVE  p \in Seq(Locks) /\ (c.op \in Ordered => Climbs(p))
<1> USE DEF SemesterHandlers, ClassHandlers, ScheduleHandlers, AccountHandlers
<1>0. /\ c \in Call
      /\ \A t \in AccountTables : X(t, c.actor) \in Locks /\ S(t, c.actor) \in Locks
      /\ \A t \in AccountTables : X(t, c.target) \in Locks /\ S(t, c.target) \in Locks
      /\ \A t \in OtherTables : X(t, c.semester) \in Locks /\ S(t, c.semester) \in Locks
      /\ \A t \in OtherTables : X(t, c.item) \in Locks /\ S(t, c.item) \in Locks
      /\ \A t \in OtherTables : X(t, c.student) \in Locks /\ S(t, c.student) \in Locks
  BY RowTypes
<1>1. CASE c.op \in SemesterHandlers
  <2>1. p = SemesterPlan(c)
    BY <1>1 DEF Plans
  <2> QED BY <1>0, <2>1 DEF SemesterPlan, AccountTables, OtherTables, Climbs, Below, Level, X, S
<1>2. CASE c.op \in ClassHandlers
  <2>1. p = ClassPlan(c)
    BY <1>2 DEF Plans
  <2> QED BY <1>0, <2>1 DEF ClassPlan, AccountTables, OtherTables, Climbs, Below, Level, X, S
<1>3. CASE c.op \in ScheduleHandlers
  <2>1. p = SchedulePlan(c)
    BY <1>3 DEF Plans
  <2> QED BY <1>0, <2>1 DEF SchedulePlan, AccountTables, OtherTables, Climbs, Below, Level, X, S
<1>4. CASE c.op \in AccountHandlers
  <2>1. p = LockAccountsOrdered(c.actor, c.target)
    BY <1>4 DEF Plans
  <2> QED BY <2>1, TwoAccounts
<1>5. CASE c.op = "update_student"
  <2>1. p = StudentPlan(c)
    BY <1>5 DEF Plans
  <2> QED BY <1>0, <2>1 DEF StudentPlan, AccountTables, OtherTables, Climbs, Below, Level, X, S
<1>6. CASE c.op = "replace_roster"
  <2>1. p = RosterPlan(c)
    BY <1>6 DEF Plans
  <2>2. p \in Seq(Locks)
    BY <1>0, <2>1 DEF RosterPlan, AccountTables, OtherTables
  <2>3. /\ Len(p) = 4
        /\ p[1].row.table = "account" /\ p[2].row.table = "class"
        /\ p[3].row.table = "semester" /\ p[4].row.table = "student"
    BY <2>1 DEF RosterPlan, X, S
  <2>4. /\ Level[p[1].row.table] = 1 /\ Level[p[2].row.table] = 3
        /\ Level[p[3].row.table] = 4 /\ Level[p[4].row.table] = 5
    BY <2>3 DEF Level
  <2> QED BY <2>2, <2>3, <2>4 DEF Climbs, Below
<1>7. CASE c.op \in {"preview_roster", "preview_for_semester"}
  <2>1. p = PreviewPlan(c, S("class", c.item)) \/ p = PreviewPlan(c, S("semester", c.semester))
    BY <1>7 DEF Plans
  <2>2. CASE p = PreviewPlan(c, S("class", c.item))
    BY <1>0, <2>2 DEF PreviewPlan, AccountTables, OtherTables, Climbs, Below, Level, X, S
  <2>3. CASE p = PreviewPlan(c, S("semester", c.semester))
    BY <1>0, <2>3 DEF PreviewPlan, AccountTables, OtherTables, Climbs, Below, Level, X, S
  <2> QED BY <2>1, <2>2, <2>3
<1>8. CASE c.op = "confirm_roster"
  <2>1. p = ConfirmRosterPlan(c)
    BY <1>8 DEF Plans
  <2>2. p \in Seq(Locks)
    BY <1>0, <2>1 DEF ConfirmRosterPlan, AccountTables, OtherTables
  <2>3. /\ Len(p) = 5
        /\ p[1].row.table = "batch" /\ p[2].row.table = "account" /\ p[3].row.table = "class"
        /\ p[4].row.table = "semester" /\ p[5].row.table = "student"
    BY <2>1 DEF ConfirmRosterPlan, X, S
  <2>4. /\ Level[p[1].row.table] = 0 /\ Level[p[2].row.table] = 1 /\ Level[p[3].row.table] = 3
        /\ Level[p[4].row.table] = 4 /\ Level[p[5].row.table] = 5
    BY <2>3 DEF Level
  <2> QED BY <2>2, <2>3, <2>4 DEF Climbs, Below
<1>9. CASE c.op = "admin_reset_binding"
  <2>1. p = ResetPlan(c)
    BY <1>9 DEF Plans
  <2> QED BY <2>1, ResetClimbs
<1>10. CASE c.op = "logout"
  <2>1. p = LogoutPlan(c)
    BY <1>10 DEF Plans
  <2> QED BY <1>0, <2>1 DEF LogoutPlan, AccountTables, Climbs
<1>11. CASE c.op \in OutOfOrder
  <2>0. c.op \notin Ordered
    BY <1>11 DEF Ordered
  <2>1. CASE c.op = "upsert_volunteer_qualification"
    <3>1. p \in VolunteerPlans(c)
      BY <2>1 DEF Plans
    <3>2. << X("account", c.actor), X("semester", c.semester), S("student", c.student) >> \in Seq(Locks)
      BY <1>0 DEF AccountTables, OtherTables
    <3>3. << X("account", c.actor), X("semester", c.semester), S("student", c.student),
           S("account", c.target), X("user_role", c.target), X("account", c.target) >> \in Seq(Locks)
      BY <1>0 DEF AccountTables, OtherTables
    <3> QED BY <2>0, <3>1, <3>2, <3>3 DEF VolunteerPlans
  <2>2. CASE c.op = "confirm_volunteer"
    <3>1. p \in ConfirmVolunteerPlans(c)
      BY <2>2 DEF Plans
    <3>2. << X("batch", c.item), X("account", c.actor), X("semester", c.semester),
           S("student", c.student) >> \in Seq(Locks)
      BY <1>0 DEF AccountTables, OtherTables
    <3>3. << X("batch", c.item), X("account", c.actor), X("semester", c.semester),
           S("student", c.student), S("account", c.target), X("user_role", c.target), X("account", c.target) >> \in Seq(Locks)
      BY <1>0 DEF AccountTables, OtherTables
    <3> QED BY <2>0, <3>1, <3>2, <3>3 DEF ConfirmVolunteerPlans
  <2>3. CASE c.op = "confirm_timetable"
    <3>1. p = ConfirmTimetablePlan(c)
      BY <2>3 DEF Plans
    <3> QED BY <1>0, <2>0, <3>1 DEF ConfirmTimetablePlan, AccountTables, OtherTables
  <2>4. CASE c.op = "bind_student"
    <3>1. p \in BindPlans(c)
      BY <2>4 DEF Plans
    <3>2. << X("token", c.item), X("account", c.actor), S("student", c.student),
           X("user_role", c.actor) >> \in Seq(Locks)
      BY <1>0 DEF AccountTables, OtherTables
    <3>3. << X("token", c.item), S("account", c.actor), X("user_role", c.actor),
           X("account", c.actor), S("student", c.student) >> \in Seq(Locks)
      BY <1>0 DEF AccountTables, OtherTables
    <3> QED BY <2>0, <3>1, <3>2, <3>3 DEF BindPlans
  <2>5. CASE c.op = "issue_binding_token"
    <3>1. p = IssuePlan(c)
      BY <2>5 DEF Plans
    <3> QED BY <1>0, <2>0, <3>1 DEF IssuePlan, AccountTables, OtherTables
  <2>6. CASE c.op = "revoke_binding_token"
    <3>1. p \in RevokePlans(c)
      BY <2>6 DEF Plans
    <3>2. << X("token", c.item), S("account", c.actor) >> \in Seq(Locks)
      BY <1>0 DEF AccountTables, OtherTables
    <3>3. << S("account", c.actor), X("token", c.item) >> \in Seq(Locks)
      BY <1>0 DEF AccountTables, OtherTables
    <3> QED BY <2>0, <3>1, <3>2, <3>3 DEF RevokePlans
  <2>7. CASE c.op = "login_web"
    <3>1. p \in LoginPlans(c)
      BY <2>7 DEF Plans
    <3>2. << X("account", c.actor), S("account", c.actor) >> \in Seq(Locks)
      BY <1>0 DEF AccountTables, OtherTables
    <3>3. << S("account", c.actor), X("account", c.actor) >> \in Seq(Locks)
      BY <1>0 DEF AccountTables, OtherTables
    <3> QED BY <2>0, <3>1, <3>2, <3>3 DEF LoginPlans
  <2>8. CASE c.op = "refresh"
    <3>1. p = RefreshPlan(c)
      BY <2>8 DEF Plans
    <3> QED BY <1>0, <2>0, <3>1 DEF RefreshPlan, AccountTables
  <2> QED BY <1>11, <2>1, <2>2, <2>3, <2>4, <2>5, <2>6, <2>7, <2>8 DEF OutOfOrder
<1> QED
  BY <1>0, <1>1, <1>2, <1>3, <1>4, <1>5, <1>6, <1>7, <1>8, <1>9, <1>10, <1>11
  DEF Call, Handlers, OutOfOrder

-----------------------------------------------------------------------------
(* What is left of a climbing sequence climbs, and lies above its head. *)
LEMMA TailClimbs ==
  ASSUME NEW p \in Seq(Locks), p # << >>, Climbs(p)
  PROVE  /\ Climbs(Tail(p))
         /\ \A i \in 1 .. Len(Tail(p)) : Below(Head(p).row, Tail(p)[i].row)
<1>1. /\ Len(p) \in Nat \ {0} /\ Len(Tail(p)) = Len(p) - 1 /\ Head(p) = p[1]
      /\ \A i \in 1 .. Len(Tail(p)) : Tail(p)[i] = p[i + 1]
  OBVIOUS
<1>2. \A i \in 1 .. Len(Tail(p)) : i + 1 \in 1 .. Len(p) /\ 1 \in 1 .. Len(p) /\ 1 < i + 1
  BY <1>1
<1>3. \A i, j \in 1 .. Len(Tail(p)) : i < j => Below(p[i + 1].row, p[j + 1].row)
  BY <1>1, <1>2 DEF Climbs
<1> QED BY <1>1, <1>2, <1>3 DEF Climbs

(* The end of a request keeps the invariant, however it comes. *)
LEMMA CloseKeeps ==
  ASSUME IInv, NEW r \in Reqs, Close(r)
  PROVE  IInv'
<1> USE DEF IInv
<1>1. TypeOK'
  BY DEF TypeOK, Close, Released, Without
<1>2. \A q \in Reqs \ {r} : plan'[q] = plan[q] /\ phase'[q] = phase[q] /\ op'[q] = op[q]
                            /\ ahead'[q] = ahead[q] \ {r}
  BY DEF TypeOK, Close, Without
<1>3. plan'[r] = << >> /\ phase'[r] = "idle" /\ op'[r] = NoOp /\ ahead'[r] = {}
  BY DEF TypeOK, Close, Without
<1>4. QueueOK'
  BY <1>2, <1>3 DEF QueueOK, TypeOK
<1>5. QueueFirst'
  BY <1>2, <1>3 DEF QueueFirst
<1>6. HoldersOpen'
  BY <1>2, <1>3 DEF HoldersOpen, InTransaction, Close, Released, TypeOK
<1>7. OrderOK'
  <2>1. Climbs(plan'[r]) /\ HeldBelow(r)'
    BY <1>3 DEF Climbs, HeldBelow
  <2>2. \A q \in Reqs \ {r} : HeldBelow(q) => HeldBelow(q)'
    BY <1>2 DEF HeldBelow, Close, Released
  <2> QED BY <1>2, <2>1, <2>2 DEF OrderOK
<1> QED BY <1>1, <1>4, <1>5, <1>6, <1>7

(* So does a lock that r takes, at once or out of a queue. *)
LEMMA TakeKeeps ==
  ASSUME IInv, NEW r \in Reqs, plan[r] # << >>, phase[r] \in {"running", "waiting"},
         phase' = [phase EXCEPT ![r] = "running"],
         granted' = granted \cup
           { [by |-> r, mode |-> Head(plan[r]).mode, row |-> Head(plan[r]).row] },
         plan' = [plan EXCEPT ![r] = Tail(@)],
         ahead' = Without(r),
         op' = op
  PROVE  IInv'
<1> USE DEF IInv
<1>0. plan[r] \in Seq(Locks) /\ Head(plan[r]) \in Locks /\ Tail(plan[r]) \in Seq(Locks)
  BY DEF TypeOK
<1>1. TypeOK'
  <2>1. [by |-> r, mode |-> Head(plan[r]).mode, row |-> Head(plan[r]).row]
          \in [by : Reqs, mode : {"X", "S"}, row : Rows]
    BY <1>0 DEF Locks
  <2>2. granted' \subseteq [by : Reqs, mode : {"X", "S"}, row : Rows]
    BY <2>1 DEF TypeOK
  <2> QED BY <1>0, <2>2 DEF TypeOK, Without
<1>2. \A q \in Reqs \ {r} : plan'[q] = plan[q] /\ phase'[q] = phase[q]
                            /\ ahead'[q] = ahead[q] \ {r}
  BY DEF TypeOK, Without
<1>3. plan'[r] = Tail(plan[r]) /\ phase'[r] = "running" /\ ahead'[r] = {}
  BY DEF TypeOK, Without
<1>4. QueueOK'
  BY <1>2, <1>3 DEF QueueOK, TypeOK
<1>5. QueueFirst'
  BY <1>2, <1>3 DEF QueueFirst
<1>6. HoldersOpen'
  BY <1>2, <1>3 DEF HoldersOpen, InTransaction, TypeOK
<1>7. OrderOK'
  <2> SUFFICES ASSUME NEW q \in Reqs, op[q] \in Ordered
               PROVE  Climbs(plan'[q]) /\ HeldBelow(q)'
    BY DEF OrderOK
  <2>1. Climbs(plan[q]) /\ HeldBelow(q)
    BY DEF OrderOK
  <2>2. CASE q # r
    BY <1>2, <2>1, <2>2 DEF HeldBelow
  <2>3. CASE q = r
    <3>1. /\ Climbs(Tail(plan[r]))
          /\ \A i \in 1 .. Len(Tail(plan[r])) : Below(Head(plan[r]).row, Tail(plan[r])[i].row)
      BY <1>0, <2>1, <2>3, TailClimbs
    <3>2. \A i \in 1 .. Len(Tail(plan[r])) :
            i + 1 \in 1 .. Len(plan[r]) /\ Tail(plan[r])[i] = plan[r][i + 1]
      BY <1>0
    <3>3. \A g \in granted : g.by = r =>
            \A i \in 1 .. Len(Tail(plan[r])) : Below(g.row, Tail(plan[r])[i].row)
      BY <2>1, <2>3, <3>2 DEF HeldBelow
    <3>4. \A g \in granted' : g \in granted \/ g.row = Head(plan[r]).row
      OBVIOUS
    <3> QED BY <1>3, <2>3, <3>1, <3>3, <3>4 DEF HeldBelow
  <2> QED BY <2>2, <2>3
<1> QED BY <1>1, <1>4, <1>5, <1>6, <1>7

LEMMA InitIInv == Init => IInv
<1> SUFFICES ASSUME Init PROVE IInv
  OBVIOUS
<1>1. TypeOK
  BY DEF Init, TypeOK
<1>2. OrderOK
  BY DEF Init, OrderOK, Climbs, HeldBelow
<1> QED BY <1>1, <1>2 DEF Init, IInv, QueueOK, QueueFirst, HoldersOpen

LEMMA ArriveKeeps == ASSUME IInv, NEW r \in Reqs, Arrive(r) PROVE IInv'
<1> USE DEF IInv, Arrive
<1>1. TypeOK'
  BY DEF TypeOK
<1>2. /\ \A q \in Reqs : phase'[q] = "waiting" <=> phase[q] = "waiting"
      /\ plan' = plan /\ ahead' = ahead
  BY DEF TypeOK
<1>3. QueueOK' /\ QueueFirst'
  <2>1. QueueFirst'
    BY <1>2 DEF QueueFirst
  <2>2. \A q \in Reqs : \A a \in ahead[q] : a \in Reqs
    BY DEF TypeOK
  <2>3. QueueOK'
    BY <1>2, <2>2 DEF QueueOK
  <2> QED BY <2>1, <2>3
<1>4. HoldersOpen' /\ OrderOK'
  BY DEF TypeOK, HoldersOpen, InTransaction, OrderOK, HeldBelow
<1> QED BY <1>1, <1>3, <1>4

LEMMA ConnectKeeps == ASSUME IInv, NEW r \in Reqs, Connect(r) PROVE IInv'
<1> USE DEF IInv
<1>0. PICK c \in Calls :
        \E p \in Plans(c) : op' = [op EXCEPT ![r] = c.op] /\ plan' = [plan EXCEPT ![r] = p]
  BY DEF Connect
<1>1. PICK p \in Plans(c) : op' = [op EXCEPT ![r] = c.op] /\ plan' = [plan EXCEPT ![r] = p]
  BY <1>0
<1>2. p \in Seq(Locks) /\ (c.op \in Ordered => Climbs(p)) /\ c.op \in Handlers
  BY PlansAreLocks, CallsAssumption DEF Call
<1>3. TypeOK'
  BY <1>1, <1>2 DEF TypeOK, Connect
<1>4. \A q \in Reqs \ {r} : plan'[q] = plan[q] /\ phase'[q] = phase[q] /\ op'[q] = op[q]
  BY <1>1 DEF TypeOK, Connect
<1>5. plan'[r] = p /\ op'[r] = c.op /\ phase[r] = "queued" /\ phase'[r] = "running"
      /\ ahead' = ahead /\ granted' = granted
  BY <1>1 DEF TypeOK, Connect
<1>6. QueueOK' /\ QueueFirst'
  <2>1. QueueFirst'
    BY <1>5 DEF QueueFirst
  <2>2. ahead[r] = {} /\ \A q \in Reqs : ahead[q] \subseteq Reqs \ {r}
    BY <1>5 DEF TypeOK, QueueOK
  <2>3. QueueOK'
    BY <1>4, <1>5, <2>2 DEF QueueOK
  <2> QED BY <2>1, <2>3
<1>7. HoldersOpen'
  BY <1>4, <1>5 DEF HoldersOpen, InTransaction, TypeOK
<1>8. OrderOK'
  <2>1. \A g \in granted : g.by # r
    BY <1>5 DEF HoldersOpen, InTransaction
  <2> QED BY <1>2, <1>4, <1>5, <2>1 DEF OrderOK, HeldBelow
<1> QED BY <1>3, <1>6, <1>7, <1>8

LEMMA LockFreeKeeps == ASSUME IInv, NEW r \in Reqs, LockFree(r) PROVE IInv'
<1>1. ahead = Without(r)
  BY DEF IInv, TypeOK, QueueOK, Without, LockFree
<1>2. phase = [phase EXCEPT ![r] = "running"]
  BY DEF IInv, TypeOK, LockFree
<1> QED BY <1>1, <1>2, TakeKeeps DEF LockFree

LEMMA GrantKeeps == ASSUME IInv, NEW r \in Reqs, Grant(r) PROVE IInv'
<1>1. plan[r] # << >>
  BY DEF IInv, QueueOK, Grant
<1> QED BY <1>1, TakeKeeps DEF Grant

LEMMA LockWaitKeeps == ASSUME IInv, NEW r \in Reqs, LockWait(r) PROVE IInv'
<1> USE DEF IInv
<1>1. /\ \A q \in Reqs \ {r} : phase'[q] = phase[q] /\ ahead'[q] = ahead[q]
      /\ phase[r] = "running" /\ phase'[r] = "waiting" /\ ahead'[r] = Claimants(r)
      /\ plan' = plan /\ op' = op /\ granted' = granted /\ plan[r] # << >>
  BY DEF TypeOK, LockWait
<1>2. Claimants(r) \subseteq Reqs \ {r}
      /\ \A q \in Claimants(r) : phase[q] = "waiting" /\ Head(plan[q]).row = Head(plan[r]).row
  BY DEF Claimants, Conflict
<1>3. TypeOK'
  BY <1>2 DEF TypeOK, LockWait
<1>4. \A q \in Reqs : r \notin ahead[q]
  BY <1>1 DEF QueueOK
<1>5. QueueOK'
  <2>1. \A q \in Reqs \ {r} : \A a \in ahead[q] : a \in Reqs \ {r}
    BY <1>4 DEF TypeOK
  <2> QED BY <1>1, <1>2, <2>1 DEF QueueOK, TypeOK
<1>6. QueueFirst'
  <2> SUFFICES ASSUME NEW D \in SUBSET Reqs, D # {}
               PROVE  \E d \in D : ahead'[d] \cap D = {}
    BY DEF QueueFirst
  <2>1. CASE D \ {r} = {}
    BY <1>1, <1>2, <2>1
  <2>2. CASE D \ {r} # {}
    <3>1. PICK d \in D \ {r} : ahead[d] \cap (D \ {r}) = {}
      BY <2>2 DEF QueueFirst
    <3> QED BY <1>1, <1>4, <3>1
  <2> QED BY <2>1, <2>2
<1>7. HoldersOpen' /\ OrderOK'
  BY <1>1 DEF TypeOK, HoldersOpen, InTransaction, OrderOK, HeldBelow
<1> QED BY <1>3, <1>5, <1>6, <1>7

LEMMA StepIInv == IInv /\ [Next]_vars => IInv'
<1> SUFFICES ASSUME IInv, [Next]_vars PROVE IInv'
  OBVIOUS
<1>1. CASE UNCHANGED vars
  BY <1>1 DEF vars, IInv, TypeOK, QueueOK, QueueFirst, HoldersOpen, InTransaction, OrderOK, HeldBelow
<1>2. ASSUME NEW r \in Reqs,
             Arrive(r) \/ Connect(r) \/ PoolTimeout(r) \/ Proceed(r) \/ Grant(r) \/ Victim(r)
      PROVE  IInv'
  <2>1. CASE PoolTimeout(r) \/ Refuse(r) \/ Commit(r) \/ Victim(r)
    BY <2>1, CloseKeeps DEF PoolTimeout, Refuse, Commit, Victim
  <2>2. CASE LockFree(r) \/ LockWait(r) \/ Grant(r)
    BY <2>2, LockFreeKeeps, LockWaitKeeps, GrantKeeps
  <2>3. CASE Arrive(r) \/ Connect(r)
    BY <2>3, ArriveKeeps, ConnectKeeps
  <2> QED BY <1>2, <2>1, <2>2, <2>3 DEF Proceed
<1> QED BY <1>1, <1>2 DEF Next

-----------------------------------------------------------------------------
(* Some rows of any non-empty set lie below no other of it. *)
LEMMA HighestRow ==
  ASSUME NEW T \in SUBSET Rows, T # {}
  PROVE  \E x \in T : \A y \in T : ~Below(x, y)
<1> DEFINE At(n) == { x \in T : Level[x.table] = n }
<1>1. \A x \in T : Level[x.table] \in 0 .. 7
  BY DEF Rows, AccountTables, OtherTables, Level
<1>2. ASSUME NEW n \in 0 .. 7, At(n) # {}, \A m \in 0 .. 7 : m > n => At(m) = {}
      PROVE  \E x \in T : \A y \in T : ~Below(x, y)
  <2>1. \A y \in T : Level[y.table] <= n
    BY <1>1, <1>2
  <2>2. CASE n # 1
    <3>1. PICK x \in T : Level[x.table] = n
      BY <1>2
    <3>2. x.table # "account"
      BY <2>2, <3>1 DEF Level
    <3>3. \A y \in T : ~(Level[x.table] < Level[y.table])
      BY <1>1, <2>1, <3>1
    <3> QED BY <3>2, <3>3 DEF Below
  <2>3. CASE n = 1
    <3> DEFINE U == { x.id : x \in At(1) }
    <3>1. \A x \in At(1) : x.table = "account" /\ x.id \in Accounts
      BY DEF Rows, AccountTables, OtherTables, Level
    <3>2. U \in SUBSET Accounts /\ U # {}
      BY <1>2, <2>3, <3>1
    <3>3. PICK a \in U : \A b \in U : b <= a
      BY <3>2, AccountsAssumption
    <3>4. PICK x \in At(1) : x.id = a
      BY <3>3
    <3>5. \A y \in T : ~(Level[x.table] < Level[y.table])
      BY <1>1, <2>1, <2>3, <3>4
    <3>6. \A y \in T : y.table = "account" => y.id <= x.id
      BY <3>3, <3>4 DEF Level
    <3>7. \A y \in T : y.table = "account" => y.id \in Nat /\ x.id \in Nat
      BY <3>1, <3>4, AccountsAssumption DEF Level
    <3> QED BY <3>4, <3>5, <3>6, <3>7 DEF Below
  <2> QED BY <2>2, <2>3
<1>3. \E n \in 0 .. 7 : At(n) # {}
  BY <1>1
<1> HIDE DEF At
<1>4. \E n \in 0 .. 7 : At(n) # {} /\ \A m \in 0 .. 7 : m > n => At(m) = {}
  BY <1>3
<1> QED BY <1>2, <1>4

(* Among requests that follow the order one waits for the highest row; the  *)
(* holder of that row waits for none of the group, and neither does the     *)
(* first in that row's queue.                                               *)
LEMMA NoOrderedCircle == IInv => OrderedNeverDeadlock
<1> SUFFICES ASSUME IInv, NEW C \in SUBSET Reqs, Deadlocked(C), \A r \in C : op[r] \notin OutOfOrder
             PROVE  FALSE
  BY DEF OrderedNeverDeadlock
<1> USE DEF IInv
<1> DEFINE Row(r) == Head(plan[r]).row
<1>1. \A r \in C : /\ phase[r] = "waiting" /\ WaitsFor(r) \cap C # {}
                   /\ plan[r] \in Seq(Locks) /\ plan[r] # << >>
  BY DEF Deadlocked, TypeOK, QueueOK
<1>2. \A r \in C : Row(r) \in Rows
  <2>1. \A r \in C : Head(plan[r]) \in Locks
    BY <1>1
  <2> QED BY <2>1 DEF Locks
<1>3. \A r \in C : op[r] \in Ordered
  BY DEF TypeOK, Ordered
<1>4. PICK h \in C : \A r \in C : ~Below(Row(h), Row(r))
  <2>1. { Row(r) : r \in C } \in SUBSET Rows /\ { Row(r) : r \in C } # {}
    BY <1>2 DEF Deadlocked
  <2> HIDE DEF Row
  <2>2. PICK x \in { Row(r) : r \in C } : \A y \in { Row(r) : r \in C } : ~Below(x, y)
    BY <2>1, HighestRow
  <2> QED BY <2>2
<1> DEFINE D == { r \in C : Row(r) = Row(h) }
<1>5. PICK d \in D : ahead[d] \cap D = {}
  BY DEF QueueFirst
<1>6. PICK q \in C : q \in WaitsFor(d)
  BY <1>1, <1>5
<1>7. CASE q \in ahead[d]
  BY <1>5, <1>6, <1>7 DEF QueueOK
<1>8. CASE q \in Holders(d)
  <2>1. PICK g \in granted : g.by = q /\ g.row = Row(d)
    BY <1>8 DEF Holders, Conflict
  <2>2. 1 \in 1 .. Len(plan[q]) /\ Row(q) = plan[q][1].row
    BY <1>1
  <2>3. Below(g.row, Row(q))
    BY <1>3, <2>1, <2>2 DEF OrderOK, HeldBelow
  <2> QED BY <1>4, <1>5, <2>1, <2>3
<1> QED BY <1>6, <1>7, <1>8 DEF WaitsFor

(* The handlers that lock parents before children and accounts by id never  *)
(* wait for each other in a circle, whatever the number of requests, calls, *)
(* accounts, rows and connections: identity/service.py:310,                 *)
(* academic/service.py:6-7.                                                 *)
THEOREM OrderedHandlers == Spec => []OrderedNeverDeadlock
BY InitIInv, StepIInv, NoOrderedCircle, PTL DEF Spec

=============================================================================
