------------------------------ MODULE Academic ------------------------------
(***************************************************************************)
(* Semesters and what is written under them: the handlers of               *)
(* modules/academic/service.py.                                            *)
(*                                                                         *)
(* As in Identity, a request fixes its REPEATABLE READ snapshot before it  *)
(* locks anything, and the locking reads and writes of its handler are one *)
(* step: the semester, the teaching class, the schedule and the batch are  *)
(* read FOR UPDATE, everything else is read from the snapshot.  A handler  *)
(* that reads nothing from the snapshot is a step without a request.  Who  *)
(* may call a handler is Identity's business and left out here.            *)
(***************************************************************************)
EXTENDS Naturals, FiniteSets

CONSTANTS
  Semesters,  \* semester rows; one code each
  Classes,    \* teaching classes that may be created
  Codes,      \* pairs of a course and a class code
  Schedules,  \* timetable entries that may be created
  Students,   \* student rows; none is ever deleted
  Days,       \* period numbers and calendar dates
  Batches,    \* import batches that may be created
  Reqs,       \* requests that may be in progress at once
  None,       \* the SQL NULL
  Kinds,      \* those of HandlerKinds that clients call
  MaxWeek,    \* bound on total_weeks
  MaxSerial   \* bound on the inserts of week rows

(* The handlers that read from their snapshot. *)
HandlerKinds == {"class", "roster", "schedule", "confirm"}
Weeks == 1 .. MaxWeek
Subjects == Semesters \cup Classes \cup Schedules \cup Batches

ASSUME NoneAssumption == None \notin Subjects \cup Codes
ASSUME KindsAssumption == Kinds \subseteq HandlerKinds
ASSUME BoundsAssumption == MaxWeek \in Nat /\ MaxSerial \in Nat

VARIABLES
  db,   \* the latest committed rows
  req   \* the requests in progress
-----------------------------------------------------------------------------
(* Rows.  A schedule week is a tuple of its schedule, its number and the id *)
(* the insert gave it; ids are never reused.                                *)

Semester == [status : {"NONE", "ACTIVE", "ARCHIVED"}, weeks : 0 .. MaxWeek]
TeachingClass == [semester : Semesters \cup {None}, code : Codes \cup {None}]
Batch == [status   : {"NONE", "PREVIEW", "CONFIRMED", "EXPIRED"},
          target   : {"none", "roster", "timetable"},
          errors   : BOOLEAN,
          class    : Classes \cup {None},
          students : SUBSET Students,
          semester : Semesters \cup {None},
          code     : Codes \cup {None},
          weeks    : SUBSET Weeks]

NoClass == [semester |-> None, code |-> None]
NoBatch == [status |-> "NONE", target |-> "none", errors |-> FALSE,
            class |-> None, students |-> {}, semester |-> None, code |-> None,
            weeks |-> {}]

DB == [semester : [Semesters -> Semester],
       class    : [Classes -> TeachingClass],
       roster   : [Classes -> SUBSET Students],
       schedule : [Schedules -> Classes \cup {None}],
       deleted  : SUBSET Schedules,
       week     : SUBSET (Schedules \X Weeks \X (1 .. MaxSerial)),
       day      : SUBSET (Semesters \X Days),
       batch    : [Batches -> Batch],
       serial   : 0 .. MaxSerial]

InitDB ==
  [semester |-> [s \in Semesters |-> [status |-> "NONE", weeks |-> 0]],
   class    |-> [c \in Classes |-> NoClass],
   roster   |-> [c \in Classes |-> {}],
   schedule |-> [x \in Schedules |-> None],
   deleted  |-> {},
   week     |-> {},
   day      |-> {},
   batch    |-> [b \in Batches |-> NoBatch],
   serial   |-> 0]

(* The semester of a schedule is that of its teaching class. *)
SemesterOf(d, x) == d.class[d.schedule[x]].semester

WeekRows(d, x) == {row \in d.week : row[1] = x}
WeekNos(d, x) == {row[2] : row \in WeekRows(d, x)}
-----------------------------------------------------------------------------
(* Requests *)

(* subject: the semester, class, schedule or batch in the path *)
Request == [kind : HandlerKinds \cup {"none"}, subject : Subjects \cup {None},
            snap : DB]
Idle == [kind |-> "none", subject |-> None, snap |-> InitDB]

View(r) == req[r].snap
Handles(r, k, subject) == req[r].kind = k /\ req[r].subject = subject

(* The rows the handler reads, as its snapshot shows them.  The semester is *)
(* read under a lock instead; the snapshot of a class handler keeps it, for *)
(* the bug of not locking it to be expressible. *)
Rows(k, subject) ==
  CASE k = "class"    -> [InitDB EXCEPT !.semester = db.semester,
                                        !.class = db.class]
    [] k = "roster"   -> [InitDB EXCEPT !.roster[subject] = db.roster[subject]]
    [] k = "schedule" -> [InitDB EXCEPT !.week = WeekRows(db, subject)]
    [] k = "confirm"  ->
         LET b == db.batch[subject] IN
         [InitDB EXCEPT
            !.batch[subject] = b,
            !.class = IF b.target = "timetable" THEN db.class ELSE @,
            !.roster = IF b.target = "roster"
                       THEN [@ EXCEPT ![b.class] = db.roster[b.class]] ELSE @]

Begin(r, k, subject) ==
  /\ req[r] = Idle
  /\ req' = [req EXCEPT ![r] =
               [kind |-> k, subject |-> subject, snap |-> Rows(k, subject)]]
  /\ UNCHANGED db

Commit(r, newDB) ==
  /\ db' = newDB
  /\ req' = [req EXCEPT ![r] = Idle]

(* A handler that reads nothing from a snapshot *)
Write(newDB) == db' = newDB /\ UNCHANGED req

(* A refusal, a constraint error or a crash before the commit *)
Rollback(r) ==
  /\ req[r] # Idle
  /\ req' = [req EXCEPT ![r] = Idle]
  /\ UNCHANGED db
-----------------------------------------------------------------------------
(* Semesters *)

(* _require_active_semester: SELECT ... FOR UPDATE, then the status. *)
(* mutant: the lock is dropped *)
ActiveSemester_Unlocked(r, s) == View(r).semester[s].status = "ACTIVE"
ActiveSemester(r, s) == db.semester[s].status = "ACTIVE"

CreateSemester(s, n) ==
  /\ db.semester[s].status = "NONE"
  /\ Write([db EXCEPT !.semester[s] = [status |-> "ACTIVE", weeks |-> n]])

(* Archiving, reactivating, and lengthening or shortening the semester *)
UpdateSemester(s, status, n) ==
  /\ db.semester[s].status # "NONE"
  /\ Write([db EXCEPT !.semester[s] = [status |-> status, weeks |-> n]])

(* upsert_period_definition where it inserts, and create_calendar_override: *)
(* what the query misses in its snapshot the unique index refuses, so the   *)
(* row is added exactly when it is not there. *)
CreateDay(s, d) ==
  /\ db.semester[s].status = "ACTIVE"
  /\ <<s, d>> \notin db.day
  /\ Write([db EXCEPT !.day = @ \cup {<<s, d>>}])

(* delete_period_definition, delete_calendar_override: by the id it loaded, *)
(* so a row that is gone, or is there again, is left alone. *)
DeleteDay(s, d) ==
  /\ db.semester[s].status = "ACTIVE"
  /\ <<s, d>> \in db.day
  /\ Write([db EXCEPT !.day = @ \ {<<s, d>>}])
-----------------------------------------------------------------------------
(* Teaching classes and their rosters *)

ClassesByKey(d, s, code) ==
  {c \in Classes : d.class[c] = [semester |-> s, code |-> code]}

(* uq_teaching_class_key, which lets NULL class codes be *)
(* mutant: no unique index *)
UniqueKey_Unchecked(s, code) == TRUE
UniqueKey(s, code) == code # None => ClassesByKey(db, s, code) = {}

ClassAdded(d, c, s, code) ==
  [d EXCEPT !.class[c] = [semester |-> s, code |-> code]]

CreateTeachingClass(r, c, s, code) ==
  /\ Handles(r, "class", s)
  /\ ActiveSemester(r, s)
  /\ ClassesByKey(View(r), s, code) = {}
  /\ UniqueKey(s, code)
  /\ db.class[c] = NoClass
  /\ Commit(r, ClassAdded(db, c, s, code))

(* Only a new class code matters; NULL in the request leaves it alone. *)
UpdateTeachingClass(c, code) ==
  LET s == db.class[c].semester IN
  /\ db.class[c] # NoClass
  /\ db.semester[s].status = "ACTIVE"
  /\ code # db.class[c].code
  /\ UniqueKey(s, code)
  /\ Write([db EXCEPT !.class[c].code = code])

(* set_roster: the rows the snapshot shows are deleted, then the new ones   *)
(* inserted; a duplicate key rolls back. *)
RosterInserts(r, c, new) == new \cap (db.roster[c] \ View(r).roster[c]) = {}
RosterSet(r, c, new) ==
  [db EXCEPT !.roster[c] = (@ \ View(r).roster[c]) \cup new]

ReplaceRoster(r, c, new) ==
  /\ Handles(r, "roster", c)
  /\ ActiveSemester(r, db.class[c].semester)
  /\ RosterInserts(r, c, new)
  /\ Commit(r, RosterSet(r, c, new))
-----------------------------------------------------------------------------
(* The timetable *)

(* _validate_schedule_periods: within the total_weeks that was locked. *)
WeeksValid(s, new) == new \subseteq 1 .. db.semester[s].weeks

(* mutant: weeks are counted from 0 *)
WeekInserts_FromZero(x, new) == {<<x, w - 1, db.serial + 1>> : w \in new}
WeekInserts(x, new) == {<<x, w, db.serial + 1>> : w \in new}
NextSerial(new) == IF new = {} THEN db.serial ELSE db.serial + 1

ScheduleAdded(d, x, c, new) ==
  [d EXCEPT !.schedule[x] = c,
            !.week = @ \cup WeekInserts(x, new),
            !.serial = NextSerial(new)]

FreshSchedule(x, new) ==
  /\ db.schedule[x] = None /\ x \notin db.deleted
  /\ NextSerial(new) <= MaxSerial

CreateSchedule(x, c, new) ==
  LET s == db.class[c].semester IN
  /\ db.class[c] # NoClass
  /\ db.semester[s].status = "ACTIVE"
  /\ WeeksValid(s, new)
  /\ FreshSchedule(x, new)
  /\ Write(ScheduleAdded(db, x, c, new))

(* set_schedule_weeks: one flush inserts the new rows before it deletes the *)
(* loaded ones, so a week that is there already breaks the unique index;    *)
(* the rows to delete are those of the snapshot, by id.                     *)
UpdateSchedule(r, x, new) ==
  LET s == SemesterOf(db, x) IN
  /\ Handles(r, "schedule", x)
  /\ db.schedule[x] # None
  /\ ActiveSemester(r, s)
  /\ WeeksValid(s, new)
  /\ new \cap WeekNos(db, x) = {}
  /\ NextSerial(new) <= MaxSerial
  /\ Commit(r, [db EXCEPT
       !.week = (@ \ View(r).week) \cup WeekInserts(x, new),
       !.serial = NextSerial(new)])

(* The foreign key deletes whatever week rows are left. *)
DeleteSchedule(x) ==
  /\ db.schedule[x] # None
  /\ db.semester[SemesterOf(db, x)].status = "ACTIVE"
  /\ Write([db EXCEPT !.schedule[x] = None,
                      !.deleted = @ \cup {x},
                      !.week = @ \ WeekRows(db, x)])
-----------------------------------------------------------------------------
(* What a client names in a path is something it has seen. *)
Known(k, subject) ==
  CASE k = "class"    ->
         subject \in Semesters /\ db.semester[subject].status # "NONE"
    [] k = "roster"   -> subject \in Classes /\ db.class[subject] # NoClass
    [] k = "schedule" -> subject \in Schedules /\ db.schedule[subject] # None
    [] k = "confirm"  -> subject \in Batches /\ db.batch[subject] # NoBatch

AcademicNext ==
  \/ \E r \in Reqs, k \in Kinds, subject \in Subjects :
       Known(k, subject) /\ Begin(r, k, subject)
  \/ \E r \in Reqs : Rollback(r)
  \/ \E s \in Semesters, n \in Weeks : CreateSemester(s, n)
  \/ \E s \in Semesters, status \in {"ACTIVE", "ARCHIVED"}, n \in Weeks :
       UpdateSemester(s, status, n)
  \/ \E s \in Semesters, d \in Days : CreateDay(s, d) \/ DeleteDay(s, d)
  \/ \E r \in Reqs, c \in Classes, s \in Semesters, code \in Codes \cup {None} :
       CreateTeachingClass(r, c, s, code)
  \/ \E c \in Classes, code \in Codes : UpdateTeachingClass(c, code)
  \/ \E r \in Reqs, c \in Classes, new \in SUBSET Students :
       ReplaceRoster(r, c, new)
  \/ \E x \in Schedules, c \in Classes, new \in SUBSET Weeks :
       CreateSchedule(x, c, new)
  \/ \E r \in Reqs, x \in Schedules, new \in SUBSET Weeks :
       UpdateSchedule(r, x, new)
  \/ \E x \in Schedules : DeleteSchedule(x)
=============================================================================
