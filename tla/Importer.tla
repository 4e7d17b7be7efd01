------------------------------ MODULE Importer ------------------------------
(***************************************************************************)
(* Import batches over the academic tables: modules/importer/service.py.   *)
(* A preview stores what it parsed, a confirmation writes it, in one       *)
(* transaction, with the rows of the academic handlers.  A batch stands    *)
(* for one file: the roster of a class, or one row of a timetable (rows of *)
(* one file are written by one transaction).  Qualifications of volunteers *)
(* are imported in Identity, where their roles are.                        *)
(***************************************************************************)
EXTENDS Academic, TimeSlots

CONSTANT WeekCells \* what the week column of a timetable may contain

ASSUME CellsAssumption == WeekCells \subseteq Seq(Int)

VARIABLES
  lapsed,  \* batches whose expires_at has passed
  imports  \* history: how often each batch has been written

vars == <<db, req, lapsed, imports>>

(* create_preview for a roster: the class is there, the students are known. *)
PreviewRoster(b, c, students) ==
  /\ db.class[c] # NoClass
  /\ db.batch[b] = NoBatch
  /\ Write([db EXCEPT !.batch[b] =
       [NoBatch EXCEPT !.status = "PREVIEW", !.target = "roster",
                       !.class = c, !.students = students]])
  /\ UNCHANGED <<lapsed, imports>>

(* create_preview for a timetable row: a cell that is refused, for its form *)
(* or for a week outside the semester, leaves the row out.  A preview reads and adds a row of its     *)
(* own: committing later is the same as having read later. *)
PreviewTimetable(b, s, code, cell) ==
  LET new == ParseWeeks(cell, db.semester[s].weeks) IN
  /\ db.semester[s].status # "NONE"
  /\ db.batch[b] = NoBatch
  /\ Write([db EXCEPT !.batch[b] =
       [NoBatch EXCEPT !.status = "PREVIEW", !.target = "timetable",
                       !.errors = new = {}, !.semester = s, !.code = code,
                       !.weeks = new]])
  /\ UNCHANGED <<lapsed, imports>>

(* expires_at passes. *)
Lapse(b) ==
  /\ db.batch[b].status = "PREVIEW"
  /\ lapsed' = lapsed \cup {b}
  /\ UNCHANGED <<db, req, imports>>

(* confirm reads the batch FOR UPDATE. *)
(* mutant: the lock is dropped *)
LockedBatch_Unlocked(r, b) == View(r).batch[b]
LockedBatch(r, b) == db.batch[b]

(* What a finished batch holds is never applied again and left out. *)
Finished(status) == [NoBatch EXCEPT !.status = status]

Presents(r, b) ==
  /\ Handles(r, "confirm", b)
  /\ LockedBatch(r, b).status = "PREVIEW"

ConfirmLapsed(r, b) ==
  /\ Presents(r, b)
  /\ b \in lapsed
  /\ Commit(r, [db EXCEPT !.batch[b] = Finished("EXPIRED")])
  /\ UNCHANGED <<lapsed, imports>>

Confirmed(r, b, newDB) ==
  /\ b \notin lapsed
  /\ ~LockedBatch(r, b).errors
  /\ Commit(r, [newDB EXCEPT !.batch[b] = Finished("CONFIRMED")])
  /\ imports' = [imports EXCEPT ![b] = @ + 1]
  /\ UNCHANGED lapsed

(* _apply_roster *)
ConfirmRoster(r, b) ==
  LET c == LockedBatch(r, b).class IN
  /\ Presents(r, b) /\ LockedBatch(r, b).target = "roster"
  /\ ActiveSemester(r, db.class[c].semester)
  /\ RosterInserts(r, c, LockedBatch(r, b).students)
  /\ Confirmed(r, b, RosterSet(r, c, LockedBatch(r, b).students))

(* The weeks are checked again, the semester may have been shortened since. *)
(* mutant: what the preview has checked is taken as good *)
StillFits_Previewed(s, new) == TRUE
StillFits(s, new) == WeeksValid(s, new)

(* _apply_timetable: the teaching class of the key, as the snapshot shows   *)
(* it, or a new one. *)
ConfirmTimetable(r, b, x, c) ==
  LET s     == LockedBatch(r, b).semester
      code  == LockedBatch(r, b).code
      new   == LockedBatch(r, b).weeks
      found == ClassesByKey(View(r), s, code)
  IN
  /\ Presents(r, b) /\ LockedBatch(r, b).target = "timetable"
  /\ ActiveSemester(r, s)
  /\ StillFits(s, new)
  /\ FreshSchedule(x, new)
  /\ \/ /\ c \in found
        /\ Confirmed(r, b, ScheduleAdded(db, x, c, new))
     \/ /\ found = {} /\ UniqueKey(s, code) /\ db.class[c] = NoClass
        /\ Confirmed(r, b, ScheduleAdded(ClassAdded(db, c, s, code), x, c, new))
-----------------------------------------------------------------------------
Init ==
  /\ db = InitDB
  /\ req = [r \in Reqs |-> Idle]
  /\ lapsed = {}
  /\ imports = [b \in Batches |-> 0]

Next ==
  \/ AcademicNext /\ UNCHANGED <<lapsed, imports>>
  \/ \E b \in Batches, c \in Classes, students \in SUBSET Students :
       PreviewRoster(b, c, students)
  \/ \E b \in Batches, s \in Semesters, code \in Codes,
        cell \in WeekCells : PreviewTimetable(b, s, code, cell)
  \/ \E b \in Batches : Lapse(b)
  \/ \E r \in Reqs, b \in Batches : ConfirmLapsed(r, b)
  \/ \E r \in Reqs, b \in Batches : ConfirmRoster(r, b)
  \/ \E r \in Reqs, b \in Batches, x \in Schedules, c \in Classes :
       ConfirmTimetable(r, b, x, c)

Spec == Init /\ [][Next]_vars
-----------------------------------------------------------------------------
TypeOK ==
  /\ db \in DB
  /\ req \in [Reqs -> Request]
  /\ lapsed \subseteq Batches
  /\ imports \in [Batches -> Nat]

(* Two teaching classes of a semester have no course and class code in      *)
(* common, when classes are created, renamed and imported at once.          *)
KeysUnique ==
  \A c, d \in Classes :
    db.class[c] = db.class[d] /\ db.class[c].code # None => c = d

(* What is under an archived semester is history: no class, roster,         *)
(* timetable entry, period or override of it changes, also when the         *)
(* semester is archived while a handler or an import is on its way          *)
(* (_require_active_semester locks the row; permissions.py: only ACTIVE is  *)
(* written, ARCHIVED is read-only history).                                 *)
Children(d, s) ==
  LET mine == {c \in Classes : d.class[c].semester = s} IN
  [classes   |-> [c \in mine |-> <<d.class[c], d.roster[c]>>],
   schedules |-> {<<x, d.schedule[x], WeekRows(d, x)>> :
                    x \in {y \in Schedules : d.schedule[y] \in mine}},
   days      |-> {row \in d.day : row[1] = s}]

ArchivedFrozen ==
  [][\A s \in Semesters :
       db.semester[s].status = "ARCHIVED" =>
         Children(db', s) = Children(db, s)]_vars

(* Weeks that are written lie within the semester as it is at that moment,  *)
(* whatever it was when the request began or the file was previewed         *)
(* (_validate_schedule_periods and _apply_timetable, under the lock).       *)
WeeksFit ==
  [][\A x \in Schedules :
       db'.schedule[x] # None =>
         WeekNos(db', x) \ WeekNos(db, x)
           \subseteq 1 .. db.semester[SemesterOf(db', x)].weeks]_vars

(* A batch is written once or it expires, and stays what it became: a       *)
(* refinement of OneTimeCode.                                               *)
BatchPhase ==
  [b \in Batches |->
     CASE db.batch[b].status = "NONE"      -> "unissued"
       [] db.batch[b].status = "PREVIEW"   -> "open"
       [] db.batch[b].status = "CONFIRMED" -> "spent"
       [] db.batch[b].status = "EXPIRED"   -> "void"]

OneTime == INSTANCE OneTimeCode
             WITH Codes <- Batches, phase <- BatchPhase, uses <- imports

BatchesAreOneTime == OneTime!Spec

(* A replaced roster is the one that was asked for (set_roster replaces the *)
(* whole; the test of concurrent replacements expects one side's roster).   *)
RosterReplaced ==
  [][\A r \in Reqs, c \in Classes, new \in SUBSET Students :
       ReplaceRoster(r, c, new) => db'.roster[c] = new]_vars
=============================================================================
