--------------------------- MODULE ImporterProofs ---------------------------
(***************************************************************************)
(* Theorems about Importer, and so about the handlers of Academic that it  *)
(* takes in, for every set of rows, requests and cells.                    *)
(***************************************************************************)
EXTENDS Importer, TimeSlotsProofs

\* A teaching class that is there is a class of a semester.
ClassesPlaced ==
  \A c \in Classes : db.class[c] # NoClass => db.class[c].semester \in Semesters

\* A previewed roster names its class, a previewed timetable row its semester.
Placed(batch) ==
  /\ batch.target = "roster" => batch.class \in Classes
  /\ batch.target = "timetable" => batch.semester \in Semesters

BatchesPlaced == \A b \in Batches : Placed(db.batch[b])

\* A class that a snapshot shows is still there, in the same semester.
SnapshotClasses ==
  \A r \in Reqs, c \in Classes :
    View(r).class[c] # NoClass =>
      /\ View(r).class[c].semester \in Semesters
      /\ db.class[c].semester = View(r).class[c].semester

\* The week rows that a snapshot shows are those of the schedule asked for.
SnapshotWeeks ==
  \A r \in Reqs : \A row \in View(r).week :
    req[r].kind = "schedule" /\ row[1] = req[r].subject

IInv ==
  /\ TypeOK
  /\ ClassesPlaced
  /\ BatchesPlaced
  /\ SnapshotClasses
  /\ SnapshotWeeks
  /\ KeysUnique
-----------------------------------------------------------------------------
(* Rows *)

LEMMA InitRows == InitDB \in DB /\ Idle \in Request
<1>1. NoBatch \in Batch /\ NoClass \in TeachingClass
  BY DEF NoBatch, Batch, NoClass, TeachingClass
<1>2. 0 \in 0 .. MaxSerial /\ 0 \in 0 .. MaxWeek
  BY BoundsAssumption
<1>3. InitDB \in DB
  BY <1>1, <1>2 DEF InitDB, DB, Semester
<1> QED BY <1>3 DEF Idle, Request

LEMMA Start == Init => IInv
<1> SUFFICES ASSUME Init PROVE IInv
  OBVIOUS
<1>1. TypeOK
  BY InitRows DEF Init, TypeOK
<1>2. /\ \A c \in Classes : db.class[c] = NoClass
      /\ \A b \in Batches : db.batch[b] = NoBatch
  BY DEF Init, InitDB
<1>3. \A r \in Reqs : View(r).week = {} /\ \A c \in Classes : View(r).class[c] = NoClass
  BY DEF Init, Idle, View, InitDB
<1>4. ClassesPlaced /\ BatchesPlaced
  BY <1>2 DEF ClassesPlaced, BatchesPlaced, Placed, NoBatch
<1>5. SnapshotClasses /\ SnapshotWeeks
  BY <1>3 DEF SnapshotClasses, SnapshotWeeks
<1>6. KeysUnique
  BY <1>2 DEF KeysUnique, NoClass
<1> QED BY <1>1, <1>4, <1>5, <1>6 DEF IInv

LEMMA NoClassUnplaced == NoClass.semester \notin Semesters /\ NoClass.code = None
  BY NoneAssumption DEF NoClass, Subjects

(* The rows that a request reads when it begins. *)
LEMMA RowsRead ==
  ASSUME IInv, NEW k \in Kinds, NEW subject \in Subjects, Known(k, subject)
  PROVE  /\ Rows(k, subject) \in DB
         /\ \A c \in Classes :
              Rows(k, subject).class[c] \in {NoClass, db.class[c]}
         /\ \A row \in Rows(k, subject).week : k = "schedule" /\ row[1] = subject
<1>1. k \in {"class", "roster", "schedule", "confirm"}
  BY KindsAssumption DEF HandlerKinds
<1>2. db \in DB /\ InitDB \in DB
  BY InitRows DEF IInv, TypeOK
<1>3. InitDB.week = {} /\ InitDB.class = [c \in Classes |-> NoClass]
  BY DEF InitDB
<1>4. CASE k = "class"
  <2>1. Rows(k, subject) = [InitDB EXCEPT !.semester = db.semester, !.class = db.class]
    BY <1>4 DEF Rows
  <2> QED BY <2>1, <1>2, <1>3 DEF DB
<1>5. CASE k = "roster"
  <2>1. Rows(k, subject) = [InitDB EXCEPT !.roster[subject] = db.roster[subject]]
    BY <1>5 DEF Rows
  <2>2. subject \in Classes
    BY <1>5 DEF Known
  <2> QED BY <2>1, <2>2, <1>2, <1>3 DEF DB
<1>6. CASE k = "schedule"
  <2>1. Rows(k, subject) = [InitDB EXCEPT !.week = WeekRows(db, subject)]
    BY <1>6 DEF Rows
  <2> QED BY <2>1, <1>2, <1>3, <1>6 DEF DB, WeekRows
<1>7. CASE k = "confirm"
  <2> DEFINE b == db.batch[subject]
             classes == IF b.target = "timetable" THEN db.class ELSE InitDB.class
             rosters == IF b.target = "roster"
                        THEN [InitDB.roster EXCEPT ![b.class] = db.roster[b.class]]
                        ELSE InitDB.roster
             batches == [InitDB.batch EXCEPT ![subject] = b]
  <2>1. Rows(k, subject) = [InitDB EXCEPT !.batch = batches, !.class = classes,
                                          !.roster = rosters]
    BY <1>7 DEF Rows, InitDB
  <2>2. subject \in Batches /\ b \in Batch
    BY <1>2, <1>7 DEF Known, DB
  <2>3. classes \in [Classes -> TeachingClass]
    BY <1>2 DEF DB
  <2>4. rosters \in [Classes -> SUBSET Students] /\ batches \in [Batches -> Batch]
    BY <2>2, <1>2 DEF DB
  <2>5. \A c \in Classes : classes[c] \in {NoClass, db.class[c]}
    BY <1>3
  <2> HIDE DEF b, classes, rosters, batches
  <2>6. /\ Rows(k, subject).class = classes
        /\ Rows(k, subject).week = {}
    BY <2>1, <1>2, <1>3 DEF DB
  <2>7. Rows(k, subject) \in DB
    BY <2>1, <2>2, <2>3, <2>4, <1>2 DEF DB
  <2> QED BY <2>5, <2>6, <2>7
<1> QED BY <1>1, <1>4, <1>5, <1>6, <1>7

LEMMA BeginStep ==
  ASSUME IInv, NEW r \in Reqs, NEW k \in Kinds, NEW subject \in Subjects,
         Known(k, subject), Begin(r, k, subject), UNCHANGED <<lapsed, imports>>
  PROVE  IInv'
<1> DEFINE q == [kind |-> k, subject |-> subject, snap |-> Rows(k, subject)]
<1>1. q \in Request
  BY RowsRead, KindsAssumption DEF Request
<1>2. req' = [req EXCEPT ![r] = q] /\ db' = db
  BY DEF Begin
<1>3. req'[r] = q /\ \A p \in Reqs : p # r => req'[p] = req[p]
  BY <1>2 DEF IInv, TypeOK
<1>4. TypeOK'
  BY <1>1, <1>2 DEF IInv, TypeOK
<1>5. SnapshotClasses'
  BY <1>2, <1>3, RowsRead DEF IInv, ClassesPlaced, SnapshotClasses, View
<1>6. SnapshotWeeks'
  BY <1>2, <1>3, RowsRead DEF IInv, SnapshotWeeks, View
<1> QED BY <1>2, <1>4, <1>5, <1>6 DEF IInv, ClassesPlaced, BatchesPlaced, KeysUnique
-----------------------------------------------------------------------------
(* Commits *)

\* At most one request ends, and with it its snapshot.
AtMostOneEnds ==
  req' = req \/ \E r \in Reqs : req' = [req EXCEPT ![r] = Idle]

(* Whatever is written, the snapshots stay true as long as no class vanishes *)
(* or moves to another semester.                                             *)
LEMMA CommitStep ==
  ASSUME IInv, AtMostOneEnds, db' \in DB,
         lapsed' \subseteq Batches, imports' \in [Batches -> Nat],
         \A c \in Classes : db.class[c] # NoClass =>
            db'.class[c].semester = db.class[c].semester,
         ClassesPlaced', BatchesPlaced', KeysUnique'
  PROVE  IInv'
<1>1. \A r \in Reqs : req'[r] = req[r] \/ req'[r] = Idle
  BY DEF AtMostOneEnds, IInv, TypeOK
<1>2. req' \in [Reqs -> Request]
  BY InitRows DEF AtMostOneEnds, IInv, TypeOK
<1>3. Idle.snap.week = {} /\ \A c \in Classes : Idle.snap.class[c] = NoClass
  BY DEF Idle, InitDB
<1>4. SnapshotClasses'
  <2> SUFFICES ASSUME NEW r \in Reqs, NEW c \in Classes,
                      req'[r].snap.class[c] # NoClass
               PROVE  /\ req'[r].snap.class[c].semester \in Semesters
                      /\ db'.class[c].semester = req'[r].snap.class[c].semester
    BY DEF SnapshotClasses, View
  <2>1. req'[r] = req[r]
    BY <1>1, <1>3
  <2>2. /\ req[r].snap.class[c].semester \in Semesters
        /\ db.class[c].semester = req[r].snap.class[c].semester
    BY <2>1 DEF IInv, SnapshotClasses, View
  <2>3. db.class[c] # NoClass
    BY <2>2, NoClassUnplaced
  <2> QED BY <2>1, <2>2, <2>3
<1>5. SnapshotWeeks'
  BY <1>1, <1>3 DEF IInv, SnapshotWeeks, View
<1>6. TypeOK'
  BY <1>2 DEF TypeOK
<1> QED BY <1>4, <1>5, <1>6 DEF IInv

(* A step that leaves the classes alone. *)
LEMMA OtherCommit ==
  ASSUME IInv, AtMostOneEnds, db' \in DB,
         lapsed' \subseteq Batches, imports' \in [Batches -> Nat],
         db'.class = db.class, BatchesPlaced'
  PROVE  IInv'
<1>1. ClassesPlaced' /\ KeysUnique'
  BY DEF IInv, ClassesPlaced, KeysUnique
<1> QED BY <1>1, CommitStep

(* A class is added, with a key that is free. *)
LEMMA ClassCommit ==
  ASSUME IInv, AtMostOneEnds, db' \in DB,
         lapsed' \subseteq Batches, imports' \in [Batches -> Nat], BatchesPlaced',
         NEW c \in Classes, NEW s \in Semesters, NEW code \in Codes \cup {None},
         db.class[c] = NoClass \/ db.class[c].semester = s, UniqueKey(s, code),
         db'.class = [db.class EXCEPT ![c] = [semester |-> s, code |-> code]]
  PROVE  IInv'
<1> DEFINE new == [semester |-> s, code |-> code]
<1>1. db.class \in [Classes -> TeachingClass]
  BY DEF IInv, TypeOK, DB
<1>2. db'.class[c] = new /\ \A d \in Classes : d # c => db'.class[d] = db.class[d]
  BY <1>1
<1>3. \A d \in Classes : db.class[d] # NoClass =>
        db'.class[d].semester = db.class[d].semester
  BY <1>2
<1>4. ClassesPlaced'
  BY <1>2 DEF IInv, ClassesPlaced
<1>5. code # None => \A d \in Classes : db.class[d] # new
  BY DEF UniqueKey, ClassesByKey
<1>6. KeysUnique'
  BY <1>2, <1>5 DEF IInv, KeysUnique
<1> QED BY <1>3, <1>4, <1>6, CommitStep
-----------------------------------------------------------------------------
(* What a step may write *)

Frozen ==
  \A s \in Semesters :
    db.semester[s].status = "ARCHIVED" => Children(db', s) = Children(db, s)

Fitting ==
  \A x \in Schedules :
    db'.schedule[x] # None =>
      WeekNos(db', x) \ WeekNos(db, x)
        \subseteq 1 .. db.semester[SemesterOf(db', x)].weeks

Kept == IInv' /\ Frozen /\ Fitting

\* No semester but s has this class.
Under(class, s) == class.semester \notin Semesters \ {s}

\* No semester but s has the class of this schedule.
EntryUnder(d, x, s) == d.schedule[x] \in Classes => Under(d.class[d.schedule[x]], s)

(* What is written under one semester leaves the archived ones alone, if the *)
(* semester is active or nothing changes at all.                             *)
LEMMA OnlyUnder ==
  ASSUME db \in DB, db' \in DB, NEW s,
         s \in Semesters => db.semester[s].status # "ARCHIVED",
         \A c \in Classes :
            \/ db'.class[c] = db.class[c] /\ db'.roster[c] = db.roster[c]
            \/ Under(db.class[c], s) /\ Under(db'.class[c], s),
         \A x \in Schedules :
            \/ db'.schedule[x] = db.schedule[x] /\ WeekRows(db', x) = WeekRows(db, x)
            \/ EntryUnder(db, x, s) /\ EntryUnder(db', x, s),
         \A row \in Semesters \X Days : row[1] # s => (row \in db'.day <=> row \in db.day)
  PROVE  Frozen
<1> SUFFICES ASSUME NEW t \in Semesters, db.semester[t].status = "ARCHIVED"
             PROVE  Children(db', t) = Children(db, t)
  BY DEF Frozen
<1> DEFINE Mine(d) == {c \in Classes : d.class[c].semester = t}
           Entries(d) == {y \in Schedules : d.schedule[y] \in Mine(d)}
<1>1. t # s
  OBVIOUS
<1>2. \A c \in Classes : (c \in Mine(db) \/ c \in Mine(db')) =>
         db'.class[c] = db.class[c] /\ db'.roster[c] = db.roster[c]
  BY <1>1 DEF Under
<1>3. Mine(db') = Mine(db)
  BY <1>2
<1>4. \A x \in Schedules : (x \in Entries(db) \/ x \in Entries(db')) =>
         db'.schedule[x] = db.schedule[x] /\ WeekRows(db', x) = WeekRows(db, x)
  BY <1>1 DEF EntryUnder, Under
<1>5. Entries(db') = Entries(db)
  BY <1>3, <1>4
<1>6. [c \in Mine(db') |-> <<db'.class[c], db'.roster[c]>>]
        = [c \in Mine(db) |-> <<db.class[c], db.roster[c]>>]
  BY <1>2, <1>3
<1>7. {<<x, db'.schedule[x], WeekRows(db', x)>> : x \in Entries(db')}
        = {<<x, db.schedule[x], WeekRows(db, x)>> : x \in Entries(db)}
  BY <1>4, <1>5
<1>8. {row \in db'.day : row[1] = t} = {row \in db.day : row[1] = t}
  BY <1>1 DEF DB
<1> QED BY <1>6, <1>7, <1>8 DEF Children

(* No week is written. *)
LEMMA NoWeeks ==
  ASSUME \A x \in Schedules :
           db'.schedule[x] # None => WeekRows(db', x) \subseteq WeekRows(db, x)
  PROVE  Fitting
  BY DEF Fitting, WeekNos

(* A step that leaves the rows under the semesters alone. *)
LEMMA Aside ==
  ASSUME IInv, AtMostOneEnds, db' \in DB,
         lapsed' \subseteq Batches, imports' \in [Batches -> Nat], BatchesPlaced',
         db'.class = db.class, db'.roster = db.roster,
         db'.schedule = db.schedule, db'.week = db.week, db'.day = db.day
  PROVE  Kept
<1>1. IInv'
  BY OtherCommit
<1>2. \A x : WeekRows(db', x) = WeekRows(db, x)
  BY DEF WeekRows
<1>3. Frozen
  <2>1. None \notin Semesters
    BY NoneAssumption DEF Subjects
  <2> QED BY <1>2, <2>1, OnlyUnder DEF IInv, TypeOK
<1>4. Fitting
  BY <1>2, NoWeeks
<1> QED BY <1>1, <1>3, <1>4 DEF Kept
-----------------------------------------------------------------------------
(* Steps of the academic handlers *)

LEMMA NoneApart == None \notin Semesters /\ None \notin Classes
  BY NoneAssumption DEF Subjects

LEMMA RollbackStep ==
  ASSUME IInv, NEW r \in Reqs, Rollback(r), UNCHANGED <<lapsed, imports>>
  PROVE  Kept
<1>1. AtMostOneEnds
  BY DEF Rollback, AtMostOneEnds
<1>2. BatchesPlaced'
  BY DEF Rollback, IInv, BatchesPlaced
<1> QED BY <1>1, <1>2, Aside DEF Rollback, IInv, TypeOK

LEMMA SemesterStep ==
  ASSUME IInv, NEW s \in Semesters, NEW status \in {"ACTIVE", "ARCHIVED"},
         NEW n \in Weeks, UNCHANGED <<lapsed, imports>>,
         Write([db EXCEPT !.semester[s] = [status |-> status, weeks |-> n]])
  PROVE  Kept
<1>1. db \in DB
  BY DEF IInv, TypeOK
<1>2. [status |-> status, weeks |-> n] \in Semester
  BY BoundsAssumption DEF Semester, Weeks
<1>3. db' = [db EXCEPT !.semester = [@ EXCEPT ![s] = [status |-> status, weeks |-> n]]]
  BY DEF Write
<1>4. /\ db'.class = db.class /\ db'.roster = db.roster /\ db'.schedule = db.schedule
      /\ db'.week = db.week /\ db'.day = db.day /\ db'.batch = db.batch
      /\ db' \in DB
  BY <1>1, <1>2, <1>3 DEF DB
<1>5. BatchesPlaced' /\ AtMostOneEnds
  BY <1>4 DEF IInv, BatchesPlaced, AtMostOneEnds, Write
<1> QED BY <1>4, <1>5, Aside DEF IInv, TypeOK

LEMMA DayStep ==
  ASSUME IInv, NEW s \in Semesters, NEW d \in Days, UNCHANGED <<lapsed, imports>>,
         CreateDay(s, d) \/ DeleteDay(s, d)
  PROVE  Kept
<1>1. db \in DB
  BY DEF IInv, TypeOK
<1>2. PICK days \in {db.day \cup {<<s, d>>}, db.day \ {<<s, d>>}} :
        db' = [db EXCEPT !.day = days] /\ req' = req
  BY DEF CreateDay, DeleteDay, Write
<1>3. db.semester[s].status = "ACTIVE"
  BY DEF CreateDay, DeleteDay
<1>4. /\ db'.class = db.class /\ db'.roster = db.roster /\ db'.schedule = db.schedule
      /\ db'.week = db.week /\ db'.day = days /\ db'.batch = db.batch
  BY <1>1, <1>2 DEF DB
<1>5. db' \in DB
  BY <1>1, <1>2 DEF DB
<1>6. IInv'
  <2>1. BatchesPlaced' /\ AtMostOneEnds
    BY <1>2, <1>4 DEF IInv, BatchesPlaced, AtMostOneEnds
  <2> QED BY <1>4, <1>5, <2>1, OtherCommit DEF IInv, TypeOK
<1>7. \A x : WeekRows(db', x) = WeekRows(db, x)
  BY <1>4 DEF WeekRows
<1>8. Frozen
  <2>1. \A row \in Semesters \X Days : row[1] # s => (row \in db'.day <=> row \in db.day)
    BY <1>2, <1>4
  <2> QED BY <1>1, <1>3, <1>4, <1>5, <1>7, <2>1, OnlyUnder
<1> QED BY <1>6, <1>7, <1>8, NoWeeks DEF Kept

(* What adding or renaming a class of an active semester does. *)
LEMMA ClassStep ==
  ASSUME IInv, AtMostOneEnds, UNCHANGED <<lapsed, imports>>,
         NEW c \in Classes, NEW s \in Semesters, NEW code \in Codes \cup {None},
         db.semester[s].status = "ACTIVE", UniqueKey(s, code),
         db.class[c] = NoClass \/ db.class[c].semester = s,
         db' = ClassAdded(db, c, s, code)
  PROVE  Kept
<1> DEFINE new == [semester |-> s, code |-> code]
<1>1. db \in DB /\ db.class \in [Classes -> TeachingClass]
  BY DEF IInv, TypeOK, DB
<1>2. db' = [db EXCEPT !.class = [@ EXCEPT ![c] = new]] /\ new \in TeachingClass
  BY DEF ClassAdded, TeachingClass
<1>3. /\ db'.class = [db.class EXCEPT ![c] = new]
      /\ db'.roster = db.roster /\ db'.schedule = db.schedule
      /\ db'.week = db.week /\ db'.day = db.day /\ db'.batch = db.batch
      /\ db' \in DB
  BY <1>1, <1>2 DEF DB
<1>4. IInv'
  <2>1. BatchesPlaced'
    BY <1>3 DEF IInv, BatchesPlaced
  <2> QED BY <1>3, <2>1, ClassCommit DEF IInv, TypeOK
<1>5. \A x : WeekRows(db', x) = WeekRows(db, x)
  BY <1>3 DEF WeekRows
<1>6. \A d \in Classes : d # c => db'.class[d] = db.class[d]
  BY <1>1, <1>3
<1>7. Under(db.class[c], s) /\ Under(db'.class[c], s)
  BY <1>1, <1>3, NoClassUnplaced DEF Under
<1>8. Frozen
  BY <1>1, <1>3, <1>5, <1>6, <1>7, OnlyUnder
<1> QED BY <1>4, <1>5, <1>8, NoWeeks DEF Kept

LEMMA CreateTeachingClassStep ==
  ASSUME IInv, NEW r \in Reqs, NEW c \in Classes, NEW s \in Semesters,
         NEW code \in Codes \cup {None}, CreateTeachingClass(r, c, s, code),
         UNCHANGED <<lapsed, imports>>
  PROVE  Kept
  BY ClassStep DEF CreateTeachingClass, ActiveSemester, Commit, AtMostOneEnds

LEMMA UpdateTeachingClassStep ==
  ASSUME IInv, NEW c \in Classes, NEW code \in Codes,
         UpdateTeachingClass(c, code), UNCHANGED <<lapsed, imports>>
  PROVE  Kept
<1> DEFINE s == db.class[c].semester
<1>1. s \in Semesters /\ db.semester[s].status = "ACTIVE" /\ UniqueKey(s, code)
  BY DEF UpdateTeachingClass, IInv, ClassesPlaced
<1>2. [db.class[c] EXCEPT !.code = code] = [semester |-> s, code |-> code]
  BY DEF IInv, TypeOK, DB, TeachingClass
<1>3. db' = ClassAdded(db, c, s, code) /\ req' = req
  BY <1>2 DEF UpdateTeachingClass, Write, ClassAdded
<1> QED BY <1>1, <1>3, ClassStep DEF AtMostOneEnds

(* A roster is replaced or imported. *)
LEMMA RosterStep ==
  ASSUME IInv, NEW r \in Reqs, NEW c \in Classes, NEW new \in SUBSET Students,
         db.class[c].semester \in Semesters =>
           ActiveSemester(r, db.class[c].semester),
         AtMostOneEnds, lapsed' \subseteq Batches, imports' \in [Batches -> Nat],
         NEW batches \in [Batches -> Batch],
         \A b \in Batches : Placed(batches[b]),
         db' = [RosterSet(r, c, new) EXCEPT !.batch = batches]
  PROVE  Kept
<1> DEFINE rosters == [db.roster EXCEPT ![c] = (@ \ View(r).roster[c]) \cup new]
<1>1. db \in DB
  BY DEF IInv, TypeOK
<1>2. rosters \in [Classes -> SUBSET Students]
  BY <1>1 DEF DB
<1>3. db' = [db EXCEPT !.roster = rosters, !.batch = batches]
  BY DEF RosterSet
<1>4. \A d \in Classes : d # c => rosters[d] = db.roster[d]
  BY <1>1 DEF DB
<1> HIDE DEF rosters
<1>5. /\ db'.class = db.class /\ db'.roster = rosters /\ db'.schedule = db.schedule
      /\ db'.week = db.week /\ db'.day = db.day /\ db'.batch = batches
  BY <1>1, <1>3 DEF DB
<1>6. db' \in DB
  BY <1>1, <1>2, <1>3 DEF DB
<1>7. IInv'
  <2>1. BatchesPlaced'
    BY <1>5 DEF BatchesPlaced
  <2> QED BY <1>5, <1>6, <2>1, OtherCommit
<1>8. \A x : WeekRows(db', x) = WeekRows(db, x)
  BY <1>5 DEF WeekRows
<1>9. Frozen
  BY <1>1, <1>4, <1>5, <1>6, <1>8, OnlyUnder DEF ActiveSemester, Under
<1> QED BY <1>7, <1>8, <1>9, NoWeeks DEF Kept

LEMMA ReplaceRosterStep ==
  ASSUME IInv, NEW r \in Reqs, NEW c \in Classes, NEW new \in SUBSET Students,
         ReplaceRoster(r, c, new), UNCHANGED <<lapsed, imports>>
  PROVE  Kept
<1>1. db' = [RosterSet(r, c, new) EXCEPT !.batch = db.batch]
  BY DEF ReplaceRoster, Commit, RosterSet, IInv, TypeOK, DB
<1>2. AtMostOneEnds /\ ActiveSemester(r, db.class[c].semester)
  BY DEF ReplaceRoster, Commit, AtMostOneEnds
<1>3. db.batch \in [Batches -> Batch] /\ lapsed' \subseteq Batches /\ imports' \in [Batches -> Nat]
  BY DEF IInv, TypeOK, DB
<1> QED BY <1>1, <1>2, <1>3, RosterStep DEF IInv, BatchesPlaced
-----------------------------------------------------------------------------
(* Steps on the timetable *)

LEMMA NextSerialTyped ==
  ASSUME IInv, NEW x \in Schedules, NEW new \in SUBSET Weeks, NextSerial(new) <= MaxSerial
  PROVE  /\ NextSerial(new) \in 0 .. MaxSerial
         /\ WeekInserts(x, new) \subseteq Schedules \X Weeks \X (1 .. MaxSerial)
<1>1. db.serial \in 0 .. MaxSerial /\ MaxSerial \in Nat
  BY BoundsAssumption DEF IInv, TypeOK, DB
<1>2. new # {} => db.serial + 1 \in 1 .. MaxSerial
  BY <1>1 DEF NextSerial
<1> QED BY <1>1, <1>2 DEF NextSerial, WeekInserts

(* A timetable entry is added under an active semester, to a class that is  *)
(* there or is added with it.                                               *)
LEMMA EntryStep ==
  ASSUME IInv, AtMostOneEnds, lapsed' \subseteq Batches, imports' \in [Batches -> Nat],
         NEW s \in Semesters, db.semester[s].status = "ACTIVE",
         NEW x \in Schedules, NEW c \in Classes, NEW new \in SUBSET Weeks,
         WeeksValid(s, new), FreshSchedule(x, new),
         NEW code \in Codes \cup {None}, NEW classes,
         \/ classes = db.class /\ db.class[c].semester = s
         \/ /\ classes = [db.class EXCEPT ![c] = [semester |-> s, code |-> code]]
            /\ db.class[c] = NoClass /\ UniqueKey(s, code),
         NEW batches \in [Batches -> Batch],
         \A b \in Batches : Placed(batches[b]),
         db' = [db EXCEPT !.class = classes, !.batch = batches,
                          !.schedule = [@ EXCEPT ![x] = c],
                          !.week = @ \cup WeekInserts(x, new),
                          !.serial = NextSerial(new)]
  PROVE  Kept
<1> DEFINE schedules == [db.schedule EXCEPT ![x] = c]
           weeks == db.week \cup WeekInserts(x, new)
<1>1. db \in DB
  BY DEF IInv, TypeOK
<1>2. classes \in [Classes -> TeachingClass]
  BY <1>1 DEF DB, TeachingClass
<1>3. schedules \in [Schedules -> Classes \cup {None}]
  BY <1>1 DEF DB
<1>4. /\ weeks \in SUBSET (Schedules \X Weeks \X (1 .. MaxSerial))
      /\ NextSerial(new) \in 0 .. MaxSerial
  BY <1>1, NextSerialTyped DEF DB, FreshSchedule
<1>5. /\ db.schedule[x] = None /\ schedules[x] = c
      /\ \A y \in Schedules : y # x => schedules[y] = db.schedule[y]
  BY <1>1 DEF DB, FreshSchedule
<1>6. /\ classes[c].semester = s
      /\ \A d \in Classes : d # c => classes[d] = db.class[d]
      /\ classes[c] = db.class[c] \/ db.class[c] = NoClass
  BY <1>1 DEF DB
<1> HIDE DEF schedules, weeks
<1>7. db' = [db EXCEPT !.class = classes, !.batch = batches, !.schedule = schedules,
                       !.week = weeks, !.serial = NextSerial(new)]
  BY DEF schedules, weeks
<1>8. /\ db'.class = classes /\ db'.roster = db.roster /\ db'.schedule = schedules
      /\ db'.week = weeks /\ db'.day = db.day /\ db'.batch = batches
  BY <1>1, <1>7 DEF DB
<1>9. db' \in DB
  BY <1>1, <1>2, <1>3, <1>4, <1>7 DEF DB
<1>10. IInv'
  <2>1. BatchesPlaced'
    BY <1>8 DEF BatchesPlaced
  <2>2. CASE classes = db.class
    BY <2>1, <2>2, <1>8, <1>9, OtherCommit
  <2>3. CASE /\ classes = [db.class EXCEPT ![c] = [semester |-> s, code |-> code]]
             /\ db.class[c] = NoClass /\ UniqueKey(s, code)
    BY <2>1, <2>3, <1>8, <1>9, ClassCommit
  <2> QED BY <2>2, <2>3
<1>11. \A y \in Schedules : y # x => WeekRows(db', y) = WeekRows(db, y)
  BY <1>8 DEF WeekRows, WeekInserts, weeks
<1>12. Frozen
  <2>1. \A d \in Classes :
           \/ db'.class[d] = db.class[d] /\ db'.roster[d] = db.roster[d]
           \/ Under(db.class[d], s) /\ Under(db'.class[d], s)
    BY <1>6, <1>8, NoClassUnplaced DEF Under
  <2>2. EntryUnder(db, x, s) /\ EntryUnder(db', x, s)
    BY <1>5, <1>6, <1>8, NoneApart DEF EntryUnder, Under
  <2>3. db.semester[s].status # "ARCHIVED"
    OBVIOUS
  <2> QED BY <1>1, <1>5, <1>8, <1>9, <1>11, <2>1, <2>2, <2>3, OnlyUnder
<1>13. Fitting
  <2> SUFFICES ASSUME NEW y \in Schedules, db'.schedule[y] # None
               PROVE  WeekNos(db', y) \ WeekNos(db, y)
                        \subseteq 1 .. db.semester[SemesterOf(db', y)].weeks
    BY DEF Fitting
  <2>1. CASE y # x
    BY <2>1, <1>11 DEF WeekNos
  <2>2. CASE y = x
    <3>1. SemesterOf(db', x) = s
      BY <1>5, <1>6, <1>8 DEF SemesterOf
    <3>2. WeekRows(db', x) = WeekRows(db, x) \cup WeekInserts(x, new)
      BY <1>8 DEF WeekRows, WeekInserts, weeks
    <3>3. ASSUME NEW w \in WeekNos(db', x)
          PROVE  w \in WeekNos(db, x) \cup new
      <4>1. PICK row \in WeekRows(db', x) : w = row[2]
        BY DEF WeekNos
      <4>2. CASE row \in WeekRows(db, x)
        BY <4>1, <4>2 DEF WeekNos
      <4>3. CASE row \in WeekInserts(x, new)
        BY <4>1, <4>3 DEF WeekInserts
      <4> QED BY <3>2, <4>1, <4>2, <4>3
    <3> QED BY <2>2, <3>1, <3>3 DEF WeeksValid
  <2> QED BY <2>1, <2>2
<1> QED BY <1>10, <1>12, <1>13 DEF Kept

LEMMA CreateScheduleStep ==
  ASSUME IInv, NEW x \in Schedules, NEW c \in Classes, NEW new \in SUBSET Weeks,
         CreateSchedule(x, c, new), UNCHANGED <<lapsed, imports>>
  PROVE  Kept
<1> DEFINE s == db.class[c].semester
<1>1. /\ s \in Semesters /\ db.semester[s].status = "ACTIVE"
      /\ WeeksValid(s, new) /\ FreshSchedule(x, new)
  BY DEF CreateSchedule, IInv, ClassesPlaced
<1>2. db' = [db EXCEPT !.class = db.class, !.batch = db.batch,
                       !.schedule = [@ EXCEPT ![x] = c],
                       !.week = @ \cup WeekInserts(x, new),
                       !.serial = NextSerial(new)]
  BY DEF CreateSchedule, Write, ScheduleAdded, IInv, TypeOK, DB
<1>3. /\ AtMostOneEnds /\ lapsed' \subseteq Batches /\ imports' \in [Batches -> Nat]
      /\ db.batch \in [Batches -> Batch]
      /\ \A b \in Batches : Placed(db.batch[b])
  BY DEF CreateSchedule, Write, AtMostOneEnds, IInv, TypeOK, DB, BatchesPlaced
<1>4. None \in Codes \cup {None}
  OBVIOUS
<1> HIDE DEF s
<1>5. db.class[c].semester = s
  BY DEF s
<1> QED BY <1>1, <1>2, <1>3, <1>4, <1>5, EntryStep

(* The weeks of an entry change, or the entry is deleted with them. *)
LEMMA EntryChanged ==
  ASSUME IInv, AtMostOneEnds, UNCHANGED <<lapsed, imports>>,
         NEW x \in Schedules, db.schedule[x] # None,
         db.semester[SemesterOf(db, x)].status = "ACTIVE",
         NEW schedules \in [Schedules -> Classes \cup {None}],
         schedules[x] \in {db.schedule[x], None},
         \A y \in Schedules : y # x => schedules[y] = db.schedule[y],
         NEW weeks \in SUBSET (Schedules \X Weeks \X (1 .. MaxSerial)),
         \A row \in weeks : row \in db.week \/ row[1] = x,
         \A row \in db.week : row \in weeks \/ row[1] = x,
         NEW deleted \in SUBSET Schedules, NEW serial \in 0 .. MaxSerial,
         db' = [db EXCEPT !.schedule = schedules, !.week = weeks,
                          !.deleted = deleted, !.serial = serial],
         schedules[x] # None =>
           WeekNos(db', x) \ WeekNos(db, x) \subseteq 1 .. db.semester[SemesterOf(db, x)].weeks
  PROVE  Kept
<1> DEFINE s == SemesterOf(db, x)
<1>1. db \in DB
  BY DEF IInv, TypeOK
<1>2. /\ db'.class = db.class /\ db'.roster = db.roster /\ db'.schedule = schedules
      /\ db'.week = weeks /\ db'.day = db.day /\ db'.batch = db.batch
  BY <1>1 DEF DB
<1>3. db' \in DB
  BY <1>1 DEF DB
<1>4. IInv'
  <2>1. BatchesPlaced'
    BY <1>2 DEF IInv, BatchesPlaced
  <2> QED BY <1>2, <1>3, <2>1, OtherCommit DEF IInv, TypeOK
<1>5. \A y \in Schedules : y # x => WeekRows(db', y) = WeekRows(db, y)
  BY <1>2 DEF WeekRows
<1>6. Frozen
  <2>1. EntryUnder(db, x, s) /\ EntryUnder(db', x, s)
    BY <1>2, NoneApart DEF EntryUnder, Under, SemesterOf
  <2>2. db.semester[s].status # "ARCHIVED"
    OBVIOUS
  <2> QED BY <1>1, <1>2, <1>3, <1>5, <2>1, <2>2, OnlyUnder
<1>7. Fitting
  <2> SUFFICES ASSUME NEW y \in Schedules, db'.schedule[y] # None
               PROVE  WeekNos(db', y) \ WeekNos(db, y)
                        \subseteq 1 .. db.semester[SemesterOf(db', y)].weeks
    BY DEF Fitting
  <2>1. CASE y # x
    BY <2>1, <1>5 DEF WeekNos
  <2>2. CASE y = x
    <3>1. schedules[x] # None
      BY <1>2, <2>2
    <3>2. SemesterOf(db', x) = SemesterOf(db, x)
      BY <1>2, <3>1 DEF SemesterOf
    <3> QED BY <2>2, <3>1, <3>2
  <2> QED BY <2>1, <2>2
<1> QED BY <1>4, <1>6, <1>7 DEF Kept

LEMMA UpdateScheduleStep ==
  ASSUME IInv, NEW r \in Reqs, NEW x \in Schedules, NEW new \in SUBSET Weeks,
         UpdateSchedule(r, x, new), UNCHANGED <<lapsed, imports>>
  PROVE  Kept
<1> DEFINE weeks == (db.week \ View(r).week) \cup WeekInserts(x, new)
<1>1. db \in DB
  BY DEF IInv, TypeOK
<1>2. /\ db.schedule[x] # None /\ db.semester[SemesterOf(db, x)].status = "ACTIVE"
      /\ WeeksValid(SemesterOf(db, x), new) /\ AtMostOneEnds
  BY DEF UpdateSchedule, ActiveSemester, Commit, AtMostOneEnds
<1>3. /\ weeks \in SUBSET (Schedules \X Weeks \X (1 .. MaxSerial))
      /\ NextSerial(new) \in 0 .. MaxSerial
  BY <1>1, NextSerialTyped DEF DB, UpdateSchedule
<1>4. /\ \A row \in weeks : row \in db.week \/ row[1] = x
      /\ \A row \in db.week : row \in weeks \/ row[1] = x
  BY DEF WeekInserts, IInv, SnapshotWeeks, UpdateSchedule, Handles
<1>5. db' = [db EXCEPT !.schedule = db.schedule, !.week = weeks,
                       !.deleted = db.deleted, !.serial = NextSerial(new)]
  BY <1>1 DEF UpdateSchedule, Commit, DB
<1>6. WeekNos(db', x) \ WeekNos(db, x) \subseteq 1 .. db.semester[SemesterOf(db, x)].weeks
  <2>1. WeekRows(db', x) \subseteq WeekRows(db, x) \cup WeekInserts(x, new)
    BY <1>1, <1>5 DEF WeekRows, DB
  <2>2. WeekNos(db', x) \subseteq WeekNos(db, x) \cup new
    BY <2>1 DEF WeekNos, WeekInserts
  <2> QED BY <2>2, <1>2 DEF WeeksValid
<1>7. /\ db.schedule \in [Schedules -> Classes \cup {None}]
      /\ db.deleted \in SUBSET Schedules
  BY <1>1 DEF DB
<1> HIDE DEF weeks
<1> QED BY <1>2, <1>3, <1>4, <1>5, <1>6, <1>7, EntryChanged

LEMMA DeleteScheduleStep ==
  ASSUME IInv, NEW x \in Schedules, DeleteSchedule(x), UNCHANGED <<lapsed, imports>>
  PROVE  Kept
<1> DEFINE weeks == db.week \ WeekRows(db, x)
           schedules == [db.schedule EXCEPT ![x] = None]
           deleted == db.deleted \cup {x}
<1>1. db \in DB
  BY DEF IInv, TypeOK
<1>2. /\ db.schedule[x] # None /\ db.semester[SemesterOf(db, x)].status = "ACTIVE"
      /\ AtMostOneEnds
  BY DEF DeleteSchedule, Write, AtMostOneEnds
<1>3. /\ weeks \in SUBSET (Schedules \X Weeks \X (1 .. MaxSerial))
      /\ schedules \in [Schedules -> Classes \cup {None}] /\ schedules[x] = None
      /\ \A y \in Schedules : y # x => schedules[y] = db.schedule[y]
      /\ deleted \in SUBSET Schedules /\ db.serial \in 0 .. MaxSerial
  BY <1>1 DEF DB
<1>4. /\ \A row \in weeks : row \in db.week \/ row[1] = x
      /\ \A row \in db.week : row \in weeks \/ row[1] = x
  BY DEF WeekRows
<1>5. db' = [db EXCEPT !.schedule = schedules, !.week = weeks,
                       !.deleted = deleted, !.serial = db.serial]
  BY <1>1 DEF DeleteSchedule, Write, DB
<1> HIDE DEF weeks, schedules, deleted
<1> QED BY <1>2, <1>3, <1>4, <1>5, EntryChanged
-----------------------------------------------------------------------------
(* Steps of the importer *)

LEMMA PhaseChange ==
  ASSUME IInv, NEW b \in Batches, NEW new \in Batch,
         Placed(new)
  PROVE  LET batches == [db.batch EXCEPT ![b] = new] IN
         /\ batches \in [Batches -> Batch]
         /\ \A a \in Batches : Placed(batches[a])
  BY DEF IInv, TypeOK, DB, BatchesPlaced

(* A batch changes and nothing else of the database. *)
LEMMA BatchStep ==
  ASSUME IInv, AtMostOneEnds, lapsed' \subseteq Batches, imports' \in [Batches -> Nat],
         NEW b \in Batches, NEW new \in Batch,
         Placed(new),
         db' = [db EXCEPT !.batch = [@ EXCEPT ![b] = new]]
  PROVE  Kept
<1> DEFINE batches == [db.batch EXCEPT ![b] = new]
<1>1. /\ batches \in [Batches -> Batch]
      /\ \A a \in Batches : Placed(batches[a])
  BY PhaseChange
<1>2. db \in DB /\ db' = [db EXCEPT !.batch = batches]
  BY DEF IInv, TypeOK
<1> HIDE DEF batches
<1>3. /\ db'.class = db.class /\ db'.roster = db.roster /\ db'.schedule = db.schedule
      /\ db'.week = db.week /\ db'.day = db.day /\ db'.batch = batches
      /\ db' \in DB
  BY <1>1, <1>2 DEF DB
<1>4. BatchesPlaced'
  BY <1>1, <1>3 DEF BatchesPlaced
<1> QED BY <1>3, <1>4, Aside

LEMMA PreviewRosterStep ==
  ASSUME IInv, NEW b \in Batches, NEW c \in Classes, NEW students \in SUBSET Students,
         PreviewRoster(b, c, students)
  PROVE  Kept
<1> DEFINE new == [NoBatch EXCEPT !.status = "PREVIEW", !.target = "roster",
                                  !.class = c, !.students = students]
<1>1. new \in Batch /\ Placed(new)
  BY DEF NoBatch, Batch, Placed
<1>2. /\ db' = [db EXCEPT !.batch = [@ EXCEPT ![b] = new]] /\ AtMostOneEnds
      /\ UNCHANGED <<lapsed, imports>>
  BY DEF PreviewRoster, Write, AtMostOneEnds
<1> HIDE DEF new
<1> QED BY <1>1, <1>2, BatchStep DEF IInv, TypeOK

LEMMA PreviewTimetableStep ==
  ASSUME IInv, NEW b \in Batches, NEW s \in Semesters, NEW code \in Codes,
         NEW cell \in WeekCells, PreviewTimetable(b, s, code, cell)
  PROVE  Kept
<1> DEFINE weeks == ParseWeeks(cell, db.semester[s].weeks)
           new == [NoBatch EXCEPT !.status = "PREVIEW", !.target = "timetable",
                                  !.errors = weeks = {}, !.semester = s,
                                  !.code = code, !.weeks = weeks]
<1>1. weeks \subseteq Weeks
  <2>1. db.semester[s].weeks \in 0 .. MaxWeek
    BY DEF IInv, TypeOK, DB, Semester
  <2>2. cell \in Seq(Int)
    BY CellsAssumption
  <2>3. weeks \subseteq 1 .. db.semester[s].weeks
    BY <2>1, <2>2, WeeksBounded
  <2> QED BY <2>1, <2>3, BoundsAssumption DEF Weeks
<1>2. db' = [db EXCEPT !.batch = [@ EXCEPT ![b] = new]] /\ UNCHANGED <<req, lapsed, imports>>
  BY DEF PreviewTimetable, Write
<1> HIDE DEF weeks
<1>3. new \in Batch /\ Placed(new)
  BY <1>1 DEF NoBatch, Batch, Placed
<1> HIDE DEF new
<1> QED BY <1>2, <1>3, BatchStep DEF IInv, TypeOK, AtMostOneEnds

LEMMA LapseStep ==
  ASSUME IInv, NEW b \in Batches, Lapse(b)
  PROVE  Kept
<1>1. BatchesPlaced' /\ AtMostOneEnds
  BY DEF Lapse, AtMostOneEnds, IInv, BatchesPlaced
<1> QED BY <1>1, Aside DEF Lapse, IInv, TypeOK

LEMMA FinishedTyped ==
  ASSUME NEW status \in {"CONFIRMED", "EXPIRED"}
  PROVE  Finished(status) \in Batch /\ Placed(Finished(status))
  BY DEF Finished, NoBatch, Batch, Placed

LEMMA ConfirmLapsedStep ==
  ASSUME IInv, NEW r \in Reqs, NEW b \in Batches, ConfirmLapsed(r, b)
  PROVE  Kept
<1> DEFINE new == Finished("EXPIRED")
<1>1. db' = [db EXCEPT !.batch = [@ EXCEPT ![b] = new]] /\ AtMostOneEnds
  BY DEF ConfirmLapsed, Commit, AtMostOneEnds
<1>2. new \in Batch /\ Placed(new)
  BY FinishedTyped
<1> HIDE DEF new
<1> QED BY <1>1, <1>2, BatchStep DEF ConfirmLapsed, IInv, TypeOK

LEMMA ConfirmRosterStep ==
  ASSUME IInv, NEW r \in Reqs, NEW b \in Batches, ConfirmRoster(r, b)
  PROVE  Kept
<1> DEFINE c == db.batch[b].class
           new == db.batch[b].students
           batches == [db.batch EXCEPT ![b] = Finished("CONFIRMED")]
<1>1. c \in Classes /\ new \in SUBSET Students
  BY DEF IInv, TypeOK, DB, Batch, BatchesPlaced, Placed, ConfirmRoster, LockedBatch
<1>2. ActiveSemester(r, db.class[c].semester) /\ AtMostOneEnds
  BY DEF ConfirmRoster, LockedBatch, Confirmed, Commit, AtMostOneEnds
<1>3. lapsed' \subseteq Batches /\ imports' \in [Batches -> Nat]
  BY DEF ConfirmRoster, Confirmed, IInv, TypeOK
<1>4. db' = [RosterSet(r, c, new) EXCEPT !.batch = batches]
  BY DEF ConfirmRoster, LockedBatch, Confirmed, Commit, RosterSet
<1>5. batches \in [Batches -> Batch] /\ \A a \in Batches : Placed(batches[a])
  BY FinishedTyped, PhaseChange
<1> HIDE DEF c, new, batches
<1> QED BY <1>1, <1>2, <1>3, <1>4, <1>5, RosterStep

LEMMA ConfirmTimetableStep ==
  ASSUME IInv, NEW r \in Reqs, NEW b \in Batches, NEW x \in Schedules,
         NEW c \in Classes, ConfirmTimetable(r, b, x, c)
  PROVE  Kept
<1> DEFINE s == db.batch[b].semester
           code == db.batch[b].code
           new == db.batch[b].weeks
           found == ClassesByKey(View(r), s, code)
           batches == [db.batch EXCEPT ![b] = Finished("CONFIRMED")]
           added == [db.class EXCEPT ![c] = [semester |-> s, code |-> code]]
           Adds(classes) == db' = [db EXCEPT !.class = classes, !.batch = batches,
                                             !.schedule = [@ EXCEPT ![x] = c],
                                             !.week = @ \cup WeekInserts(x, new),
                                             !.serial = NextSerial(new)]
<1>1. /\ s \in Semesters /\ new \in SUBSET Weeks /\ code \in Codes \cup {None}
  BY DEF IInv, TypeOK, DB, Batch, BatchesPlaced, Placed, ConfirmTimetable, LockedBatch
<1>2. /\ db.semester[s].status = "ACTIVE" /\ WeeksValid(s, new) /\ FreshSchedule(x, new)
  BY DEF ConfirmTimetable, LockedBatch, ActiveSemester, StillFits
<1>3. AtMostOneEnds /\ lapsed' \subseteq Batches /\ imports' \in [Batches -> Nat]
  BY DEF ConfirmTimetable, Confirmed, Commit, AtMostOneEnds, IInv, TypeOK
<1>4. batches \in [Batches -> Batch] /\ \A a \in Batches : Placed(batches[a])
  BY FinishedTyped, PhaseChange
<1>5. CASE c \in found /\ Confirmed(r, b, ScheduleAdded(db, x, c, new))
  <2>1. Adds(db.class)
    BY <1>5 DEF Confirmed, Commit, ScheduleAdded, IInv, TypeOK, DB
  <2>2. View(r).class[c] = [semester |-> s, code |-> code]
    BY <1>5 DEF ClassesByKey
  <2>3. View(r).class[c] # NoClass
    BY <1>1, <2>2, NoClassUnplaced
  <2>4. db.class[c].semester = s
    BY <2>2, <2>3 DEF IInv, SnapshotClasses
  <2> HIDE DEF s, code, new, found, batches
  <2> QED BY <1>1, <1>2, <1>3, <1>4, <2>1, <2>4, EntryStep
<1>6. CASE /\ UniqueKey(s, code) /\ db.class[c] = NoClass
           /\ Confirmed(r, b, ScheduleAdded(ClassAdded(db, c, s, code), x, c, new))
  <2>1. Adds(added)
    BY <1>6 DEF Confirmed, Commit, ScheduleAdded, ClassAdded, IInv, TypeOK, DB
  <2> HIDE DEF s, code, new, found, batches
  <2> QED BY <1>1, <1>2, <1>3, <1>4, <1>6, <2>1, EntryStep
<1> QED BY <1>5, <1>6 DEF ConfirmTimetable, LockedBatch
-----------------------------------------------------------------------------
(* The invariant, and what follows from it *)

LEMMA AcademicStep ==
  ASSUME IInv, AcademicNext, UNCHANGED <<lapsed, imports>>
  PROVE  IInv' /\ Frozen /\ Fitting
<1>1. ASSUME NEW r \in Reqs, NEW k \in Kinds, NEW subject \in Subjects,
             Known(k, subject), Begin(r, k, subject)
      PROVE  Kept
  <2>1. db' = db
    BY <1>1 DEF Begin
  <2>2. IInv'
    BY <1>1, BeginStep
  <2>3. Frozen /\ Fitting
    BY <2>1, NoWeeks DEF Frozen
  <2> QED BY <2>2, <2>3 DEF Kept
<1>2. ASSUME NEW r \in Reqs, Rollback(r) PROVE Kept
  BY <1>2, RollbackStep
<1>3. ASSUME NEW s \in Semesters, NEW n \in Weeks, CreateSemester(s, n) PROVE Kept
  BY <1>3, SemesterStep DEF CreateSemester
<1>4. ASSUME NEW s \in Semesters, NEW status \in {"ACTIVE", "ARCHIVED"}, NEW n \in Weeks,
             UpdateSemester(s, status, n)
      PROVE  Kept
  BY <1>4, SemesterStep DEF UpdateSemester
<1>5. ASSUME NEW s \in Semesters, NEW d \in Days, CreateDay(s, d) \/ DeleteDay(s, d)
      PROVE  Kept
  BY <1>5, DayStep
<1>6. ASSUME NEW r \in Reqs, NEW c \in Classes, NEW s \in Semesters,
             NEW code \in Codes \cup {None}, CreateTeachingClass(r, c, s, code)
      PROVE  Kept
  BY <1>6, CreateTeachingClassStep
<1>7. ASSUME NEW c \in Classes, NEW code \in Codes, UpdateTeachingClass(c, code)
      PROVE  Kept
  BY <1>7, UpdateTeachingClassStep
<1>8. ASSUME NEW r \in Reqs, NEW c \in Classes, NEW new \in SUBSET Students,
             ReplaceRoster(r, c, new)
      PROVE  Kept
  BY <1>8, ReplaceRosterStep
<1>9. ASSUME NEW x \in Schedules, NEW c \in Classes, NEW new \in SUBSET Weeks,
             CreateSchedule(x, c, new)
      PROVE  Kept
  BY <1>9, CreateScheduleStep
<1>10. ASSUME NEW r \in Reqs, NEW x \in Schedules, NEW new \in SUBSET Weeks,
              UpdateSchedule(r, x, new)
       PROVE  Kept
  BY <1>10, UpdateScheduleStep
<1>11. ASSUME NEW x \in Schedules, DeleteSchedule(x) PROVE Kept
  BY <1>11, DeleteScheduleStep
<1>12. Kept
  BY <1>1, <1>2, <1>3, <1>4, <1>5, <1>6, <1>7, <1>8, <1>9, <1>10, <1>11
  DEF AcademicNext
<1> QED BY <1>12 DEF Kept

LEMMA Step == IInv /\ [Next]_vars => IInv' /\ Frozen /\ Fitting
<1> SUFFICES ASSUME IInv, [Next]_vars PROVE Kept
  BY DEF Kept
<1>1. CASE AcademicNext /\ UNCHANGED <<lapsed, imports>>
  BY <1>1, AcademicStep DEF Kept
<1>2. ASSUME NEW b \in Batches, NEW c \in Classes, NEW students \in SUBSET Students,
             PreviewRoster(b, c, students)
      PROVE  Kept
  BY <1>2, PreviewRosterStep
<1>3. ASSUME NEW b \in Batches, NEW s \in Semesters, NEW code \in Codes,
             NEW cell \in WeekCells, PreviewTimetable(b, s, code, cell)
      PROVE  Kept
  BY <1>3, PreviewTimetableStep
<1>4. ASSUME NEW b \in Batches, Lapse(b) PROVE Kept
  BY <1>4, LapseStep
<1>5. ASSUME NEW r \in Reqs, NEW b \in Batches, ConfirmLapsed(r, b) PROVE Kept
  BY <1>5, ConfirmLapsedStep
<1>6. ASSUME NEW r \in Reqs, NEW b \in Batches, ConfirmRoster(r, b) PROVE Kept
  BY <1>6, ConfirmRosterStep
<1>7. ASSUME NEW r \in Reqs, NEW b \in Batches, NEW x \in Schedules, NEW c \in Classes,
             ConfirmTimetable(r, b, x, c)
      PROVE  Kept
  BY <1>7, ConfirmTimetableStep
<1>8. CASE UNCHANGED vars
  <2>1. BatchesPlaced' /\ AtMostOneEnds
    BY <1>8 DEF vars, AtMostOneEnds, IInv, BatchesPlaced
  <2> QED BY <1>8, <2>1, Aside DEF vars, IInv, TypeOK
<1> QED
  BY <1>1, <1>2, <1>3, <1>4, <1>5, <1>6, <1>7, <1>8 DEF Next

LEMMA Invariant == Spec => []IInv
<1>1. IInv /\ [Next]_vars => IInv'
  BY Step
<1> QED BY <1>1, Start, PTL DEF Spec

(* The rows and the snapshots keep their types; in particular a preview     *)
(* never holds a week outside the semester it was read for, whatever the    *)
(* week cell says (create_preview, parse_weeks).                            *)
THEOREM TypeCorrect == Spec => []TypeOK
<1>1. IInv => TypeOK
  BY DEF IInv
<1> QED BY <1>1, Invariant, PTL

(* Two teaching classes of a semester never share a course and class code,  *)
(* however many are created, renamed and imported at once                   *)
(* (create_teaching_class, update_teaching_class, _apply_timetable).        *)
THEOREM OneClassPerKey == Spec => []KeysUnique
<1>1. IInv => KeysUnique
  BY DEF IInv
<1> QED BY <1>1, Invariant, PTL

(* No handler and no import changes what is under an archived semester,     *)
(* whenever it began (_require_active_semester).                            *)
THEOREM ArchiveIsHistory == Spec => ArchivedFrozen
<1>1. IInv /\ [Next]_vars => Frozen
  BY Step
<1>2. ArchivedFrozen <=> [][Frozen]_vars
  BY PTL DEF ArchivedFrozen, Frozen
<1> QED BY <1>1, <1>2, Invariant, PTL DEF Spec

(* Every week that is written lies within the semester as it then is        *)
(* (_validate_schedule_periods, _apply_timetable).                          *)
THEOREM WeeksStayInSemester == Spec => WeeksFit
<1>1. IInv /\ [Next]_vars => Fitting
  BY Step
<1>2. WeeksFit <=> [][Fitting]_vars
  BY PTL DEF WeeksFit, Fitting
<1> QED BY <1>1, <1>2, Invariant, PTL DEF Spec
-----------------------------------------------------------------------------
(* Batches *)

LEMMA PhaseCases ==
  ASSUME db.batch \in [Batches -> Batch], NEW b \in Batches
  PROVE  /\ db.batch[b].status = "NONE" => BatchPhase[b] = "unissued"
         /\ db.batch[b].status = "PREVIEW" => BatchPhase[b] = "open"
         /\ db.batch[b].status = "CONFIRMED" => BatchPhase[b] = "spent"
         /\ db.batch[b].status = "EXPIRED" => BatchPhase[b] = "void"
  BY DEF BatchPhase

LEMMA AcademicLeavesBatches ==
  ASSUME IInv, AcademicNext
  PROVE  db'.batch = db.batch
<1>1. db \in DB
  BY DEF IInv, TypeOK
<1> USE DEF Write, Commit, DB
<1>2. ASSUME NEW r \in Reqs, NEW k, NEW subject, Begin(r, k, subject)
      PROVE  db'.batch = db.batch
  BY <1>2 DEF Begin
<1>3. ASSUME NEW r \in Reqs, Rollback(r) PROVE db'.batch = db.batch
  BY <1>3 DEF Rollback
<1>4. ASSUME NEW s \in Semesters, NEW n, CreateSemester(s, n)
      PROVE  db'.batch = db.batch
  BY <1>1, <1>4 DEF CreateSemester
<1>5. ASSUME NEW s \in Semesters, NEW status, NEW n, UpdateSemester(s, status, n)
      PROVE  db'.batch = db.batch
  BY <1>1, <1>5 DEF UpdateSemester
<1>6. ASSUME NEW s \in Semesters, NEW d, CreateDay(s, d) \/ DeleteDay(s, d)
      PROVE  db'.batch = db.batch
  BY <1>1, <1>6 DEF CreateDay, DeleteDay
<1>7. ASSUME NEW r \in Reqs, NEW c \in Classes, NEW s, NEW code,
             CreateTeachingClass(r, c, s, code)
      PROVE  db'.batch = db.batch
  BY <1>1, <1>7 DEF CreateTeachingClass, ClassAdded
<1>8. ASSUME NEW c \in Classes, NEW code, UpdateTeachingClass(c, code)
      PROVE  db'.batch = db.batch
  BY <1>1, <1>8 DEF UpdateTeachingClass
<1>9. ASSUME NEW r \in Reqs, NEW c \in Classes, NEW new, ReplaceRoster(r, c, new)
      PROVE  db'.batch = db.batch
  BY <1>1, <1>9 DEF ReplaceRoster, RosterSet
<1>10. ASSUME NEW x \in Schedules, NEW c, NEW new, CreateSchedule(x, c, new)
       PROVE  db'.batch = db.batch
  BY <1>1, <1>10 DEF CreateSchedule, ScheduleAdded
<1>11. ASSUME NEW r \in Reqs, NEW x \in Schedules, NEW new, UpdateSchedule(r, x, new)
       PROVE  db'.batch = db.batch
  BY <1>1, <1>11 DEF UpdateSchedule
<1>12. ASSUME NEW x \in Schedules, DeleteSchedule(x)
       PROVE  db'.batch = db.batch
  BY <1>1, <1>12 DEF DeleteSchedule
<1> QED
  BY <1>2, <1>3, <1>4, <1>5, <1>6, <1>7, <1>8, <1>9, <1>10, <1>11, <1>12
  DEF AcademicNext

(* A row that is written changes the phase of its batch alone. *)
LEMMA PhaseWritten ==
  ASSUME IInv, NEW b \in Batches, NEW new \in Batch,
         db'.batch = [db.batch EXCEPT ![b] = new]
  PROVE  /\ new.status = "PREVIEW" => BatchPhase' = [BatchPhase EXCEPT ![b] = "open"]
         /\ new.status = "CONFIRMED" => BatchPhase' = [BatchPhase EXCEPT ![b] = "spent"]
         /\ new.status = "EXPIRED" => BatchPhase' = [BatchPhase EXCEPT ![b] = "void"]
<1> DEFINE Phase(status) ==
             CASE status = "NONE"      -> "unissued"
               [] status = "PREVIEW"   -> "open"
               [] status = "CONFIRMED" -> "spent"
               [] status = "EXPIRED"   -> "void"
<1>1. db.batch \in [Batches -> Batch]
  BY DEF IInv, TypeOK, DB
<1>2. /\ BatchPhase = [a \in Batches |-> Phase(db.batch[a].status)]
      /\ BatchPhase' = [a \in Batches |-> Phase(db'.batch[a].status)]
  BY DEF BatchPhase
<1>3. Phase("PREVIEW") = "open" /\ Phase("CONFIRMED") = "spent" /\ Phase("EXPIRED") = "void"
  OBVIOUS
<1> HIDE DEF Phase
<1>4. BatchPhase' = [BatchPhase EXCEPT ![b] = Phase(new.status)]
  BY <1>1, <1>2
<1> QED BY <1>3, <1>4

LEMMA BatchRefinesStep == IInv /\ [Next]_vars => [OneTime!Next]_(OneTime!vars)
<1> SUFFICES ASSUME IInv, [Next]_vars PROVE [OneTime!Next]_(OneTime!vars)
  OBVIOUS
<1> DEFINE Goal == [OneTime!Next]_(OneTime!vars)
<1>1. db \in DB /\ db.batch \in [Batches -> Batch]
  BY DEF IInv, TypeOK, DB
<1>2. ASSUME db'.batch = db.batch, imports' = imports
      PROVE  Goal
  BY <1>2 DEF OneTime!vars, BatchPhase
<1>3. ASSUME NEW b \in Batches, NEW c \in Classes, NEW students \in SUBSET Students,
             PreviewRoster(b, c, students)
      PROVE  OneTime!Issue(b)
  <2> DEFINE new == [NoBatch EXCEPT !.status = "PREVIEW", !.target = "roster",
                                    !.class = c, !.students = students]
  <2>1. db.batch[b].status = "NONE" /\ imports' = imports
        /\ db'.batch = [db.batch EXCEPT ![b] = new]
    BY <1>1, <1>3 DEF PreviewRoster, Write, NoBatch, DB
  <2>2. new \in Batch
    BY DEF NoBatch, Batch
  <2>3. new.status = "PREVIEW"
    BY DEF NoBatch
  <2> HIDE DEF new
  <2> QED BY <1>1, <2>1, <2>2, <2>3, PhaseCases, PhaseWritten DEF OneTime!Issue
<1>4. ASSUME NEW b \in Batches, NEW s \in Semesters, NEW code \in Codes,
             NEW cell \in WeekCells, PreviewTimetable(b, s, code, cell)
      PROVE  OneTime!Issue(b)
  <2> DEFINE weeks == ParseWeeks(cell, db.semester[s].weeks)
             new == [NoBatch EXCEPT !.status = "PREVIEW", !.target = "timetable",
                                    !.errors = weeks = {}, !.semester = s,
                                    !.code = code, !.weeks = weeks]
  <2>1. db.batch[b].status = "NONE" /\ imports' = imports
        /\ db'.batch = [db.batch EXCEPT ![b] = new]
    <3> HIDE DEF weeks
    <3> QED BY <1>1, <1>4 DEF PreviewTimetable, Write, NoBatch, DB, weeks
  <2>2. new.status = "PREVIEW"
    BY DEF NoBatch
  <2>3. new \in Batch
    BY <1>4, PreviewTimetableStep, <2>1, <1>1 DEF Kept, IInv, TypeOK, DB
  <2> QED BY <1>1, <2>1, <2>2, <2>3, PhaseCases, PhaseWritten DEF OneTime!Issue
<1>5. ASSUME NEW r \in Reqs, NEW b \in Batches, ConfirmLapsed(r, b)
      PROVE  OneTime!Void(b)
  <2>1. /\ db.batch[b].status = "PREVIEW" /\ imports' = imports
        /\ db'.batch = [db.batch EXCEPT ![b] = Finished("EXPIRED")]
    BY <1>1, <1>5 DEF ConfirmLapsed, Presents, LockedBatch, Commit, DB
  <2>2. Finished("EXPIRED").status = "EXPIRED"
    BY DEF Finished, NoBatch
  <2> QED BY <1>1, <2>1, <2>2, FinishedTyped, PhaseCases, PhaseWritten
          DEF OneTime!Void
<1>6. ASSUME NEW b \in Batches, db.batch[b].status = "PREVIEW",
             imports' = [imports EXCEPT ![b] = @ + 1],
             db'.batch = [db.batch EXCEPT ![b] = Finished("CONFIRMED")]
      PROVE  OneTime!Spend(b)
  <2>1. Finished("CONFIRMED").status = "CONFIRMED"
    BY DEF Finished, NoBatch
  <2> QED BY <1>1, <1>6, <2>1, FinishedTyped, PhaseCases, PhaseWritten
          DEF OneTime!Spend
<1>7. ASSUME NEW r \in Reqs, NEW b \in Batches, ConfirmRoster(r, b)
      PROVE  OneTime!Spend(b)
  <2>1. db.batch[b].status = "PREVIEW" /\ imports' = [imports EXCEPT ![b] = @ + 1]
    BY <1>7 DEF ConfirmRoster, Presents, LockedBatch, Confirmed
  <2>2. db'.batch = [db.batch EXCEPT ![b] = Finished("CONFIRMED")]
    BY <1>1, <1>7 DEF ConfirmRoster, Confirmed, Commit, RosterSet, DB
  <2> QED BY <2>1, <2>2, <1>6
<1>8. ASSUME NEW r \in Reqs, NEW b \in Batches, NEW x \in Schedules, NEW c \in Classes,
             ConfirmTimetable(r, b, x, c)
      PROVE  OneTime!Spend(b)
  <2>1. db.batch[b].status = "PREVIEW" /\ imports' = [imports EXCEPT ![b] = @ + 1]
    BY <1>8 DEF ConfirmTimetable, Presents, LockedBatch, Confirmed
  <2>2. db'.batch = [db.batch EXCEPT ![b] = Finished("CONFIRMED")]
    BY <1>1, <1>8 DEF ConfirmTimetable, Confirmed, Commit, ScheduleAdded, ClassAdded, DB
  <2> QED BY <2>1, <2>2, <1>6
<1>9. ASSUME UNCHANGED vars \/ (AcademicNext /\ UNCHANGED <<lapsed, imports>>)
      PROVE  Goal
  BY <1>2, <1>9, AcademicLeavesBatches DEF vars
<1>10. ASSUME NEW b \in Batches, Lapse(b)
       PROVE  Goal
  BY <1>2, <1>10 DEF Lapse
<1>11. ASSUME NEW b \in Batches, OneTime!Issue(b) \/ OneTime!Spend(b) \/ OneTime!Void(b)
       PROVE  Goal
  BY <1>11 DEF OneTime!Next
<1> HIDE DEF Goal
<1>12. ASSUME Next PROVE Goal
  <2>1. ASSUME NEW b \in Batches, NEW c \in Classes, NEW students \in SUBSET Students,
               PreviewRoster(b, c, students)
        PROVE  Goal
    BY <2>1, <1>3, <1>11
  <2>2. ASSUME NEW b \in Batches, NEW s \in Semesters, NEW code \in Codes,
               NEW cell \in WeekCells, PreviewTimetable(b, s, code, cell)
        PROVE  Goal
    BY <2>2, <1>4, <1>11
  <2>3. ASSUME NEW r \in Reqs, NEW b \in Batches,
               \/ ConfirmLapsed(r, b) \/ ConfirmRoster(r, b)
               \/ \E x \in Schedules, c \in Classes : ConfirmTimetable(r, b, x, c)
        PROVE  Goal
    BY <2>3, <1>5, <1>7, <1>8, <1>11
  <2> QED BY <1>9, <1>10, <1>12, <2>1, <2>2, <2>3 DEF Next
<1>13. Goal
  BY <1>9, <1>12
<1> QED BY <1>13 DEF Goal

(* An import batch is written once or it expires, and stays what it became, *)
(* also when two requests confirm it at once (confirm reads it FOR UPDATE). *)
THEOREM BatchesApplyOnce == Spec => BatchesAreOneTime
<1>1. Init => OneTime!Init
  BY DEF Init, InitDB, NoBatch, OneTime!Init, BatchPhase
<1>2. IInv /\ [Next]_vars => [OneTime!Next]_(OneTime!vars)
  BY BatchRefinesStep
<1> QED
  BY <1>1, <1>2, Invariant, PTL DEF Spec, BatchesAreOneTime, OneTime!Spec
=============================================================================
