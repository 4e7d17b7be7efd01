----------------------------- MODULE Catalogue ------------------------------
(***************************************************************************)
(* Administrative classes, students and courses of the academic service:   *)
(* they are created and edited one by one, listed page by page, and every  *)
(* change leaves an audit row in its transaction.  Nothing is deleted and  *)
(* a code never changes.                                                   *)
(*                                                                         *)
(* A request that creates a record is two steps, its INSERT, which takes   *)
(* an id and the code's place in the unique index, and its commit.  The    *)
(* code's lookup before the INSERT can refuse earlier but never more: a    *)
(* code that is in the snapshot is still in the table.  A request that     *)
(* edits one begins with a snapshot and then locks the row, writes and     *)
(* commits in one step: nobody else reaches the locked row in between.     *)
(***************************************************************************)
EXTENDS Naturals, FiniteSets

CONSTANTS
  Reqs,       \* requests that write, in progress at the same time
  Codes,      \* [kind |-> class codes, student numbers, course codes]
  Names,      \* [kind |-> names of students and courses, colleges of classes]
  MaxId,      \* [kind |-> number of ids that can be taken], a bound
  Filters,    \* [kind |-> filters a client lists records with]
  PageSize,   \* page_size of the client's walk
  None,       \* SQL NULL, and an absent record
  NotGiven    \* a filter that is not given

Kinds == {"class", "student", "course"}

RecordStatus == {"ACTIVE", "DISABLED"}

Ids(k) == 1 .. MaxId[k]

\* name is class_name with the college of a class, the name of a student, the
\* course_name of a course; cls the class of a student.
Record(k) ==
  [ code : Codes[k], name : Names[k], status : RecordStatus,
    cls : IF k = "student" THEN Ids("class") \cup {None} ELSE {None} ]

ASSUME CatalogueAssumption ==
  /\ MaxId \in [Kinds -> Nat]
  /\ PageSize \in Nat \ {0}
  /\ DOMAIN Codes = Kinds /\ DOMAIN Names = Kinds
  /\ \A k \in Kinds : {None, NotGiven} \cap (Codes[k] \cup Names[k]) = {}
  /\ \A k \in Kinds : None \notin Record(k)

VARIABLES
  rows,     \* kind -> id -> committed record
  taken,    \* kind -> ids handed out by AUTO_INCREMENT, rolled back or not
  audit,    \* the newest audit row
  req,      \* the requests
  walk      \* a client that reads one page after the other

vars == << rows, taken, audit, req, walk >>

Idle == [ pc |-> "idle", kind |-> "class", id |-> 1, record |-> None ]

Committed(k) == { i \in Ids(k) : rows[k][i] # None }

\* The fields an audit row shows: a creation names the code and the name, an
\* update what an update can change.
AuditedCreation(x) == [ name |-> x.name ]
AuditedUpdate(x) == [ name |-> x.name, status |-> x.status, cls |-> x.cls ]

AuditRow(k, i, before, after) == [ kind |-> k, id |-> i, before |-> before, after |-> after ]

(***************************************************************************)
(* Lists                                                                   *)
(***************************************************************************)
\* list_admin_classes and list_courses: the given conditions, in a table t.
Matches(t, k, f, i) ==
  /\ t[k][i] # None
  /\ f.name \in {NotGiven, t[k][i].name}
  /\ f.status \in {NotGiven, t[k][i].status}

\* list_students: a college is that of the class the student is joined with.
StudentMatches(t, f, i) ==
  /\ Matches(t, "student", f, i)
  /\ f.cls \in {NotGiven, t["student"][i].cls}
  /\ \/ f.college = NotGiven
     \/ /\ t["student"][i].cls # None
        /\ t["class"][t["student"][i].cls].name = f.college

Listed(t, k, f) ==
  IF k = "student" THEN { i \in Ids(k) : StudentMatches(t, f, i) }
  ELSE { i \in Ids(k) : Matches(t, k, f, i) }

(* mutant: the records in use come first *)
Earlier_ByStatus(t, k, i, j) ==
  IF t[k][i].status = t[k][j].status THEN i < j ELSE t[k][i].status = "ACTIVE"

\* ORDER BY id.
Earlier(t, k, i, j) == i < j

Offset(page) == (page - 1) * PageSize

\* What one page shows: the count and the items are read in one snapshot.
Items(t, k, f, page) ==
  { i \in Listed(t, k, f) :
      LET before == Cardinality({ j \in Listed(t, k, f) : Earlier(t, k, j, i) })
      IN  Offset(page) <= before /\ before < Offset(page) + PageSize }

(***************************************************************************)
(* The tables and the walk                                                 *)
(***************************************************************************)
NoWalk ==
  [ on |-> FALSE, kind |-> "class", filter |-> None, page |-> 1,
    seen |-> {}, stayed |-> {}, left |-> FALSE ]

Init ==
  /\ rows = [k \in Kinds |-> [i \in Ids(k) |-> None]]
  /\ taken = [k \in Kinds |-> 0]
  /\ audit = None
  /\ req = [r \in Reqs |-> Idle]
  /\ walk = NoWalk

\* The table becomes t.  The walk remembers which of the records its filter
\* shows have been shown all along, and whether one has left the filter.
Store(t) ==
  LET now   == Listed(rows, walk.kind, walk.filter)
      after == Listed(t, walk.kind, walk.filter)
  IN  /\ rows' = t
      /\ walk' = IF walk.on
                 THEN [ walk EXCEPT !.stayed = @ \cap after, !.left = @ \/ now \ after # {} ]
                 ELSE walk

(***************************************************************************)
(* Creation                                                                *)
(***************************************************************************)
(* mutant: the lookup alone, no unique index *)
CodeFree_Lookup(k, c) == \A i \in Committed(k) : rows[k][i].code # c

\* The unique index: neither a committed record nor one whose INSERT has not
\* been committed yet has the code (the second INSERT waits for that).
CodeFree(k, c) ==
  /\ \A i \in Committed(k) : rows[k][i].code # c
  /\ \A q \in Reqs : req[q].pc = "inserted" /\ req[q].kind = k => req[q].record.code # c

\* The INSERT of a new record, ACTIVE, with the next id.
Insert(r, k, c, n, cls) ==
  /\ req[r].pc = "idle"
  /\ taken[k] < MaxId[k]
  /\ CodeFree(k, c)
  /\ taken' = [taken EXCEPT ![k] = @ + 1]
  /\ req' = [req EXCEPT ![r] =
       [ pc |-> "inserted", kind |-> k, id |-> taken[k] + 1,
         record |-> [ code |-> c, name |-> n, status |-> "ACTIVE", cls |-> cls ] ]]
  /\ UNCHANGED << rows, audit, walk >>

CreateAdminClass(r) ==
  \E c \in Codes["class"], n \in Names["class"] : Insert(r, "class", c, n, None)

\* A student may be put in a class that exists.
CreateStudent(r) ==
  \E c \in Codes["student"], n \in Names["student"], cls \in Committed("class") \cup {None} :
    Insert(r, "student", c, n, cls)

CreateCourse(r) ==
  \E c \in Codes["course"], n \in Names["course"] : Insert(r, "course", c, n, None)

\* The audit row of the creation goes into the same commit.
CommitCreation(r) ==
  LET k == req[r].kind
      i == req[r].id
  IN  /\ req[r].pc = "inserted"
      /\ Store([rows EXCEPT ![k][i] = req[r].record])
      /\ audit' = AuditRow(k, i, None, AuditedCreation(req[r].record))
      /\ req' = [req EXCEPT ![r] = Idle]
      /\ UNCHANGED taken

\* The import of a timetable inserts the courses it misses and leaves an audit
\* row of its batch, none of the course.
CommitImportedCourse(r) ==
  /\ req[r].pc = "inserted" /\ req[r].kind = "course"
  /\ Store([rows EXCEPT !["course"][req[r].id] = req[r].record])
  /\ req' = [req EXCEPT ![r] = Idle]
  /\ UNCHANGED << taken, audit >>

(***************************************************************************)
(* Updates                                                                 *)
(***************************************************************************)
\* The transaction of an update begins: what a plain SELECT will see of its record.
Begin(r) ==
  \E k \in Kinds : \E i \in Committed(k) :
    /\ req[r].pc = "idle"
    /\ req' = [req EXCEPT ![r] = [ pc |-> "updating", kind |-> k, id |-> i, record |-> rows[k][i] ]]
    /\ UNCHANGED << rows, taken, audit, walk >>

(* mutant: a plain SELECT *)
Locked_Snapshot(r) == req[r].record

\* SELECT ... FOR UPDATE with populate_existing: the record as it is now.
Locked(r) == rows[req[r].kind][req[r].id]

\* The committed record when the columns in which new differs from old are written.
Written(current, old, new) ==
  [ current EXCEPT !.name = IF new.name = old.name THEN @ ELSE new.name,
                   !.status = IF new.status = old.status THEN @ ELSE new.status,
                   !.cls = IF new.cls = old.cls THEN @ ELSE new.cls ]

\* The row is locked, the given fields are set, the change is audited with
\* what it found and what it left, and both are committed.
Update(r, new) ==
  LET k   == req[r].kind
      i   == req[r].id
      old == Locked(r)
  IN  /\ new.code = old.code
      /\ Store([rows EXCEPT ![k][i] = Written(@, old, new)])
      /\ audit' = AuditRow(k, i, AuditedUpdate(old), AuditedUpdate(new))
      /\ req' = [req EXCEPT ![r] = Idle]
      /\ UNCHANGED taken

Updating(r, k) == req[r].pc = "updating" /\ req[r].kind = k

UpdateAdminClass(r) == Updating(r, "class") /\ \E new \in Record("class") : Update(r, new)

\* A class that is given must exist; null leaves the class as it is.
UpdateStudent(r) ==
  /\ Updating(r, "student")
  /\ \E new \in Record("student") :
       /\ new.cls \in Committed("class") \/ new.cls = Locked(r).cls
       /\ Update(r, new)

UpdateCourse(r) == Updating(r, "course") /\ \E new \in Record("course") : Update(r, new)

\* A check refuses the call, or the request fails: nothing is written, and the
\* id of an INSERT is lost.
Rollback(r) ==
  /\ req[r].pc # "idle"
  /\ req' = [req EXCEPT ![r] = Idle]
  /\ UNCHANGED << rows, taken, audit, walk >>

(***************************************************************************)
(* Walks                                                                   *)
(***************************************************************************)
\* A client begins to read a list.
WalkStart ==
  \E k \in Kinds : \E f \in Filters[k] :
    /\ ~walk.on
    /\ walk' = [ NoWalk EXCEPT !.on = TRUE, !.kind = k, !.filter = f, !.stayed = Listed(rows, k, f) ]
    /\ UNCHANGED << rows, taken, audit, req >>

Through(w) == (w.page - 1) * PageSize >= Cardinality(Listed(rows, w.kind, w.filter))

\* It reads the next page as long as the total it is told says there is one.
WalkPage ==
  /\ walk.on
  /\ walk' = [ walk EXCEPT !.seen = @ \cup Items(rows, walk.kind, walk.filter, walk.page),
                           !.page = @ + 1 ]
  /\ ~Through(walk)
  /\ UNCHANGED << rows, taken, audit, req >>

WalkEnd ==
  /\ walk.on
  /\ Through(walk)
  /\ walk' = NoWalk
  /\ UNCHANGED << rows, taken, audit, req >>

Next ==
  \/ \E r \in Reqs :
       \/ CreateAdminClass(r) \/ CreateStudent(r) \/ CreateCourse(r)
       \/ CommitCreation(r) \/ CommitImportedCourse(r)
       \/ Begin(r) \/ UpdateAdminClass(r) \/ UpdateStudent(r) \/ UpdateCourse(r)
       \/ Rollback(r)
  \/ WalkStart \/ WalkPage \/ WalkEnd

Spec == Init /\ [][Next]_vars

(***************************************************************************)
(* Properties                                                              *)
(***************************************************************************)
TypeOK ==
  /\ DOMAIN rows = Kinds
  /\ \A k \in Kinds : rows[k] \in [Ids(k) -> Record(k) \cup {None}]
  /\ taken \in [Kinds -> Nat]
  /\ DOMAIN req = Reqs
  /\ \A r \in Reqs :
       /\ req[r].pc \in {"idle", "inserted", "updating"}
       /\ req[r].kind \in Kinds
       /\ req[r].pc # "idle" =>
            req[r].id \in Ids(req[r].kind) /\ req[r].record \in Record(req[r].kind)

\* Two records of one kind never share a code, whoever creates or imports them
\* at once (create_admin_class, create_student, create_course, _apply_timetable).
CodesUnique ==
  \A k \in Kinds : \A i, j \in Committed(k) : rows[k][i].code = rows[k][j].code => i = j

\* No edit is lost and none is misreported: when a record changes, the audit row
\* written with the change names what the table really had before it and what
\* it has after it, although two administrators edit the record at once
\* (update_admin_class, update_student, update_course, _record_audit).
AuditTrue ==
  [][\A k \in Kinds : \A i \in Committed(k) :
       rows'[k][i] # rows[k][i] =>
         audit' = AuditRow(k, i, AuditedUpdate(rows[k][i]), AuditedUpdate(rows'[k][i]))]_vars

\* A client that reads a list to its end, page by page, while records are
\* created and edited, has seen every record that was listed all the time,
\* unless a record left its filter meanwhile and moved the others forward.
WalkComplete ==
  walk.on /\ Through(walk) /\ ~walk.left => walk.stayed \subseteq walk.seen

=============================================================================
