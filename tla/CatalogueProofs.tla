-------------------------- MODULE CatalogueProofs ---------------------------
(***************************************************************************)
(* Theorems about Catalogue, for every set of requests, codes and filters. *)
(***************************************************************************)
EXTENDS Catalogue, FiniteSetTheorems, TLAPS

Inserting(r) == req[r].pc = "inserted"

\* An INSERT that waits for its commit has a place of its own, below the counter
\* of ids, and a code that no record and no other INSERT has.
InsertsApart ==
  \A r \in Reqs : Inserting(r) =>
    /\ rows[req[r].kind][req[r].id] = None
    /\ req[r].id <= taken[req[r].kind]
    /\ \A i \in Committed(req[r].kind) : rows[req[r].kind][i].code # req[r].record.code
    /\ \A q \in Reqs : Inserting(q) /\ req[q].kind = req[r].kind /\ q # r =>
         req[q].id # req[r].id /\ req[q].record.code # req[r].record.code

\* Ids are committed after they have been taken.
IdsTaken == \A k \in Kinds : \A i \in Committed(k) : i <= taken[k]

\* A record that is being edited is there.
EditsFound ==
  \A r \in Reqs : req[r].pc = "updating" => rows[req[r].kind][req[r].id] # None

IInv == TypeOK /\ CodesUnique /\ InsertsApart /\ IdsTaken /\ EditsFound
-----------------------------------------------------------------------------
LEMMA Start == Init => IInv
<1> SUFFICES ASSUME Init PROVE IInv
  OBVIOUS
<1>1. \A k \in Kinds : rows[k] = [i \in Ids(k) |-> None] /\ Committed(k) = {}
  BY DEF Init, Committed
<1>2. \A r \in Reqs : req[r] = Idle
  BY DEF Init
<1>3. Idle.pc = "idle" /\ Idle.kind \in Kinds
  BY DEF Idle, Kinds
<1>4. TypeOK
  BY <1>1, <1>2, <1>3 DEF TypeOK, Init
<1> QED
  BY <1>1, <1>2, <1>3, <1>4 DEF IInv, CodesUnique, InsertsApart, IdsTaken,
     EditsFound, Inserting

(* A step that leaves the records, and at most ends a request. *)
LEMMA EndStep ==
  ASSUME IInv, NEW r \in Reqs, UNCHANGED << rows, taken >>,
         req' = [req EXCEPT ![r] = Idle]
  PROVE  IInv'
<1>1. \A q \in Reqs : req'[q].pc # "idle" => req'[q] = req[q]
  BY DEF Idle, IInv, TypeOK
<1>2. Idle.pc = "idle" /\ Idle.kind \in Kinds
  BY DEF Idle, Kinds
<1>3. TypeOK'
  BY <1>1, <1>2 DEF IInv, TypeOK
<1>4. \A k : Committed(k)' = Committed(k)
  BY DEF Committed
<1>5. CodesUnique' /\ IdsTaken' /\ EditsFound' /\ InsertsApart'
  BY <1>1, <1>4 DEF IInv, CodesUnique, IdsTaken, EditsFound, InsertsApart, Inserting
<1> QED BY <1>3, <1>5 DEF IInv

LEMMA InsertStep ==
  ASSUME IInv, NEW r \in Reqs, NEW k \in Kinds, NEW c \in Codes[k], NEW n \in Names[k],
         NEW cls \in IF k = "student" THEN Ids("class") \cup {None} ELSE {None},
         Insert(r, k, c, n, cls)
  PROVE  IInv'
<1> DEFINE rec == [ code |-> c, name |-> n, status |-> "ACTIVE", cls |-> cls ]
           q0  == [ pc |-> "inserted", kind |-> k, id |-> taken[k] + 1, record |-> rec ]
<1>1. /\ req[r].pc = "idle" /\ taken[k] < MaxId[k]
      /\ taken' = [taken EXCEPT ![k] = @ + 1] /\ req' = [req EXCEPT ![r] = q0]
      /\ rows' = rows
  BY DEF Insert
<1>2. rec \in Record(k)
  BY DEF Record, RecordStatus
<1>3. taken[k] \in Nat /\ MaxId[k] \in Nat /\ taken[k] + 1 \in Ids(k)
  <2>1. taken[k] \in Nat /\ MaxId[k] \in Nat
    BY CatalogueAssumption DEF IInv, TypeOK
  <2> QED BY <1>1, <2>1 DEF Ids
<1>4. TypeOK'
  BY <1>1, <1>2, <1>3 DEF IInv, TypeOK
<1>5. \A x : Committed(x)' = Committed(x)
  BY <1>1 DEF Committed
<1>6. \A x \in Kinds : taken'[x] \in Nat /\ taken[x] \in Nat /\ taken[x] <= taken'[x]
  BY <1>1 DEF IInv, TypeOK
<1>7. \A x \in Kinds : \A i \in Ids(x) : i \in Nat
  BY CatalogueAssumption DEF Ids
<1>8. IdsTaken'
  BY <1>5, <1>6, <1>7 DEF IInv, IdsTaken, Committed
<1>9. \A q \in Reqs : q # r => req'[q] = req[q]
  BY <1>1 DEF IInv, TypeOK
<1>10. req'[r] = q0
  BY <1>1 DEF IInv, TypeOK
<1>11. EditsFound' /\ CodesUnique'
  BY <1>1, <1>5, <1>9, <1>10 DEF IInv, EditsFound, CodesUnique
<1>12. rows[k][taken[k] + 1] = None
  <2>1. taken[k] + 1 \notin Committed(k)
    BY <1>3 DEF IInv, IdsTaken
  <2> QED BY <1>3, <2>1 DEF Committed
<1>13. \A i \in Committed(k) : rows[k][i].code # c
  BY DEF Insert, CodeFree
<1>14. ASSUME NEW q \in Reqs, q # r, Inserting(q), req[q].kind = k
       PROVE  req[q].id # taken[k] + 1 /\ req[q].record.code # c
  <2>1. req[q].id <= taken[k] /\ req[q].id \in Nat
    BY <1>14, <1>7 DEF IInv, InsertsApart, TypeOK, Inserting
  <2>2. req[q].record.code # c
    BY <1>14 DEF Insert, CodeFree, Inserting
  <2> QED BY <1>3, <2>1, <2>2
<1>15. InsertsApart'
  <2> SUFFICES ASSUME NEW x \in Reqs, req'[x].pc = "inserted"
               PROVE  /\ rows[req'[x].kind][req'[x].id] = None
                      /\ req'[x].id <= taken'[req'[x].kind]
                      /\ \A i \in Committed(req'[x].kind) :
                           rows[req'[x].kind][i].code # req'[x].record.code
                      /\ \A q \in Reqs :
                           req'[q].pc = "inserted" /\ req'[q].kind = req'[x].kind /\ q # x =>
                             req'[q].id # req'[x].id
                             /\ req'[q].record.code # req'[x].record.code
    BY <1>1, <1>5 DEF InsertsApart, Inserting
  <2>1. CASE x = r
    <3>1. req'[x].id <= taken'[k]
      BY <1>1, <1>3, <1>10, <2>1 DEF IInv, TypeOK
    <3> QED BY <1>9, <1>10, <1>12, <1>13, <1>14, <2>1, <3>1 DEF Inserting
  <2>2. CASE x # r
    <3>1. req'[x] = req[x] /\ Inserting(x) /\ req[x].kind \in Kinds
      BY <1>9, <2>2 DEF Inserting, IInv, TypeOK
    <3>2. req[x].id <= taken'[req[x].kind]
      <4>1. req[x].id <= taken[req[x].kind] /\ req[x].id \in Nat
        BY <3>1, <1>7 DEF IInv, InsertsApart, TypeOK, Inserting
      <4> QED BY <4>1, <3>1, <1>6
    <3>3. \A q \in Reqs :
            req'[q].pc = "inserted" /\ req'[q].kind = req[x].kind /\ q # x =>
              req'[q].id # req[x].id /\ req'[q].record.code # req[x].record.code
      <4> SUFFICES ASSUME NEW q \in Reqs, req'[q].pc = "inserted",
                          req'[q].kind = req[x].kind, q # x
                   PROVE  req'[q].id # req[x].id
                          /\ req'[q].record.code # req[x].record.code
        OBVIOUS
      <4>1. CASE q = r
        BY <4>1, <1>10, <1>14, <2>2, <3>1
      <4>2. CASE q # r
        BY <4>2, <1>9, <3>1 DEF IInv, InsertsApart, Inserting
      <4> QED BY <4>1, <4>2
    <3> QED BY <3>1, <3>2, <3>3 DEF IInv, InsertsApart
  <2> QED BY <2>1, <2>2
<1> QED BY <1>4, <1>8, <1>11, <1>15 DEF IInv

(* The request's record goes into the table. *)
LEMMA CommitStep ==
  ASSUME IInv, NEW r \in Reqs, Inserting(r), req' = [req EXCEPT ![r] = Idle],
         rows' = [rows EXCEPT ![req[r].kind][req[r].id] = req[r].record],
         taken' = taken
  PROVE  IInv'
<1> DEFINE k == req[r].kind
           j == req[r].id
<1>1. /\ k \in Kinds /\ j \in Ids(k) /\ req[r].record \in Record(k)
      /\ rows[k][j] = None /\ j <= taken[k]
  BY DEF IInv, TypeOK, InsertsApart, Inserting
<1>2. \A x \in Kinds : DOMAIN rows[x] = Ids(x)
  BY DEF IInv, TypeOK
<1>3. /\ rows'[k][j] = req[r].record
      /\ \A x \in Kinds : \A i \in Ids(x) : x # k \/ i # j => rows'[x][i] = rows[x][i]
  BY <1>1, <1>2 DEF IInv, TypeOK
<1>4. \A x \in Kinds : Committed(x)' \subseteq Committed(x) \cup (IF x = k THEN {j} ELSE {})
  BY <1>3 DEF Committed
<1>5. \A q \in Reqs : req'[q].pc # "idle" => q # r /\ req'[q] = req[q]
  BY DEF Idle, IInv, TypeOK
<1>6. Idle.pc = "idle" /\ Idle.kind \in Kinds
  BY DEF Idle, Kinds
<1>7. \A x \in Kinds : rows'[x] \in [Ids(x) -> Record(x) \cup {None}]
  BY <1>1 DEF IInv, TypeOK
<1>8. TypeOK'
  BY <1>5, <1>6, <1>7 DEF IInv, TypeOK
<1>9. \A i \in Committed(k) : rows[k][i].code # req[r].record.code /\ i # j
  BY <1>1 DEF IInv, InsertsApart, Committed
<1>10. CodesUnique'
  <2> SUFFICES ASSUME NEW x \in Kinds, NEW a \in Committed(x)', NEW b \in Committed(x)',
                      rows'[x][a].code = rows'[x][b].code
               PROVE  a = b
    BY DEF CodesUnique
  <2>1. CASE x # k
    BY <1>3, <1>4, <2>1 DEF IInv, CodesUnique, Committed
  <2>2. CASE x = k
    <3>1. a \in Ids(k) /\ b \in Ids(k)
      BY <2>2 DEF Committed
    <3>2. CASE a = j \/ b = j
      BY <1>3, <1>4, <1>9, <2>2, <3>1, <3>2
    <3>3. CASE a # j /\ b # j
      <4>1. a \in Committed(k) /\ b \in Committed(k)
        BY <1>4, <2>2, <3>3
      <4>2. rows'[k][a] = rows[k][a] /\ rows'[k][b] = rows[k][b]
        BY <1>1, <1>3, <3>1, <3>3
      <4> QED BY <1>1, <2>2, <4>1, <4>2 DEF IInv, CodesUnique
    <3> QED BY <3>2, <3>3
  <2> QED BY <2>1, <2>2
<1>11. IdsTaken'
  BY <1>1, <1>4 DEF IInv, IdsTaken
<1>12. InsertsApart'
  <2> SUFFICES ASSUME NEW x \in Reqs, req'[x].pc = "inserted", NEW m, m = req'[x].kind
               PROVE  /\ rows'[m][req'[x].id] = None
                      /\ req'[x].id <= taken[m]
                      /\ \A i \in Committed(m)' : rows'[m][i].code # req'[x].record.code
                      /\ \A q \in Reqs :
                           req'[q].pc = "inserted" /\ req'[q].kind = m /\ q # x =>
                             req'[q].id # req'[x].id
                             /\ req'[q].record.code # req'[x].record.code
    BY DEF InsertsApart, Inserting
  <2>1. /\ req'[x] = req[x] /\ x # r /\ Inserting(x)
        /\ m = req[x].kind /\ m \in Kinds /\ req[x].id \in Ids(m)
    BY <1>5 DEF Inserting, IInv, TypeOK
  <2>2. m = k => req[x].id # j /\ req[x].record.code # req[r].record.code
    BY <2>1 DEF IInv, InsertsApart
  <2>3. rows'[m][req[x].id] = None /\ req[x].id <= taken[m]
    BY <1>3, <2>1, <2>2 DEF IInv, InsertsApart
  <2>4. ASSUME NEW i \in Committed(m)'
        PROVE  rows'[m][i].code # req[x].record.code
    <3>1. CASE m = k /\ i = j
      BY <1>3, <2>2, <3>1
    <3>2. CASE ~(m = k /\ i = j)
      <4>1. i \in Ids(m) /\ i \in Committed(m)
        BY <1>4, <2>1, <2>4, <3>2 DEF Committed
      <4> QED BY <1>3, <2>1, <3>2, <4>1 DEF IInv, InsertsApart
    <3> QED BY <3>1, <3>2
  <2>5. ASSUME NEW q \in Reqs, req'[q].pc = "inserted", req'[q].kind = m, q # x
        PROVE  req'[q].id # req[x].id /\ req'[q].record.code # req[x].record.code
    BY <1>5, <2>1, <2>5 DEF IInv, InsertsApart, Inserting
  <2> QED BY <2>1, <2>3, <2>4, <2>5
<1>13. EditsFound'
  <2> SUFFICES ASSUME NEW x \in Reqs, req'[x].pc = "updating"
               PROVE  rows'[req'[x].kind][req'[x].id] # None
    BY DEF EditsFound
  <2>1. /\ req'[x] = req[x] /\ rows[req[x].kind][req[x].id] # None
        /\ req[x].kind \in Kinds /\ req[x].id \in Ids(req[x].kind)
    BY <1>5 DEF IInv, EditsFound, TypeOK
  <2> QED BY <1>1, <1>3, <2>1
<1> QED BY <1>8, <1>10, <1>11, <1>12, <1>13 DEF IInv

LEMMA BeginStep == ASSUME IInv, NEW r \in Reqs, Begin(r) PROVE IInv'
<1>1. PICK k \in Kinds : \E i \in Committed(k) :
        /\ req' = [req EXCEPT ![r] =
             [ pc |-> "updating", kind |-> k, id |-> i, record |-> rows[k][i] ]]
        /\ UNCHANGED << rows, taken >>
  BY DEF Begin
<1>2. PICK i \in Committed(k) :
        /\ req' = [req EXCEPT ![r] =
             [ pc |-> "updating", kind |-> k, id |-> i, record |-> rows[k][i] ]]
        /\ UNCHANGED << rows, taken >>
  BY <1>1
<1>3. i \in Ids(k) /\ rows[k][i] # None /\ rows[k][i] \in Record(k)
  BY <1>2 DEF Committed, IInv, TypeOK
<1>4. TypeOK'
  BY <1>2, <1>3 DEF IInv, TypeOK
<1>5. \A q \in Reqs : q # r => req'[q] = req[q]
  BY <1>2 DEF IInv, TypeOK
<1>6. req'[r].pc = "updating" /\ req'[r].kind = k /\ req'[r].id = i
  BY <1>2 DEF IInv, TypeOK
<1>7. \A x : Committed(x)' = Committed(x)
  BY <1>2 DEF Committed
<1>8. rows' = rows /\ taken' = taken
  BY <1>2
<1>9. CodesUnique' /\ IdsTaken'
  BY <1>7, <1>8 DEF IInv, CodesUnique, IdsTaken
<1>10. EditsFound'
  BY <1>3, <1>5, <1>6, <1>8 DEF IInv, EditsFound
<1>11. \A q \in Reqs : req'[q].pc = "inserted" => req'[q] = req[q]
  BY <1>5, <1>6
<1>12. InsertsApart'
  BY <1>7, <1>8, <1>11 DEF IInv, InsertsApart, Inserting
<1> QED BY <1>4, <1>9, <1>10, <1>12 DEF IInv
-----------------------------------------------------------------------------
(* What an update leaves in the table. *)
LEMMA UpdateWrites ==
  ASSUME IInv, NEW r \in Reqs, Updating(r, req[r].kind),
         NEW new \in Record(req[r].kind), Update(r, new)
  PROVE  LET k == req[r].kind
             i == req[r].id
             w == Written(rows[k][i], rows[k][i], new)
         IN  /\ k \in Kinds /\ i \in Committed(k) /\ rows[k][i] \in Record(k)
             /\ w \in Record(k) /\ w.code = rows[k][i].code
             /\ AuditedUpdate(w) = AuditedUpdate(new)
             /\ rows' = [rows EXCEPT ![k][i] = w]
             /\ audit' = AuditRow(k, i, AuditedUpdate(rows[k][i]), AuditedUpdate(new))
             /\ req' = [req EXCEPT ![r] = Idle] /\ taken' = taken
<1> DEFINE k == req[r].kind
           i == req[r].id
           old == rows[k][i]
           w == Written(old, old, new)
<1>1. k \in Kinds /\ i \in Ids(k) /\ old # None /\ old \in Record(k)
  BY DEF IInv, TypeOK, EditsFound, Updating
<1>2. /\ rows' = [rows EXCEPT ![k][i] = Written(@, Locked(r), new)]
      /\ audit' = AuditRow(k, i, AuditedUpdate(Locked(r)), AuditedUpdate(new))
      /\ req' = [req EXCEPT ![r] = Idle] /\ taken' = taken
  BY DEF Update, Store
<1>3. Locked(r) = old
  BY DEF Locked
<1>4. rows' = [rows EXCEPT ![k][i] = w]
  BY <1>1, <1>2, <1>3 DEF IInv, TypeOK
<1>5. w \in Record(k) /\ w.code = old.code
  BY <1>1 DEF Record, Written
<1>6. w.name = new.name /\ w.status = new.status /\ w.cls = new.cls
  BY <1>1 DEF Record, Written
<1>7. AuditedUpdate(w) = AuditedUpdate(new)
  BY <1>6 DEF AuditedUpdate
<1> QED BY <1>1, <1>2, <1>3, <1>4, <1>5, <1>7 DEF Committed

LEMMA UpdateStep ==
  ASSUME IInv, NEW r \in Reqs, Updating(r, req[r].kind),
         NEW new \in Record(req[r].kind), Update(r, new), None \notin Record(req[r].kind)
  PROVE  IInv'
<1> DEFINE k == req[r].kind
           j == req[r].id
           w == Written(rows[k][j], rows[k][j], new)
<1>1. /\ k \in Kinds /\ j \in Committed(k) /\ j \in Ids(k) /\ w \in Record(k) /\ w # None
      /\ w.code = rows[k][j].code
      /\ rows' = [rows EXCEPT ![k][j] = w]
      /\ req' = [req EXCEPT ![r] = Idle] /\ taken' = taken
  BY UpdateWrites DEF Committed
<1>2. \A q \in Reqs : req'[q].pc # "idle" => q # r /\ req'[q] = req[q]
  BY <1>1 DEF Idle, IInv, TypeOK
<1>3. /\ rows'[k][j] = w
      /\ \A x \in Kinds : \A i \in Ids(x) : x # k \/ i # j => rows'[x][i] = rows[x][i]
  BY <1>1 DEF IInv, TypeOK
<1>4. \A x \in Kinds : Committed(x)' = Committed(x)
  BY <1>1, <1>3 DEF Committed
<1>5. \A x \in Kinds : \A i \in Committed(x) : rows'[x][i].code = rows[x][i].code
  BY <1>1, <1>3 DEF Committed
<1>6. \A x \in Kinds : rows'[x] \in [Ids(x) -> Record(x) \cup {None}]
  BY <1>1 DEF IInv, TypeOK
<1>7. Idle.pc = "idle" /\ Idle.kind \in Kinds
  BY DEF Idle, Kinds
<1>8. TypeOK'
  BY <1>1, <1>2, <1>6, <1>7 DEF IInv, TypeOK
<1>8a. taken' = taken
  BY <1>1
<1>8b. CodesUnique'
  BY <1>4, <1>5 DEF IInv, CodesUnique
<1>9. IdsTaken'
  BY <1>4, <1>8a DEF IInv, IdsTaken
<1>10. \A x \in Kinds : \A i \in Ids(x) : (rows'[x][i] = None) = (rows[x][i] = None)
  BY <1>1, <1>3 DEF Committed
<1>11. EditsFound'
  BY <1>2, <1>10 DEF IInv, TypeOK, EditsFound
<1>12. InsertsApart'
  <2> SUFFICES ASSUME NEW x \in Reqs, req'[x].pc = "inserted", NEW m, m = req'[x].kind
               PROVE  /\ rows'[m][req'[x].id] = None
                      /\ req'[x].id <= taken[m]
                      /\ \A i \in Committed(m)' : rows'[m][i].code # req'[x].record.code
                      /\ \A q \in Reqs :
                           req'[q].pc = "inserted" /\ req'[q].kind = m /\ q # x =>
                             req'[q].id # req'[x].id
                             /\ req'[q].record.code # req'[x].record.code
    BY <1>8a DEF InsertsApart, Inserting
  <2>1. /\ req'[x] = req[x] /\ Inserting(x)
        /\ m = req[x].kind /\ m \in Kinds /\ req[x].id \in Ids(m)
    BY <1>2 DEF Inserting, IInv, TypeOK
  <2>2. ASSUME NEW q \in Reqs, req'[q].pc = "inserted", req'[q].kind = m, q # x
        PROVE  req'[q].id # req[x].id /\ req'[q].record.code # req[x].record.code
    BY <1>2, <2>1, <2>2 DEF IInv, InsertsApart, Inserting
  <2> QED BY <1>4, <1>5, <1>10, <2>1, <2>2 DEF IInv, InsertsApart
<1> QED BY <1>8, <1>9, <1>11, <1>12, <1>8b DEF IInv

(* An update, of whichever kind. *)
LEMMA Updates ==
  ASSUME IInv, NEW r \in Reqs, UpdateAdminClass(r) \/ UpdateStudent(r) \/ UpdateCourse(r)
  PROVE  Updating(r, req[r].kind) /\ \E new \in Record(req[r].kind) : Update(r, new)
BY DEF UpdateAdminClass, UpdateStudent, UpdateCourse, Updating

LEMMA Step == IInv /\ [Next]_vars => IInv'
<1> SUFFICES ASSUME IInv, [Next]_vars PROVE IInv'
  OBVIOUS
<1>1. ASSUME UNCHANGED << rows, taken, req >> PROVE IInv'
  <2>1. \A k : Committed(k)' = Committed(k)
    BY <1>1 DEF Committed
  <2> QED BY <1>1, <2>1 DEF IInv, TypeOK, CodesUnique, InsertsApart, IdsTaken,
             EditsFound, Inserting
<1>2. ASSUME NEW r \in Reqs, CreateAdminClass(r) \/ CreateCourse(r) PROVE IInv'
  <2>1. PICK k \in {"class", "course"} :
          \E c \in Codes[k], n \in Names[k] : Insert(r, k, c, n, None)
    BY <1>2 DEF CreateAdminClass, CreateCourse
  <2>2. k \in Kinds /\ k # "student"
    BY DEF Kinds
  <2> QED BY <2>1, <2>2, InsertStep
<1>3. ASSUME NEW r \in Reqs, CreateStudent(r) PROVE IInv'
  <2>1. "student" \in Kinds /\ Committed("class") \subseteq Ids("class")
    BY DEF Kinds, Committed
  <2>2. PICK c \in Codes["student"], n \in Names["student"],
             cls \in Ids("class") \cup {None} : Insert(r, "student", c, n, cls)
    BY <1>3, <2>1 DEF CreateStudent
  <2> QED BY <2>1, <2>2, InsertStep
<1>4. ASSUME NEW r \in Reqs, CommitCreation(r) PROVE IInv'
  <2>1. /\ Inserting(r) /\ req' = [req EXCEPT ![r] = Idle] /\ taken' = taken
        /\ rows' = [rows EXCEPT ![req[r].kind][req[r].id] = req[r].record]
    BY <1>4 DEF CommitCreation, Store, Inserting
  <2> QED BY <2>1, CommitStep
<1>5. ASSUME NEW r \in Reqs, CommitImportedCourse(r) PROVE IInv'
  <2>1. /\ Inserting(r) /\ req' = [req EXCEPT ![r] = Idle] /\ taken' = taken
        /\ rows' = [rows EXCEPT ![req[r].kind][req[r].id] = req[r].record]
    BY <1>5 DEF CommitImportedCourse, Store, Inserting
  <2> QED BY <2>1, CommitStep
<1>6. ASSUME NEW r \in Reqs, UpdateAdminClass(r) \/ UpdateStudent(r) \/ UpdateCourse(r)
      PROVE  IInv'
  <2>1. req[r].kind \in Kinds
    BY DEF IInv, TypeOK
  <2> QED BY <1>6, <2>1, Updates, UpdateStep, CatalogueAssumption
<1>7. ASSUME NEW r \in Reqs, Rollback(r) PROVE IInv'
  BY <1>7, EndStep DEF Rollback
<1>8. CASE WalkStart \/ WalkPage \/ WalkEnd \/ UNCHANGED vars
  BY <1>1, <1>8 DEF WalkStart, WalkPage, WalkEnd, vars
<1> QED
  BY <1>2, <1>3, <1>4, <1>5, <1>6, <1>7, <1>8, BeginStep DEF Next

LEMMA Invariant == Spec => []IInv
BY Start, Step, PTL DEF Spec
-----------------------------------------------------------------------------
(* Two records of a kind never share a code, however many requests create   *)
(* and import them at once (create_admin_class, create_student,             *)
(* create_course, _apply_timetable).                                        *)
THEOREM CodesStayUnique == Spec => []CodesUnique
<1>1. IInv => CodesUnique
  BY DEF IInv
<1> QED BY <1>1, Invariant, PTL

(* The audit row of an edit names what the edit found and what it left: the *)
(* row is locked before it is read, and only what was locked is written     *)
(* (update_admin_class, update_student, update_course).                     *)
THEOREM AuditTellsTruth == Spec => AuditTrue
<1> DEFINE Told ==
      \A k \in Kinds : \A i \in Committed(k) :
        rows'[k][i] # rows[k][i] =>
          audit' = AuditRow(k, i, AuditedUpdate(rows[k][i]), AuditedUpdate(rows'[k][i]))
<1>1. IInv /\ Next => Told
  <2> SUFFICES ASSUME IInv, Next, NEW k \in Kinds, NEW i \in Committed(k),
                      rows'[k][i] # rows[k][i]
               PROVE  audit' = AuditRow(k, i, AuditedUpdate(rows[k][i]),
                                        AuditedUpdate(rows'[k][i]))
    OBVIOUS
  <2>1. i \in Ids(k) /\ rows[k][i] # None
    BY DEF Committed
  <2>2. ASSUME NEW r \in Reqs, Inserting(r),
               rows' = [rows EXCEPT ![req[r].kind][req[r].id] = req[r].record]
        PROVE  FALSE
    <3>1. rows[req[r].kind][req[r].id] = None
      BY <2>2 DEF IInv, InsertsApart
    <3>2. k # req[r].kind \/ i # req[r].id
      BY <2>1, <3>1
    <3>3. rows'[k][i] = rows[k][i]
      BY <2>1, <2>2, <3>2 DEF IInv, TypeOK
    <3> QED BY <3>3
  <2>3. ASSUME NEW r \in Reqs, CommitCreation(r) \/ CommitImportedCourse(r)
        PROVE  FALSE
    <3>1. CASE CommitCreation(r)
      BY <2>2, <3>1 DEF CommitCreation, Store, Inserting
    <3>2. CASE CommitImportedCourse(r)
      <4>1. /\ Inserting(r)
            /\ rows' = [rows EXCEPT ![req[r].kind][req[r].id] = req[r].record]
        BY <3>2 DEF CommitImportedCourse, Store, Inserting
      <4> QED BY <2>2, <4>1
    <3> QED BY <2>3, <3>1, <3>2
  <2>4. PICK r \in Reqs : UpdateAdminClass(r) \/ UpdateStudent(r) \/ UpdateCourse(r)
    BY <2>3 DEF Next, CreateAdminClass, CreateStudent, CreateCourse, Insert, Begin,
       Rollback, WalkStart, WalkPage, WalkEnd
  <2>5. PICK new \in Record(req[r].kind) : Updating(r, req[r].kind) /\ Update(r, new)
    BY <2>4, Updates
  <2> DEFINE w == Written(rows[req[r].kind][req[r].id], rows[req[r].kind][req[r].id], new)
  <2>6. /\ req[r].kind \in Kinds /\ req[r].id \in Ids(req[r].kind)
        /\ AuditedUpdate(w) = AuditedUpdate(new)
        /\ rows' = [rows EXCEPT ![req[r].kind][req[r].id] = w]
        /\ audit' = AuditRow(req[r].kind, req[r].id,
                             AuditedUpdate(rows[req[r].kind][req[r].id]), AuditedUpdate(new))
    BY <2>5, UpdateWrites DEF Committed
  <2>7. k = req[r].kind /\ i = req[r].id
    BY <2>1, <2>6 DEF IInv, TypeOK
  <2>8. rows'[k][i] = w
    BY <2>6, <2>7 DEF IInv, TypeOK
  <2> QED BY <2>6, <2>7, <2>8
<1>2. IInv /\ [Next]_vars => [Told]_vars
  BY <1>1
<1> QED BY <1>2, Invariant, PTL DEF Spec, AuditTrue
-----------------------------------------------------------------------------
(* Walks *)

\* How many listed records come before i: the place of i in the list.
Place(t, k, f, i) ==
  Cardinality({ j \in Listed(t, k, f) : Earlier(t, k, j, i) })

\* Of the records that have been listed since the walk began, those whose place
\* lies on a page that has been read have been seen, unless a record left.
WalkInv ==
  walk.on =>
    /\ walk.kind \in Kinds /\ walk.page \in Nat
    /\ walk.stayed \subseteq Listed(rows, walk.kind, walk.filter)
    /\ ~walk.left =>
         \A i \in walk.stayed :
           Place(rows, walk.kind, walk.filter, i) < Offset(walk.page) =>
             i \in walk.seen

LEMMA ListsAreFinite ==
  ASSUME NEW t, NEW k \in Kinds, NEW f
  PROVE  IsFiniteSet(Listed(t, k, f)) /\ Listed(t, k, f) \subseteq Nat
<1>1. MaxId[k] \in Nat
  BY CatalogueAssumption
<1>2. IsFiniteSet(Ids(k)) /\ Ids(k) \subseteq Nat
  BY <1>1, FS_Interval DEF Ids
<1>3. Listed(t, k, f) \subseteq Ids(k)
  BY DEF Listed
<1> QED BY <1>2, <1>3, FS_Subset

LEMMA PlaceInList ==
  ASSUME NEW t, NEW k \in Kinds, NEW f, NEW i \in Listed(t, k, f)
  PROVE  /\ Place(t, k, f, i) \in Nat
         /\ Place(t, k, f, i) < Cardinality(Listed(t, k, f))
<1> DEFINE before == { j \in Listed(t, k, f) : Earlier(t, k, j, i) }
<1>1. IsFiniteSet(Listed(t, k, f)) /\ i \in Nat
  BY ListsAreFinite
<1>2. before \in SUBSET Listed(t, k, f) /\ before # Listed(t, k, f)
  BY <1>1 DEF Earlier
<1>3. IsFiniteSet(before) /\ Cardinality(before) <= Cardinality(Listed(t, k, f))
      /\ Cardinality(before) # Cardinality(Listed(t, k, f))
  BY <1>1, <1>2, FS_Subset
<1>4. Cardinality(before) \in Nat /\ Cardinality(Listed(t, k, f)) \in Nat
  BY <1>1, <1>3, FS_CardinalityType
<1> QED BY <1>3, <1>4 DEF Place

\* Where a list only grows, a record moves back or stays.
LEMMA PlaceGrows ==
  ASSUME NEW t, NEW u, NEW k \in Kinds, NEW f, NEW i,
         Listed(t, k, f) \subseteq Listed(u, k, f)
  PROVE  Place(t, k, f, i) <= Place(u, k, f, i)
<1> DEFINE B(x) == { j \in Listed(x, k, f) : Earlier(x, k, j, i) }
<1>1. IsFiniteSet(B(u)) /\ B(t) \in SUBSET B(u)
  <2>1. B(u) \in SUBSET Listed(u, k, f)
    OBVIOUS
  <2>2. IsFiniteSet(B(u))
    BY <2>1, ListsAreFinite, FS_Subset
  <2> QED BY <2>2 DEF Earlier
<1>2. Cardinality(B(t)) <= Cardinality(B(u))
  BY <1>1, FS_Subset
<1> QED BY <1>2 DEF Place

LEMMA OffsetStep ==
  ASSUME NEW p \in Nat
  PROVE  Offset(p) \in Int /\ Offset(p + 1) = Offset(p) + PageSize
<1>1. PageSize \in Nat
  BY CatalogueAssumption
<1>2. (p + 1 - 1) * PageSize = (p - 1) * PageSize + PageSize
  BY <1>1
<1> QED BY <1>1, <1>2 DEF Offset

LEMMA StoreKeepsWalk ==
  ASSUME WalkInv, NEW t, Store(t) PROVE WalkInv'
<1> SUFFICES ASSUME walk.on
             PROVE  WalkInv'
  BY DEF Store, WalkInv
<1> DEFINE k == walk.kind
           f == walk.filter
           now == Listed(rows, k, f)
           after == Listed(t, k, f)
<1>1. /\ rows' = t /\ k \in Kinds /\ walk.page \in Nat
      /\ walk.stayed \subseteq now
  BY DEF Store, WalkInv
<1>2. /\ walk'.on /\ walk'.kind = k /\ walk'.filter = f
      /\ walk'.page = walk.page /\ walk'.seen = walk.seen
      /\ walk'.stayed = walk.stayed \cap after
      /\ walk'.left = (walk.left \/ now \ after # {})
  BY DEF Store
<1>3. ASSUME ~walk'.left, NEW i \in walk'.stayed,
             Place(t, k, f, i) < Offset(walk.page)
      PROVE  i \in walk.seen
  <2>1. ~walk.left /\ now \subseteq after
    BY <1>2, <1>3
  <2>2. Place(rows, k, f, i) <= Place(t, k, f, i)
    BY <1>1, <2>1, PlaceGrows
  <2>3. i \in walk.stayed /\ i \in now /\ i \in after
    BY <1>1, <1>2, <1>3
  <2>4. Place(rows, k, f, i) \in Nat /\ Place(t, k, f, i) \in Nat
    BY <1>1, <2>3, PlaceInList
  <2>5. Place(rows, k, f, i) < Offset(walk.page)
    BY <1>1, <1>3, <2>2, <2>4, OffsetStep
  <2> QED BY <2>1, <2>3, <2>5 DEF WalkInv
<1> QED BY <1>1, <1>2, <1>3 DEF WalkInv

LEMMA PageKeepsWalk ==
  ASSUME WalkInv, WalkPage PROVE WalkInv'
<1> DEFINE k == walk.kind
           f == walk.filter
<1>1. /\ rows' = rows /\ walk'.on /\ walk'.kind = k /\ walk'.filter = f
      /\ walk'.page = walk.page + 1 /\ walk'.stayed = walk.stayed
      /\ walk'.left = walk.left
      /\ walk'.seen = walk.seen \cup Items(rows, k, f, walk.page)
  BY DEF WalkPage
<1>2. /\ k \in Kinds /\ walk.page \in Nat
      /\ walk.stayed \subseteq Listed(rows, k, f)
  BY DEF WalkInv, WalkPage
<1>3. ASSUME ~walk.left, NEW i \in walk.stayed,
             Place(rows, k, f, i) < Offset(walk.page + 1)
      PROVE  i \in walk'.seen
  <2>1. Place(rows, k, f, i) \in Nat /\ i \in Listed(rows, k, f)
    BY <1>2, PlaceInList
  <2>2. CASE Place(rows, k, f, i) < Offset(walk.page)
    BY <1>1, <1>3, <2>2 DEF WalkInv, WalkPage
  <2>3. CASE /\ Offset(walk.page) <= Place(rows, k, f, i)
             /\ Place(rows, k, f, i) < Offset(walk.page) + PageSize
    BY <1>1, <2>1, <2>3 DEF Items, Place
  <2> QED BY <1>2, <1>3, <2>1, <2>2, <2>3, OffsetStep
<1> QED BY <1>1, <1>2, <1>3 DEF WalkInv

LEMMA StartOfWalk ==
  ASSUME WalkStart PROVE WalkInv'
<1>1. PICK k \in Kinds : \E f \in Filters[k] :
        /\ walk' = [ NoWalk EXCEPT !.on = TRUE, !.kind = k, !.filter = f,
                                   !.stayed = Listed(rows, k, f) ]
        /\ rows' = rows
  BY DEF WalkStart
<1>2. /\ walk'.kind = k /\ walk'.page = 1
      /\ walk'.stayed = Listed(rows', k, walk'.filter)
  BY <1>1 DEF NoWalk
<1>3. ASSUME NEW i \in walk'.stayed
      PROVE  ~(Place(rows', k, walk'.filter, i) < Offset(1))
  <2>1. Place(rows', k, walk'.filter, i) \in Nat
    BY <1>2, <1>3, PlaceInList
  <2>2. Offset(1) = 0
    BY CatalogueAssumption DEF Offset
  <2> QED BY <2>1, <2>2
<1> QED BY <1>2, <1>3 DEF WalkInv

LEMMA WalkStep == WalkInv /\ [Next]_vars => WalkInv'
<1> SUFFICES ASSUME WalkInv, [Next]_vars PROVE WalkInv'
  OBVIOUS
<1>1. ASSUME UNCHANGED << rows, walk >> PROVE WalkInv'
  BY <1>1 DEF WalkInv
<1>2. ASSUME NEW r \in Reqs, CreateAdminClass(r) \/ CreateStudent(r) \/ CreateCourse(r)
      PROVE  WalkInv'
  BY <1>1, <1>2 DEF CreateAdminClass, CreateStudent, CreateCourse, Insert
<1>3. ASSUME NEW r \in Reqs, CommitCreation(r) \/ CommitImportedCourse(r)
      PROVE  WalkInv'
  BY <1>3, StoreKeepsWalk DEF CommitCreation, CommitImportedCourse
<1>4. ASSUME NEW r \in Reqs, UpdateAdminClass(r) \/ UpdateStudent(r) \/ UpdateCourse(r)
      PROVE  WalkInv'
  BY <1>4, StoreKeepsWalk
  DEF UpdateAdminClass, UpdateStudent, UpdateCourse, Update
<1>5. ASSUME NEW r \in Reqs, Begin(r) \/ Rollback(r) PROVE WalkInv'
  BY <1>1, <1>5 DEF Begin, Rollback
<1>6. CASE WalkEnd \/ UNCHANGED vars
  BY <1>1, <1>6 DEF WalkEnd, NoWalk, WalkInv, vars
<1> QED
  BY <1>2, <1>3, <1>4, <1>5, <1>6, PageKeepsWalk, StartOfWalk DEF Next

(* A client that reads a list to its end has seen every record that was     *)
(* listed all the time, unless a record left the filter meanwhile: what is  *)
(* created or edited only moves a record to later pages (list_students,     *)
(* list_courses, list_admin_classes, ordered by id).                        *)
THEOREM WalksAreComplete == Spec => []WalkComplete
<1>1. Init => WalkInv
  BY DEF Init, WalkInv, NoWalk
<1>2. WalkInv => WalkComplete
  <2> SUFFICES ASSUME WalkInv, walk.on, Through(walk), ~walk.left,
                      NEW i \in walk.stayed
               PROVE  i \in walk.seen
    BY DEF WalkComplete
  <2>1. i \in Listed(rows, walk.kind, walk.filter) /\ walk.kind \in Kinds
        /\ walk.page \in Nat
    BY DEF WalkInv
  <2>2. /\ Place(rows, walk.kind, walk.filter, i) \in Nat
        /\ Place(rows, walk.kind, walk.filter, i)
             < Cardinality(Listed(rows, walk.kind, walk.filter))
    BY <2>1, PlaceInList
  <2>3. Cardinality(Listed(rows, walk.kind, walk.filter)) \in Nat
    BY <2>1, ListsAreFinite, FS_CardinalityType
  <2>4. Offset(walk.page) >= Cardinality(Listed(rows, walk.kind, walk.filter))
    BY DEF Through, Offset
  <2>5. Place(rows, walk.kind, walk.filter, i) < Offset(walk.page)
    BY <2>1, <2>2, <2>3, <2>4, OffsetStep
  <2> QED BY <2>5 DEF WalkInv
<1> QED BY <1>1, <1>2, WalkStep, PTL DEF Spec
=============================================================================
