--------------------------- MODULE SessionsProofs ---------------------------
(***************************************************************************)
(* Theorems about Sessions, for every set of accounts, sessions and        *)
(* requests.  They hold of any client, but for one: what a rotation        *)
(* promises needs a client that waits for its answer before it uses a      *)
(* credential again, and is stated with that assumption.                   *)
(***************************************************************************)
EXTENDS Sessions, FiniteSetTheorems, TLAPS

SameFamily(a, b) == a.user = b.user /\ a.family = b.family

\* A session that was opened has a user, and its family has a first session.
RowsWhole ==
  \A s \in Sids :
    /\ db.row[s].status = "none" => db.row[s] = NoRow
    /\ db.row[s].status # "none" =>
         /\ db.row[s].user \in Users /\ db.row[s].family \in Sids
         /\ db.row[db.row[s].family].status # "none"

\* What a request of each kind is about.
Asked ==
  \A r \in Reqs :
    /\ req[r].kind = "web" => Subject(r) \in WebUsers
    /\ req[r].kind = "wechat" => Subject(r) \in OpenIds
    /\ req[r].kind = "reset" => Subject(r) \in Users
    /\ req[r].kind = "refresh" =>
         Subject(r) \in Sids /\ db.row[Subject(r)].status # "none"

\* A snapshot has fallen behind at most by what ended or was added.
SnapshotRows ==
  \A r \in Reqs, s \in Sids :
    /\ View(r).row[s].status # "none" =>
         /\ SameFamily(View(r).row[s], db.row[s])
         /\ db.row[s].status # "none"
         /\ View(r).row[s].status = "revoked" => db.row[s].status = "revoked"
    /\ View(r).row[s].status = "none" => View(r).row[s] = NoRow
    /\ req[r].kind = "reset" /\ View(r).row[s].status # "none" =>
         db.row[s].user = Subject(r)

\* A replay is one of a family that exists.
ReplaysReal == \A f \in replays : db.row[f].status # "none"

Base == TypeOK /\ RowsWhole /\ Asked /\ SnapshotRows /\ ReplaysReal
-----------------------------------------------------------------------------
LEMMA InitRows == InitDB \in DB /\ Idle \in Request /\ NoRow \in Row
<1>1. NoRow \in Row
  BY DEF NoRow, Row
<1>2. 0 \in 0 .. MaxFailures - 1
  BY FailuresAssumption
<1>3. InitDB \in DB
  BY <1>1, <1>2 DEF InitDB, DB, LockState
<1> QED BY <1>1, <1>3 DEF Idle, Request, RequestKind

LEMMA IdleSees ==
  Idle.kind = "none" /\ \A s \in Sids : Idle.snap.row[s] = NoRow
  BY DEF Idle, InitDB

LEMMA NoRowNone == NoRow.status = "none" /\ NoRow.family \notin Sids
  BY NoneAssumption DEF NoRow

LEMMA Start == Init => Base
<1> SUFFICES ASSUME Init PROVE Base
  OBVIOUS
<1>1. TypeOK
  BY InitRows DEF Init, TypeOK
<1>2. \A s \in Sids : db.row[s] = NoRow
  BY DEF Init, InitDB
<1>3. \A r \in Reqs : req[r] = Idle
  BY DEF Init
<1>4. RowsWhole /\ Asked /\ ReplaysReal
  BY <1>2, <1>3, IdleSees, NoRowNone DEF RowsWhole, Asked, ReplaysReal, Init
<1>5. SnapshotRows
  BY <1>3, IdleSees, NoRowNone DEF SnapshotRows, View
<1> QED BY <1>1, <1>4, <1>5 DEF Base
-----------------------------------------------------------------------------
(* Requests that begin *)

LEMMA RowsRead ==
  ASSUME Base, NEW k \in RequestKind \ {"none"}, NEW subject,
         k = "web" => subject \in WebUsers,
         k = "wechat" => subject \in OpenIds,
         k = "reset" => subject \in Users,
         k = "refresh" => subject \in Sids
  PROVE  /\ Rows(k, subject) \in DB
         /\ \A s \in Sids :
              \/ Rows(k, subject).row[s] = NoRow
              \/ /\ Rows(k, subject).row[s] = db.row[s]
                 /\ k = "reset" => db.row[s].user = subject
         /\ k = "refresh" => \A s \in Sids :
              db.row[s].family = db.row[subject].family =>
                Rows(k, subject).row[s] = db.row[s]
         /\ k = "web" => Rows(k, subject).fails[subject] = db.fails[subject]
<1>1. db \in DB /\ InitDB \in DB /\ NoRow \in Row
  BY InitRows DEF Base, TypeOK
<1>2. InitDB.row = [s \in Sids |-> NoRow]
  BY DEF InitDB
<1>3. CASE k = "web"
  <2> DEFINE fails == [InitDB.fails EXCEPT ![subject] = db.fails[subject]]
             until == [InitDB.until EXCEPT ![subject] = db.until[subject]]
  <2>1. Rows(k, subject) = [InitDB EXCEPT !.fails = fails, !.until = until]
    BY <1>1, <1>3 DEF Rows, DB
  <2>2. subject \in Users
    BY <1>3, UsersAssumption
  <2>3. /\ fails \in [Users -> 0 .. MaxFailures - 1] /\ until \in [Users -> LockState]
        /\ fails[subject] = db.fails[subject]
    BY <1>1, <2>2 DEF DB
  <2> HIDE DEF fails, until
  <2>4. Rows(k, subject) \in DB
    BY <1>1, <2>1, <2>3 DEF DB
  <2>5. Rows(k, subject).row = InitDB.row /\ Rows(k, subject).fails = fails
    BY <1>1, <2>1 DEF DB
  <2> QED BY <1>2, <1>3, <2>3, <2>4, <2>5
<1>4. CASE k = "wechat"
  <2>1. Rows(k, subject) = [InitDB EXCEPT !.owner = [@ EXCEPT ![subject] = db.owner[subject]]]
    BY <1>4 DEF Rows
  <2> QED BY <1>1, <1>2, <1>4, <2>1 DEF DB
<1>5. CASE k = "refresh"
  <2> DEFINE rows == [s \in Sids |-> IF db.row[s].family = db.row[subject].family
                                     THEN db.row[s] ELSE NoRow]
  <2>1. Rows(k, subject) = [InitDB EXCEPT !.row = rows]
    BY <1>5 DEF Rows
  <2>2. rows \in [Sids -> Row]
    BY <1>1 DEF DB
  <2> QED BY <1>1, <1>5, <2>1, <2>2 DEF DB
<1>6. CASE k = "reset"
  <2> DEFINE rows == [s \in Sids |-> IF db.row[s].user = subject
                                     THEN db.row[s] ELSE NoRow]
  <2>1. Rows(k, subject) = [InitDB EXCEPT !.row = rows]
    BY <1>6 DEF Rows
  <2>2. rows \in [Sids -> Row]
    BY <1>1 DEF DB
  <2> QED BY <1>1, <1>6, <2>1, <2>2 DEF DB
<1> QED BY <1>3, <1>4, <1>5, <1>6 DEF RequestKind

LEMMA BeginStep ==
  ASSUME Base, NEW r \in Reqs, NEW k \in RequestKind \ {"none"}, NEW subject,
         k = "web" => subject \in WebUsers,
         k = "wechat" => subject \in OpenIds,
         k = "reset" => subject \in Users,
         k = "refresh" => subject \in Sids /\ db.row[subject].status # "none",
         Begin(r, k, subject)
  PROVE  Base'
<1> DEFINE q == [kind |-> k, subject |-> subject, snap |-> Rows(k, subject)]
<1>1. UNCHANGED <<db, expired, replays, misses>> /\ req' = [req EXCEPT ![r] = q]
  BY DEF Begin
<1>2. req'[r] = q /\ \A p \in Reqs : p # r => req'[p] = req[p]
  BY <1>1 DEF Base, TypeOK
<1>3. q \in Request
  <2>1. subject \in Users \cup OpenIds \cup Sids \cup {None}
    BY UsersAssumption DEF RequestKind
  <2> QED BY <2>1, RowsRead DEF Request
<1>4. TypeOK'
  BY <1>1, <1>3 DEF Base, TypeOK
<1>5. Asked'
  BY <1>1, <1>2 DEF Base, Asked, Subject
<1>6. SnapshotRows'
  <2> SUFFICES ASSUME NEW p \in Reqs, NEW s \in Sids
               PROVE  /\ req'[p].snap.row[s].status # "none" =>
                           /\ SameFamily(req'[p].snap.row[s], db.row[s])
                           /\ db.row[s].status # "none"
                           /\ req'[p].snap.row[s].status = "revoked" =>
                                db.row[s].status = "revoked"
                      /\ req'[p].snap.row[s].status = "none" => req'[p].snap.row[s] = NoRow
                      /\ req'[p].kind = "reset" /\ req'[p].snap.row[s].status # "none" =>
                           db.row[s].user = req'[p].subject
    BY <1>1 DEF SnapshotRows, View, Subject
  <2>1. CASE p = r
    <3>1. \/ req'[p].snap.row[s] = NoRow
          \/ /\ req'[p].snap.row[s] = db.row[s]
             /\ k = "reset" => db.row[s].user = subject
      BY <1>2, <2>1, RowsRead
    <3> QED BY <1>2, <2>1, <3>1, NoRowNone DEF Base, RowsWhole, SameFamily
  <2>2. CASE p # r
    BY <1>2, <2>2 DEF Base, SnapshotRows, View, Subject
  <2> QED BY <2>1, <2>2
<1>7. RowsWhole' /\ ReplaysReal'
  BY <1>1 DEF Base, RowsWhole, ReplaysReal
<1> QED BY <1>4, <1>5, <1>6, <1>7 DEF Base
-----------------------------------------------------------------------------
(* Commits *)

AtMostOneEnds ==
  req' = req \/ \E r \in Reqs : req' = [req EXCEPT ![r] = Idle]

\* Sessions are opened and end; nothing else happens to a row.
RowsGrow ==
  \A s \in Sids : db.row[s].status # "none" =>
    /\ SameFamily(db'.row[s], db.row[s])
    /\ db'.row[s].status # "none"
    /\ db.row[s].status = "revoked" => db'.row[s].status = "revoked"

LEMMA CommitStep ==
  ASSUME Base, AtMostOneEnds, db' \in DB, expired' \subseteq Sids,
         misses' \in [Users -> Nat], RowsGrow, RowsWhole',
         replays' \subseteq Sids,
         \A f \in replays' \ replays : db.row[f].status # "none"
  PROVE  Base'
<1>1. \A r \in Reqs : req'[r] = req[r] \/ req'[r] = Idle
  BY DEF AtMostOneEnds, Base, TypeOK
<1>2. TypeOK'
  BY InitRows DEF AtMostOneEnds, Base, TypeOK
<1>3. Asked'
  BY <1>1, IdleSees DEF Base, Asked, Subject, RowsGrow
<1>4. SnapshotRows'
  <2> SUFFICES ASSUME NEW p \in Reqs, NEW s \in Sids
               PROVE  /\ req'[p].snap.row[s].status # "none" =>
                           /\ SameFamily(req'[p].snap.row[s], db'.row[s])
                           /\ db'.row[s].status # "none"
                           /\ req'[p].snap.row[s].status = "revoked" =>
                                db'.row[s].status = "revoked"
                      /\ req'[p].snap.row[s].status = "none" => req'[p].snap.row[s] = NoRow
                      /\ req'[p].kind = "reset" /\ req'[p].snap.row[s].status # "none" =>
                           db'.row[s].user = req'[p].subject
    BY DEF SnapshotRows, View, Subject
  <2>1. CASE req'[p] = req[p]
    BY <2>1 DEF Base, SnapshotRows, RowsGrow, View, Subject, SameFamily
  <2>2. CASE req'[p] = Idle
    BY <2>2, IdleSees, NoRowNone
  <2> QED BY <1>1, <2>1, <2>2
<1>5. ReplaysReal'
  BY DEF Base, ReplaysReal, RowsGrow, TypeOK
<1> QED BY <1>2, <1>3, <1>4, <1>5 DEF Base

(* A step that leaves the sessions alone. *)
LEMMA SameRows ==
  ASSUME Base, db'.row = db.row
  PROVE  RowsGrow /\ RowsWhole'
  BY DEF Base, RowsGrow, RowsWhole, SameFamily

\* A session is opened.
Opens(s, u) ==
  /\ db.row[s] = NoRow
  /\ db'.row = [db.row EXCEPT ![s] = [user |-> u, family |-> s, status |-> "live"]]

LEMMA OpensRow ==
  ASSUME Base, NEW s \in Sids, NEW u \in Users, Opens(s, u)
  PROVE  RowsGrow /\ RowsWhole' /\ db'.row \in [Sids -> Row]
<1>1. db.row \in [Sids -> Row]
  BY DEF Base, TypeOK, DB
<1>2. /\ db'.row[s] = [user |-> u, family |-> s, status |-> "live"]
      /\ \A t \in Sids : t # s => db'.row[t] = db.row[t]
  BY <1>1 DEF Opens
<1>3. RowsGrow
  BY <1>2, NoRowNone DEF RowsGrow, SameFamily, Opens
<1>4. RowsWhole'
  BY <1>2, NoRowNone DEF Base, RowsWhole, Opens
<1>5. db'.row \in [Sids -> Row]
  BY <1>1 DEF Opens, Row
<1> QED BY <1>3, <1>4, <1>5

\* A session takes the place of another of its family.
Replaces(c, s) ==
  /\ db.row[s] = NoRow /\ db.row[c].status # "none"
  /\ db'.row = [db.row EXCEPT ![c].status = "revoked",
                              ![s] = [db.row[c] EXCEPT !.status = "live"]]

LEMMA ReplacesRow ==
  ASSUME Base, NEW s \in Sids, NEW c \in Sids, Replaces(c, s)
  PROVE  RowsGrow /\ RowsWhole' /\ db'.row \in [Sids -> Row]
<1>1. db.row \in [Sids -> Row]
  BY DEF Base, TypeOK, DB
<1>2. c # s
  BY NoRowNone DEF Replaces
<1>3. /\ db'.row[s] = [db.row[c] EXCEPT !.status = "live"]
      /\ db'.row[c] = [db.row[c] EXCEPT !.status = "revoked"]
      /\ \A t \in Sids : t # s /\ t # c => db'.row[t] = db.row[t]
  BY <1>1, <1>2 DEF Replaces
<1>4. /\ SameFamily(db'.row[s], db.row[c]) /\ db'.row[s].status = "live"
      /\ SameFamily(db'.row[c], db.row[c]) /\ db'.row[c].status = "revoked"
      /\ db'.row[s] \in Row /\ db'.row[c] \in Row
  BY <1>1, <1>3 DEF SameFamily, Row
<1>5. RowsGrow
  BY <1>3, <1>4, NoRowNone DEF RowsGrow, SameFamily, Replaces
<1>6. \A t \in Sids : db.row[t].status # "none" => db'.row[t].status # "none"
  BY <1>5 DEF RowsGrow
<1>7. RowsWhole'
  BY <1>3, <1>4, <1>6 DEF Base, RowsWhole, SameFamily, Replaces
<1>8. db'.row \in [Sids -> Row]
  BY <1>1, <1>3, <1>4 DEF Replaces
<1> QED BY <1>5, <1>7, <1>8

\* The sessions of S end.
Ends(S) ==
  /\ \A s \in S : db.row[s].status # "none"
  /\ db'.row = [s \in Sids |-> IF s \in S THEN [db.row[s] EXCEPT !.status = "revoked"]
                                          ELSE db.row[s]]

LEMMA EndsRow ==
  ASSUME Base, NEW S, Ends(S)
  PROVE  RowsGrow /\ RowsWhole' /\ db'.row \in [Sids -> Row]
<1>1. db.row \in [Sids -> Row]
  BY DEF Base, TypeOK, DB
<1>2. \A s \in Sids : /\ db'.row[s] \in Row /\ SameFamily(db'.row[s], db.row[s])
                      /\ s \in S => db'.row[s].status = "revoked"
                      /\ s \notin S => db'.row[s] = db.row[s]
  BY <1>1 DEF Ends, Row, SameFamily
<1>3. RowsGrow
  BY <1>2 DEF RowsGrow
<1>4. \A t \in Sids : db.row[t].status # "none" => db'.row[t].status # "none"
  BY <1>3 DEF RowsGrow
<1>5. RowsWhole'
  BY <1>2, <1>4 DEF Base, RowsWhole, SameFamily, Ends
<1>6. db'.row \in [Sids -> Row]
  BY <1>2 DEF Ends
<1> QED BY <1>3, <1>5, <1>6
-----------------------------------------------------------------------------
(* What each handler does to the rows, and that it keeps Base *)

LEMMA LoginWebOkStep ==
  ASSUME Base, NEW r \in Reqs, NEW s \in Sids, LoginWebOk(r, s)
  PROVE  /\ Base' /\ Opens(s, Subject(r)) /\ Subject(r) \in WebUsers
         /\ db'.fails = [db.fails EXCEPT ![Subject(r)] = FailsAfterLogin(r, Subject(r))]
         /\ db'.until \in {db.until, [db.until EXCEPT ![Subject(r)] = "never"]}
         /\ db'.owner = db.owner
<1> DEFINE u == Subject(r)
           fails == [db.fails EXCEPT ![u] = FailsAfterLogin(r, u)]
           until == IF View(r).until[u] = "never" THEN db.until
                                                  ELSE [db.until EXCEPT ![u] = "never"]
           rows == [db.row EXCEPT ![s] = [user |-> u, family |-> s, status |-> "live"]]
<1>1. u \in WebUsers /\ u \in Users
  BY UsersAssumption DEF Base, Asked, LoginWebOk
<1>2. db \in DB
  BY DEF Base, TypeOK
<1>3. db' = [db EXCEPT !.row = rows, !.fails = fails, !.until = until]
  BY <1>1, <1>2 DEF LoginWebOk, Commit, Opened, DB
<1>4. fails \in [Users -> 0 .. MaxFailures - 1] /\ until \in [Users -> LockState]
  BY <1>1, <1>2, FailuresAssumption DEF DB, FailsAfterLogin, LockState
<1>5. db'.row = rows /\ db'.fails = fails /\ db'.until = until /\ db'.owner = db.owner
  <2> HIDE DEF rows, fails, until
  <2> QED BY <1>2, <1>3 DEF DB
<1>6. Opens(s, u)
  BY <1>5 DEF Opens, LoginWebOk
<1>7. RowsGrow /\ RowsWhole' /\ rows \in [Sids -> Row]
  BY <1>1, <1>5, <1>6, OpensRow
<1>8. db' \in DB
  <2> HIDE DEF rows, fails, until
  <2> QED BY <1>2, <1>3, <1>4, <1>7 DEF DB
<1>9. /\ AtMostOneEnds /\ misses' \in [Users -> Nat]
      /\ UNCHANGED <<expired, replays>>
  <2>1. req' = [req EXCEPT ![r] = Idle] /\ UNCHANGED <<expired, replays>>
    BY DEF LoginWebOk, Commit
  <2>2. misses \in [Users -> Nat] /\ misses' = [misses EXCEPT ![u] = 0]
    BY DEF LoginWebOk, Base, TypeOK
  <2>3. misses' \in [Users -> Nat]
    BY <1>1, <2>2
  <2> QED BY <2>1, <2>3 DEF AtMostOneEnds
<1>10. Base'
  <2> HIDE DEF rows, fails, until
  <2> QED BY <1>7, <1>8, <1>9, CommitStep DEF Base, TypeOK
<1> QED BY <1>1, <1>5, <1>6, <1>10

LEMMA LoginWebFailStep ==
  ASSUME Base, NEW r \in Reqs, LoginWebFail(r)
  PROVE  /\ Base' /\ db'.row = db.row /\ Subject(r) \in WebUsers
         /\ db'.fails = [db.fails EXCEPT ![Subject(r)] =
              IF Locks(r, Subject(r)) THEN 0 ELSE View(r).fails[Subject(r)] + 1]
         /\ db'.until \in {db.until, [db.until EXCEPT ![Subject(r)] = "future"]}
         /\ db'.owner = db.owner
<1> DEFINE u == Subject(r)
           count == IF Locks(r, u) THEN 0 ELSE View(r).fails[u] + 1
           fails == [db.fails EXCEPT ![u] = count]
           until == IF Locks(r, u) THEN [db.until EXCEPT ![u] = "future"] ELSE db.until
<1>1. u \in WebUsers /\ u \in Users
  BY UsersAssumption DEF Base, Asked, LoginWebFail
<1>2. db \in DB /\ View(r) \in DB
  BY DEF Base, TypeOK, Request, View
<1>3. db' = [db EXCEPT !.fails = fails, !.until = until]
  BY <1>1, <1>2 DEF LoginWebFail, Commit, DB
<1>4. count \in 0 .. MaxFailures - 1
  <2>1. View(r).fails[u] \in 0 .. MaxFailures - 1
    BY <1>1, <1>2 DEF DB
  <2> QED BY <2>1, FailuresAssumption DEF Locks
<1> HIDE DEF count
<1>5. fails \in [Users -> 0 .. MaxFailures - 1] /\ until \in [Users -> LockState]
  BY <1>1, <1>2, <1>4 DEF DB, LockState
<1>6. db'.row = db.row /\ db'.fails = fails /\ db'.until = until /\ db'.owner = db.owner
  <2> HIDE DEF fails, until
  <2> QED BY <1>2, <1>3 DEF DB
<1>7. db' \in DB
  <2> HIDE DEF fails, until
  <2> QED BY <1>2, <1>3, <1>5 DEF DB
<1>8. /\ AtMostOneEnds /\ misses' \in [Users -> Nat] /\ UNCHANGED <<expired, replays>>
  <2>1. req' = [req EXCEPT ![r] = Idle] /\ UNCHANGED <<expired, replays>>
    BY DEF LoginWebFail, Commit
  <2>2. misses \in [Users -> Nat]
        /\ misses' = [misses EXCEPT ![u] = IF Locks(r, u) THEN 0 ELSE @ + 1]
    BY DEF LoginWebFail, Base, TypeOK
  <2>3. misses' \in [Users -> Nat]
    BY <1>1, <2>2
  <2> QED BY <2>1, <2>3 DEF AtMostOneEnds
<1>9. Base'
  <2> HIDE DEF fails, until
  <2> QED BY <1>6, <1>7, <1>8, CommitStep, SameRows DEF Base, TypeOK
<1> QED BY <1>1, <1>6, <1>9 DEF count

LEMMA LockPassesStep ==
  ASSUME Base, NEW u \in Users, LockPasses(u)
  PROVE  /\ Base' /\ db'.row = db.row /\ db'.fails = db.fails /\ db'.owner = db.owner
         /\ db'.until = [db.until EXCEPT ![u] = "past"]
<1> DEFINE until == [db.until EXCEPT ![u] = "past"]
<1>1. db \in DB /\ db' = [db EXCEPT !.until = until]
  BY DEF Base, TypeOK, LockPasses
<1>2. until \in [Users -> LockState]
  BY <1>1 DEF DB, LockState
<1> HIDE DEF until
<1>3. /\ db'.row = db.row /\ db'.fails = db.fails /\ db'.owner = db.owner
      /\ db'.until = until /\ db' \in DB
  BY <1>1, <1>2 DEF DB
<1>4. AtMostOneEnds /\ UNCHANGED <<expired, replays, misses>>
  BY DEF LockPasses, AtMostOneEnds
<1>5. Base'
  BY <1>3, <1>4, CommitStep, SameRows DEF Base, TypeOK
<1> QED BY <1>3, <1>5 DEF until

LEMMA LoginWechatKnownStep ==
  ASSUME Base, NEW r \in Reqs, NEW s \in Sids, LoginWechatKnown(r, s)
  PROVE  /\ Base' /\ Opens(s, View(r).owner[Subject(r)])
         /\ View(r).owner[Subject(r)] \in Users
         /\ db'.fails = db.fails /\ db'.until = db.until /\ db'.owner = db.owner
<1> DEFINE u == View(r).owner[Subject(r)]
           rows == [db.row EXCEPT ![s] = [user |-> u, family |-> s, status |-> "live"]]
<1>1. db \in DB /\ View(r) \in DB /\ Subject(r) \in OpenIds
  BY DEF Base, TypeOK, Request, View, Asked, LoginWechatKnown
<1>2. u \in Users
  BY <1>1 DEF LoginWechatKnown, DB
<1>3. db' = [db EXCEPT !.row = rows]
  BY DEF LoginWechatKnown, Commit, Opened
<1>4. /\ db'.row = rows /\ db'.fails = db.fails /\ db'.until = db.until
      /\ db'.owner = db.owner
  <2> HIDE DEF rows
  <2> QED BY <1>1, <1>3 DEF DB
<1>5. Opens(s, u)
  BY <1>4 DEF Opens, LoginWechatKnown
<1>6. RowsGrow /\ RowsWhole' /\ rows \in [Sids -> Row]
  BY <1>2, <1>4, <1>5, OpensRow
<1>7. db' \in DB
  <2> HIDE DEF rows
  <2> QED BY <1>1, <1>3, <1>6 DEF DB
<1>8. AtMostOneEnds /\ UNCHANGED <<expired, replays, misses>>
  BY DEF LoginWechatKnown, Commit, AtMostOneEnds
<1>9. Base'
  BY <1>6, <1>7, <1>8, CommitStep DEF Base, TypeOK
<1> QED BY <1>2, <1>4, <1>5, <1>9

LEMMA LoginWechatNewStep ==
  ASSUME Base, NEW r \in Reqs, NEW s \in Sids, NEW u \in Users, LoginWechatNew(r, s, u)
  PROVE  /\ Base' /\ Opens(s, u)
         /\ db'.fails = db.fails /\ db'.until = db.until
         /\ db.owner[Subject(r)] = None /\ db'.owner = [db.owner EXCEPT ![Subject(r)] = u]
<1> DEFINE rows == [db.row EXCEPT ![s] = [user |-> u, family |-> s, status |-> "live"]]
           owners == [db.owner EXCEPT ![Subject(r)] = u]
<1>1. db \in DB
  BY DEF Base, TypeOK
<1>2. db' = [db EXCEPT !.row = rows, !.owner = owners]
  BY <1>1 DEF LoginWechatNew, Commit, Opened, DB
<1>3. owners \in [OpenIds -> Users \cup {None}]
  BY <1>1 DEF DB
<1>4. /\ db'.row = rows /\ db'.fails = db.fails /\ db'.until = db.until
      /\ db'.owner = owners
  <2> HIDE DEF rows, owners
  <2> QED BY <1>1, <1>2 DEF DB
<1>5. Opens(s, u)
  BY <1>4 DEF Opens, LoginWechatNew
<1>6. RowsGrow /\ RowsWhole' /\ rows \in [Sids -> Row]
  BY <1>4, <1>5, OpensRow
<1>7. db' \in DB
  <2> HIDE DEF rows, owners
  <2> QED BY <1>1, <1>2, <1>3, <1>6 DEF DB
<1>8. AtMostOneEnds /\ UNCHANGED <<expired, replays, misses>>
  BY DEF LoginWechatNew, Commit, AtMostOneEnds
<1>9. Base'
  BY <1>6, <1>7, <1>8, CommitStep DEF Base, TypeOK
<1> QED BY <1>4, <1>5, <1>9 DEF LoginWechatNew, IdentityFree

\* The other columns of an account are left alone.
OnlyRows == db'.fails = db.fails /\ db'.until = db.until /\ db'.owner = db.owner

LEMMA RotateStep ==
  ASSUME Base, NEW r \in Reqs, NEW s \in Sids, Rotate(r, s)
  PROVE  Base' /\ Subject(r) \in Sids /\ Replaces(Subject(r), s) /\ OnlyRows
<1> DEFINE c == Subject(r)
           rows == [db.row EXCEPT ![c].status = "revoked",
                                  ![s] = [db.row[c] EXCEPT !.status = "live"]]
<1>1. db \in DB /\ c \in Sids /\ db.row[c].status # "none"
  BY DEF Base, TypeOK, Asked, Rotate, Rotates
<1>2. db' = [db EXCEPT !.row = rows]
  BY <1>1 DEF Rotate, Commit, Rotated, DB
<1>3. db'.row = rows /\ OnlyRows
  <2> HIDE DEF rows
  <2> QED BY <1>1, <1>2 DEF DB, OnlyRows
<1>4. Replaces(c, s)
  BY <1>1, <1>3 DEF Replaces, Rotate
<1>5. RowsGrow /\ RowsWhole' /\ rows \in [Sids -> Row]
  BY <1>1, <1>3, <1>4, ReplacesRow
<1>6. db' \in DB
  <2> HIDE DEF rows
  <2> QED BY <1>1, <1>2, <1>5 DEF DB
<1>7. AtMostOneEnds /\ UNCHANGED <<expired, replays, misses>>
  BY DEF Rotate, Commit, AtMostOneEnds
<1>8. Base'
  BY <1>5, <1>6, <1>7, CommitStep DEF Base, TypeOK
<1> QED BY <1>1, <1>3, <1>4, <1>8

(* Sessions end, by a replay, a logout or a reset. *)
LEMMA EndStep ==
  ASSUME Base, AtMostOneEnds, NEW S, \A s \in S : db.row[s].status # "none",
         db' = [db EXCEPT !.row = [s \in Sids |->
                  IF s \in S THEN [db.row[s] EXCEPT !.status = "revoked"] ELSE db.row[s]]],
         UNCHANGED <<expired, misses>>, replays' \subseteq Sids,
         \A f \in replays' \ replays : db.row[f].status # "none"
  PROVE  Base' /\ Ends(S) /\ OnlyRows
<1> DEFINE rows == [s \in Sids |->
             IF s \in S THEN [db.row[s] EXCEPT !.status = "revoked"] ELSE db.row[s]]
<1>1. db \in DB /\ db' = [db EXCEPT !.row = rows]
  BY DEF Base, TypeOK
<1>2. db'.row = rows /\ OnlyRows
  <2> HIDE DEF rows
  <2> QED BY <1>1 DEF DB, OnlyRows
<1>3. Ends(S)
  BY <1>2 DEF Ends
<1>4. RowsGrow /\ RowsWhole' /\ rows \in [Sids -> Row]
  BY <1>2, <1>3, EndsRow
<1>5. db' \in DB
  <2> HIDE DEF rows
  <2> QED BY <1>1, <1>4 DEF DB
<1>6. Base'
  BY <1>4, <1>5, CommitStep DEF Base, TypeOK
<1> QED BY <1>2, <1>3, <1>6

LEMMA ReplayStep ==
  ASSUME Base, NEW r \in Reqs, Replay(r)
  PROVE  /\ Base' /\ Subject(r) \in Sids /\ db.row[Subject(r)].family \in Sids
         /\ View(r).row[Subject(r)].family = db.row[Subject(r)].family
         /\ Ends(Struck(r, Subject(r))) /\ OnlyRows
<1> DEFINE c == Subject(r)
<1>1. /\ c \in Sids /\ db.row[c].family \in Sids
      /\ db.row[db.row[c].family].status # "none"
      /\ View(r).row[c].family = db.row[c].family
  BY DEF Base, Asked, RowsWhole, SnapshotRows, SameFamily, Replay
<1>2. \A s \in Struck(r, c) : db.row[s].status # "none"
  BY DEF Struck, Live, Base, SnapshotRows
<1>3. /\ db' = [db EXCEPT !.row = [s \in Sids |->
                  IF s \in Struck(r, c) THEN [db.row[s] EXCEPT !.status = "revoked"]
                                        ELSE db.row[s]]]
      /\ req' = [req EXCEPT ![r] = Idle] /\ UNCHANGED <<expired, misses>>
      /\ replays' \subseteq replays \cup {db.row[c].family}
  BY DEF Replay, Commit
<1>4. AtMostOneEnds
  BY <1>3 DEF AtMostOneEnds
<1>5. replays' \subseteq Sids
  BY <1>1, <1>3 DEF Base, TypeOK
<1> QED BY <1>1, <1>2, <1>3, <1>4, <1>5, EndStep

LEMMA LogoutStep ==
  ASSUME Base, NEW s \in Sids, Logout(s)
  PROVE  Base' /\ Ends({s}) /\ OnlyRows
<1>1. db \in DB /\ db.row \in [Sids -> Row]
  BY DEF Base, TypeOK, DB
<1>2. [db.row EXCEPT ![s].status = "revoked"]
        = [t \in Sids |-> IF t \in {s} THEN [db.row[t] EXCEPT !.status = "revoked"]
                                       ELSE db.row[t]]
  BY <1>1
<1>3. db' = [db EXCEPT !.row = [t \in Sids |->
               IF t \in {s} THEN [db.row[t] EXCEPT !.status = "revoked"] ELSE db.row[t]]]
  BY <1>2 DEF Logout
<1>4. AtMostOneEnds /\ UNCHANGED <<expired, misses, replays>> /\ db.row[s].status # "none"
  BY DEF Logout, AtMostOneEnds
<1> QED BY <1>3, <1>4, EndStep DEF Base, TypeOK

LEMMA ResetStep ==
  ASSUME Base, NEW r \in Reqs, ResetRevokes(r)
  PROVE  Base' /\ Ends(Found(r)) /\ OnlyRows
<1>1. \A s \in Found(r) : db.row[s].status # "none"
  BY DEF Found, Base, SnapshotRows
<1>2. /\ db' = [db EXCEPT !.row = [s \in Sids |->
                  IF s \in Found(r) THEN [db.row[s] EXCEPT !.status = "revoked"]
                                    ELSE db.row[s]]]
      /\ req' = [req EXCEPT ![r] = Idle] /\ UNCHANGED <<expired, misses, replays>>
  BY DEF ResetRevokes, Commit
<1>3. AtMostOneEnds
  BY <1>2 DEF AtMostOneEnds
<1> QED BY <1>1, <1>2, <1>3, EndStep DEF Base, TypeOK

(* A step that leaves the rows alone. *)
LEMMA QuietStep ==
  ASSUME Base, AtMostOneEnds, db' = db, expired' \subseteq Sids,
         UNCHANGED <<replays, misses>>
  PROVE  Base' /\ OnlyRows /\ db'.row = db.row
  BY CommitStep, SameRows DEF Base, TypeOK, OnlyRows
-----------------------------------------------------------------------------
(* The invariant, and what holds of every client *)

\* The four ways a request begins.
Begins(r, k, subject) ==
  /\ k \in RequestKind \ {"none"}
  /\ k = "web" => subject \in WebUsers /\ Unlocked(db, subject)
  /\ k = "wechat" => subject \in OpenIds
  /\ k = "reset" => subject \in Users
  /\ k = "refresh" => subject \in Sids /\ db.row[subject].status # "none"
  /\ Begin(r, k, subject)

\* A step, by what it does to the rows.
Steps ==
  \/ \E r \in Reqs : \E k, subject : Begins(r, k, subject)
  \/ \E r \in Reqs, s \in Sids : LoginWebOk(r, s)
  \/ \E r \in Reqs : LoginWebFail(r)
  \/ \E u \in Users : LockPasses(u)
  \/ \E r \in Reqs, s \in Sids : LoginWechatKnown(r, s)
  \/ \E r \in Reqs, s \in Sids, u \in Users : LoginWechatNew(r, s, u)
  \/ \E r \in Reqs, s \in Sids : Rotate(r, s)
  \/ \E r \in Reqs : Replay(r)
  \/ \E s \in Sids : Logout(s)
  \/ \E r \in Reqs : ResetRevokes(r)
  \/ /\ AtMostOneEnds /\ db' = db /\ expired' \subseteq Sids
     /\ UNCHANGED <<replays, misses>>

LEMMA NextSteps ==
  ASSUME Base, [Next]_vars
  PROVE  Steps
<1>1. ASSUME NEW r \in Reqs, NEW u \in Users, LoginWeb(r, u) \/ Reset(r, u) PROVE Steps
  <2>1. Begins(r, "web", u) \/ Begins(r, "reset", u)
    BY <1>1 DEF Begins, LoginWeb, Reset, RequestKind
  <2> QED BY <2>1 DEF Steps
<1>2. ASSUME NEW r \in Reqs, NEW o \in OpenIds, LoginWechat(r, o) PROVE Steps
  <2>1. Begins(r, "wechat", o)
    BY <1>2 DEF Begins, LoginWechat, RequestKind
  <2> QED BY <2>1 DEF Steps
<1>3. ASSUME NEW r \in Reqs, NEW s \in Sids, Refresh(r, s) PROVE Steps
  <2>1. Begins(r, "refresh", s)
    BY <1>3 DEF Begins, Refresh, RequestKind
  <2> QED BY <2>1 DEF Steps
<1>4. ASSUME \/ \E s \in Sids : Expire(s)
             \/ \E r \in Reqs : Rollback(r)
             \/ UNCHANGED vars
      PROVE  /\ AtMostOneEnds /\ db' = db /\ expired' \subseteq Sids
             /\ UNCHANGED <<replays, misses>>
  BY <1>4 DEF Expire, Rollback, AtMostOneEnds, vars, Base, TypeOK
<1> QED BY <1>1, <1>2, <1>3, <1>4 DEF Next, Steps

LEMMA BaseStep == Base /\ [Next]_vars => Base'
<1> SUFFICES ASSUME Base, [Next]_vars PROVE Base'
  OBVIOUS
<1>1. ASSUME NEW r \in Reqs, NEW k, NEW subject, Begins(r, k, subject) PROVE Base'
  BY <1>1, BeginStep DEF Begins
<1> QED
  BY <1>1, NextSteps, LoginWebOkStep, LoginWebFailStep, LockPassesStep,
     LoginWechatKnownStep, LoginWechatNewStep, RotateStep, ReplayStep, LogoutStep,
     ResetStep, QuietStep
  DEF Steps

LEMMA BaseInvariant == Spec => []Base
BY Start, BaseStep, PTL DEF Spec

(* Rows and snapshots keep their types: the count of wrong passwords never  *)
(* reaches login_max_failed (_register_login_failure), and a session always *)
(* has its family (_issue_session).                                         *)
THEOREM TypeCorrect == Spec => []TypeOK
<1>1. Base => TypeOK
  BY DEF Base
<1> QED BY <1>1, BaseInvariant, PTL

(* A WeChat identity keeps its account, however many first logins of it run *)
(* at once (login_wechat and the unique index).                             *)
THEOREM IdentityKeepsAccount == Spec => IdentityStable
<1> DEFINE Kept == \A o \in OpenIds : db.owner[o] # None => db'.owner[o] = db.owner[o]
<1>1. Base /\ [Next]_vars => Kept
  <2> SUFFICES ASSUME Base, [Next]_vars PROVE Kept
    OBVIOUS
  <2>1. db.owner \in [OpenIds -> Users \cup {None}]
    BY DEF Base, TypeOK, DB
  <2>2. ASSUME db'.owner = db.owner PROVE Kept
    BY <2>2
  <2>3. ASSUME NEW r \in Reqs, NEW s \in Sids, NEW u \in Users, LoginWechatNew(r, s, u)
        PROVE  Kept
    BY <2>1, <2>3, LoginWechatNewStep
  <2> HIDE DEF Kept
  <2>4. ASSUME NEW r \in Reqs, NEW k, NEW subject, Begins(r, k, subject) PROVE Kept
    BY <2>2, <2>4 DEF Begins, Begin
  <2> QED
    BY <2>2, <2>3, <2>4, NextSteps, LoginWebOkStep, LoginWebFailStep, LockPassesStep,
       LoginWechatKnownStep, RotateStep, ReplayStep, LogoutStep, ResetStep, QuietStep
    DEF Steps, OnlyRows
<1>2. IdentityStable <=> [][Kept]_vars
  BY PTL DEF IdentityStable
<1> QED BY <1>1, <1>2, BaseInvariant, PTL DEF Spec

(* A reset leaves its target no session that was there when it began,       *)
(* whatever was rotated or ended meanwhile (student_binding_reset).         *)
THEOREM ResetLeavesNothingOld == Spec => ResetEndsSessions
<1> DEFINE Over ==
      \A r \in Reqs : ResetRevokes(r) =>
        \A s \in Sids :
          db'.row[s].user = Subject(r) /\ db'.row[s].status = "live" =>
            View(r).row[s].status = "none"
<1>1. Base /\ [Next]_vars => Over
  <2> SUFFICES ASSUME Base, NEW r \in Reqs, ResetRevokes(r), NEW s \in Sids,
                      db'.row[s].status = "live", View(r).row[s].status # "none"
               PROVE  FALSE
    OBVIOUS
  <2>1. /\ db.row[s].status # "none" /\ db.row[s].user = Subject(r)
        /\ View(r).row[s].user = Subject(r)
        /\ View(r).row[s].status = "revoked" => db.row[s].status = "revoked"
    BY DEF Base, SnapshotRows, SameFamily, ResetRevokes
  <2>2. Ends(Found(r)) /\ db.row \in [Sids -> Row] /\ View(r).row[s] \in Row
    BY ResetStep DEF Base, TypeOK, DB, Request, View
  <2>3. s \notin Found(r)
    BY <2>2 DEF Ends, Row
  <2>4. db'.row[s] = db.row[s] /\ View(r).row[s].status # "live"
    BY <2>1, <2>2, <2>3 DEF Ends, Found
  <2> QED BY <2>1, <2>2, <2>4 DEF Row
<1>2. ResetEndsSessions <=> [][Over]_vars
  BY PTL DEF ResetEndsSessions
<1> QED BY <1>1, <1>2, BaseInvariant, PTL DEF Spec
-----------------------------------------------------------------------------
(* The usable credentials of a family, and the rotations of it that are     *)
(* under way                                                                *)

\* The family of the credential that request r presents.
Family(r) == db.row[Subject(r)].family

\* A rotation under way is of a family that exists, and goes on with it.
LEMMA RotationsKept ==
  ASSUME Base, AtMostOneEnds, RowsGrow
  PROVE  \A q \in Reqs : Rotates(q)' =>
           req'[q] = req[q] /\ Rotates(q) /\ Family(q)' = Family(q)
<1> SUFFICES ASSUME NEW q \in Reqs, Rotates(q)'
             PROVE  req'[q] = req[q] /\ Rotates(q) /\ Family(q)' = Family(q)
  OBVIOUS
<1>1. req'[q].kind = "refresh" /\ req'[q].snap.row[req'[q].subject].status = "live"
  BY DEF Rotates, View, Subject
<1>2. req'[q] = req[q]
  BY <1>1, IdleSees DEF AtMostOneEnds, Base, TypeOK
<1>3. Rotates(q)
  BY <1>1, <1>2 DEF Rotates, View, Subject
<1>4. Family(q)' = Family(q)
  BY <1>1, <1>2 DEF Base, Asked, Family, Subject, RowsGrow, SameFamily
<1> QED BY <1>2, <1>3, <1>4

LEMMA FamilyExists ==
  ASSUME Base, NEW q \in Reqs, Rotates(q)
  PROVE  /\ Subject(q) \in Sids /\ Family(q) \in Sids
         /\ db.row[Subject(q)].status # "none" /\ db.row[Family(q)].status # "none"
  BY DEF Base, Asked, RowsWhole, Rotates, Family

(* A session that is opened is the first of a new family. *)
LEMMA OpensLive ==
  ASSUME Base, NEW s \in Sids, NEW u \in Users, Opens(s, u)
  PROVE  /\ \A f \in Sids : f # s => Live(db', f) = Live(db, f)
         /\ Live(db', s) \subseteq {s}
         /\ db.row[s].status = "none"
<1>1. db.row \in [Sids -> Row]
  BY DEF Base, TypeOK, DB
<1>2. /\ db'.row[s] = [user |-> u, family |-> s, status |-> "live"]
      /\ \A t \in Sids : t # s => db'.row[t] = db.row[t]
  BY <1>1 DEF Opens
<1>3. \A t \in Sids : db.row[t].status # "none" => db.row[t].family # s
  BY NoRowNone DEF Base, RowsWhole, Opens
<1>4. \A f \in Sids : f # s => Live(db', f) = Live(db, f)
  BY <1>2, NoRowNone DEF Live, Opens
<1>5. Live(db', s) \subseteq {s}
  BY <1>2, <1>3 DEF Live
<1> QED BY <1>4, <1>5, NoRowNone DEF Opens

LEMMA EndsLive ==
  ASSUME Base, NEW S, Ends(S)
  PROVE  \A f : Live(db', f) \subseteq Live(db, f) \ S
<1>1. \A s \in Sids : /\ s \in S => db'.row[s] = [db.row[s] EXCEPT !.status = "revoked"]
                      /\ s \notin S => db'.row[s] = db.row[s]
  BY DEF Ends
<1>2. db.row \in [Sids -> Row]
  BY DEF Base, TypeOK, DB
<1> QED BY <1>1, <1>2 DEF Live, Row

LEMMA RotateLive ==
  ASSUME Base, NEW r \in Reqs, NEW s \in Sids, Rotate(r, s)
  PROVE  /\ \A g \in Sids : g # Family(r) => Live(db', g) = Live(db, g)
         /\ Live(db', Family(r)) \subseteq (Live(db, Family(r)) \ {Subject(r)}) \cup {s}
<1> DEFINE c == Subject(r)
           f == Family(r)
<1>1. c \in Sids /\ Replaces(c, s) /\ f \in Sids
  BY RotateStep, FamilyExists DEF Rotate
<1>2. db.row \in [Sids -> Row] /\ c # s
  BY <1>1, NoRowNone DEF Base, TypeOK, DB, Replaces
<1>3. /\ db'.row[s] = [db.row[c] EXCEPT !.status = "live"]
      /\ db'.row[c] = [db.row[c] EXCEPT !.status = "revoked"]
      /\ \A t \in Sids : t # s /\ t # c => db'.row[t] = db.row[t]
  BY <1>1, <1>2 DEF Replaces
<1>4. db'.row[s].family = f /\ db'.row[c].family = f /\ db'.row[c].status = "revoked"
  BY <1>1, <1>2, <1>3 DEF Row, Family
<1>5. ASSUME NEW g \in Sids, g # f PROVE Live(db', g) = Live(db, g)
  <2>1. db.row[s].family # g /\ db.row[c].family = f
    BY <1>1, NoRowNone DEF Replaces, Family
  <2> QED BY <1>3, <1>4, <1>5, <2>1 DEF Live
<1>6. Live(db', f) \subseteq (Live(db, f) \ {c}) \cup {s}
  BY <1>3, <1>4 DEF Live
<1> QED BY <1>5, <1>6

(* A refresh that begins sees its credential as it is. *)
LEMMA RefreshBegins ==
  ASSUME Base, NEW r \in Reqs, NEW k, NEW subject, Begins(r, k, subject)
  PROVE  /\ UNCHANGED <<db, replays, misses>>
         /\ \A q \in Reqs : Rotates(q)' =>
              \/ req'[q] = req[q] /\ Rotates(q) /\ Family(q)' = Family(q)
              \/ /\ q = r /\ k = "refresh" /\ Subject(q)' = subject /\ subject \in Sids
                 /\ db.row[subject].status = "live"
                 /\ Family(q)' = db.row[subject].family
<1> DEFINE q0 == [kind |-> k, subject |-> subject, snap |-> Rows(k, subject)]
<1>1. UNCHANGED <<db, replays, misses>> /\ req' = [req EXCEPT ![r] = q0]
  BY DEF Begins, Begin
<1>2. req'[r] = q0 /\ \A p \in Reqs : p # r => req'[p] = req[p]
  BY <1>1 DEF Base, TypeOK
<1>3. ASSUME NEW q \in Reqs, Rotates(q)', q # r
      PROVE  req'[q] = req[q] /\ Rotates(q) /\ Family(q)' = Family(q)
  BY <1>1, <1>2, <1>3 DEF Rotates, View, Subject, Family
<1>4. ASSUME Rotates(r)'
      PROVE  /\ k = "refresh" /\ Subject(r)' = subject /\ subject \in Sids
             /\ db.row[subject].status = "live"
             /\ Family(r)' = db.row[subject].family
  <2>1. k = "refresh" /\ Subject(r)' = subject
        /\ Rows(k, subject).row[subject].status = "live"
    BY <1>2, <1>4 DEF Rotates, View, Subject
  <2>2. subject \in Sids /\ Rows(k, subject).row[subject] = db.row[subject]
    BY <2>1, RowsRead DEF Begins
  <2> QED BY <1>1, <2>1, <2>2 DEF Family
<1> QED BY <1>1, <1>3, <1>4
-----------------------------------------------------------------------------
(* Rotation, when a client uses a credential one time after the other       *)

RotationAlone ==
  \A r, q \in Reqs : Rotates(r) /\ Rotates(q) /\ Family(r) = Family(q) => r = q

\* What is usable in a family that is being rotated is what the rotation ends.
RotationEndsLast ==
  \A r \in Reqs : Rotates(r) => Live(db, Family(r)) \subseteq {Subject(r)}

Rotation == RotationAlone /\ RotationEndsLast /\ OneLivePerFamily

LEMMA RotationStart == Init => Rotation
<1> SUFFICES ASSUME Init PROVE Rotation
  OBVIOUS
<1>1. \A f : Live(db, f) = {}
  BY NoRowNone DEF Init, InitDB, Live
<1>2. \A r \in Reqs : ~Rotates(r)
  BY IdleSees DEF Init, Rotates
<1> QED BY <1>1, <1>2 DEF Rotation, RotationAlone, RotationEndsLast, OneLivePerFamily

LEMMA RotationBegins ==
  ASSUME Base, Rotation, "refresh" \in SerialKinds,
         NEW r \in Reqs, NEW k, NEW subject, Begins(r, k, subject)
  PROVE  Rotation'
<1> DEFINE New(q) == /\ q = r /\ k = "refresh" /\ Subject(q)' = subject
                     /\ subject \in Sids /\ db.row[subject].status = "live"
                     /\ Family(q)' = db.row[subject].family
           Old(q) == req'[q] = req[q] /\ Rotates(q) /\ Family(q)' = Family(q)
<1>1. db' = db /\ \A q \in Reqs : Rotates(q)' => Old(q) \/ New(q)
  BY RefreshBegins
<1>2. OneLivePerFamily'
  BY <1>1 DEF Rotation, OneLivePerFamily, Live
<1>3. ASSUME NEW p \in Reqs, NEW q \in Reqs, New(p), Old(q) PROVE Family(p)' # Family(q)'
  <2> SUFFICES ASSUME Family(q) = db.row[subject].family PROVE FALSE
    BY <1>3
  <2>1. subject \in Live(db, Family(q))
    BY <1>3 DEF Live
  <2>2. subject = Subject(q)
    BY <1>3, <2>1 DEF Rotation, RotationEndsLast
  <2>3. ~Waits(k, subject)
    BY DEF Begins, Begin
  <2> QED BY <1>3, <2>2, <2>3 DEF Waits, Rotates, Subject
<1>4. RotationAlone'
  <2> HIDE DEF New, Old
  <2> SUFFICES ASSUME NEW p \in Reqs, NEW q \in Reqs, Rotates(p)', Rotates(q)',
                      Family(p)' = Family(q)'
               PROVE  p = q
    BY DEF RotationAlone
  <2>1. CASE Old(p) /\ Old(q)
    BY <2>1 DEF Rotation, RotationAlone, Old
  <2>2. CASE New(p) /\ New(q)
    BY <2>2 DEF New
  <2> QED BY <1>1, <1>3, <2>1, <2>2
<1>5. RotationEndsLast'
  <2> SUFFICES ASSUME NEW q \in Reqs, Rotates(q)'
               PROVE  Live(db, Family(q)') \subseteq {Subject(q)'}
    BY <1>1 DEF RotationEndsLast, Live
  <2>1. CASE Old(q)
    BY <2>1 DEF Rotation, RotationEndsLast, Subject
  <2>2. CASE New(q)
    <3>1. subject \in Live(db, db.row[subject].family) /\ db.row[subject].family \in Sids
      BY <2>2 DEF Live, Base, RowsWhole
    <3> QED BY <2>2, <3>1 DEF Rotation, OneLivePerFamily
  <2> QED BY <1>1, <2>1, <2>2
<1> QED BY <1>2, <1>4, <1>5 DEF Rotation

(* A commit keeps the rest of Rotation when it makes no session usable in a *)
(* family that some other request rotates.                                  *)
LEMMA RotationCommit ==
  ASSUME Base, Rotation, AtMostOneEnds, RowsGrow, OneLivePerFamily',
         \A q \in Reqs : Rotates(q) /\ req'[q] = req[q] =>
           Live(db', Family(q)) \subseteq Live(db, Family(q))
  PROVE  Rotation'
<1>1. \A q \in Reqs : Rotates(q)' =>
        req'[q] = req[q] /\ Rotates(q) /\ Family(q)' = Family(q)
  BY RotationsKept
<1>2. RotationAlone'
  BY <1>1 DEF Rotation, RotationAlone
<1>3. RotationEndsLast'
  <2> SUFFICES ASSUME NEW q \in Reqs, Rotates(q)'
               PROVE  Live(db', Family(q)') \subseteq {req'[q].subject}
    BY DEF RotationEndsLast, Live, Subject
  <2> QED BY <1>1 DEF Rotation, RotationEndsLast, Subject
<1> QED BY <1>2, <1>3 DEF Rotation

LEMMA OpensRotation ==
  ASSUME Base, Rotation, AtMostOneEnds, NEW s \in Sids, NEW u \in Users, Opens(s, u)
  PROVE  Rotation'
<1>1. OneLivePerFamily'
  <2>1. ASSUME NEW f \in Sids PROVE \A x, y \in Live(db', f) : x = y
    BY OpensLive DEF Rotation, OneLivePerFamily
  <2> QED BY <2>1 DEF OneLivePerFamily, Live
<1>2. \A q \in Reqs : Rotates(q) => Family(q) \in Sids /\ Family(q) # s
  BY FamilyExists, OpensLive
<1> QED BY <1>1, <1>2, OpensLive, OpensRow, RotationCommit

LEMMA EndsRotation ==
  ASSUME Base, Rotation, AtMostOneEnds, NEW S, Ends(S)
  PROVE  Rotation'
<1>1. \A f : Live(db', f) \subseteq Live(db, f)
  BY EndsLive
<1>2. OneLivePerFamily'
  BY <1>1 DEF Rotation, OneLivePerFamily, Live
<1> QED BY <1>1, <1>2, EndsRow, RotationCommit

LEMMA SameRotation ==
  ASSUME Base, Rotation, AtMostOneEnds, db'.row = db.row
  PROVE  Rotation'
<1>1. \A f : Live(db', f) = Live(db, f)
  BY DEF Live
<1>2. OneLivePerFamily'
  BY <1>1 DEF Rotation, OneLivePerFamily, Live
<1> QED BY <1>1, <1>2, SameRows, RotationCommit

LEMMA RotateRotation ==
  ASSUME Base, Rotation, NEW r \in Reqs, NEW s \in Sids, Rotate(r, s)
  PROVE  Rotation'
<1>1. /\ Rotates(r) /\ Subject(r) \in Sids /\ Replaces(Subject(r), s) /\ AtMostOneEnds
      /\ req' = [req EXCEPT ![r] = Idle]
  BY RotateStep DEF Rotate, Commit, AtMostOneEnds
<1>2. Live(db', Family(r)) \subseteq {s}
  BY <1>1, RotateLive DEF Rotation, RotationEndsLast
<1>3. OneLivePerFamily'
  <2>1. ASSUME NEW f \in Sids PROVE \A x, y \in Live(db', f) : x = y
    BY <1>2, RotateLive DEF Rotation, OneLivePerFamily
  <2> QED BY <2>1 DEF OneLivePerFamily, Live
<1>4. \A q \in Reqs : Rotates(q) /\ req'[q] = req[q] => Family(q) \in Sids /\ Family(q) # Family(r)
  <2>1. req'[r] # req[r]
    BY <1>1, IdleSees DEF Base, TypeOK, Rotates
  <2> QED BY <1>1, <2>1, FamilyExists DEF Rotation, RotationAlone
<1>5. \A q \in Reqs : Rotates(q) /\ req'[q] = req[q] =>
        Live(db', Family(q)) \subseteq Live(db, Family(q))
  BY <1>4, RotateLive
<1> QED BY <1>1, <1>3, <1>5, ReplacesRow, RotationCommit

LEMMA RotationStep ==
  ASSUME Base, Rotation, "refresh" \in SerialKinds, [Next]_vars
  PROVE  Rotation'
<1> USE DEF AtMostOneEnds
<1>1. ASSUME NEW r \in Reqs, NEW k, NEW subject, Begins(r, k, subject) PROVE Rotation'
  BY <1>1, RotationBegins
<1>2. ASSUME NEW r \in Reqs, NEW s \in Sids, LoginWebOk(r, s) PROVE Rotation'
  BY <1>2, LoginWebOkStep, UsersAssumption, OpensRotation DEF LoginWebOk, Commit
<1>3. ASSUME NEW r \in Reqs, LoginWebFail(r) PROVE Rotation'
  BY <1>3, LoginWebFailStep, SameRotation DEF LoginWebFail, Commit
<1>4. ASSUME NEW u \in Users, LockPasses(u) PROVE Rotation'
  BY <1>4, LockPassesStep, SameRotation DEF LockPasses
<1>5. ASSUME NEW r \in Reqs, NEW s \in Sids, LoginWechatKnown(r, s) PROVE Rotation'
  BY <1>5, LoginWechatKnownStep, OpensRotation DEF LoginWechatKnown, Commit
<1>6. ASSUME NEW r \in Reqs, NEW s \in Sids, NEW u \in Users, LoginWechatNew(r, s, u)
      PROVE  Rotation'
  BY <1>6, LoginWechatNewStep, OpensRotation DEF LoginWechatNew, Commit
<1>7. ASSUME NEW r \in Reqs, NEW s \in Sids, Rotate(r, s) PROVE Rotation'
  BY <1>7, RotateRotation
<1>8. ASSUME NEW r \in Reqs, Replay(r) PROVE Rotation'
  BY <1>8, ReplayStep, EndsRotation DEF Replay, Commit
<1>9. ASSUME NEW s \in Sids, Logout(s) PROVE Rotation'
  BY <1>9, LogoutStep, EndsRotation DEF Logout
<1>10. ASSUME NEW r \in Reqs, ResetRevokes(r) PROVE Rotation'
  BY <1>10, ResetStep, EndsRotation DEF ResetRevokes, Commit
<1>11. ASSUME AtMostOneEnds, db' = db PROVE Rotation'
  BY <1>11, SameRotation
<1> QED
  BY <1>1, <1>2, <1>3, <1>4, <1>5, <1>6, <1>7, <1>8, <1>9, <1>10, <1>11, NextSteps
  DEF Steps

(* A family has one usable credential, if its client waits for the answer   *)
(* of a refresh before it uses the same credential again; logins, logouts,  *)
(* resets and replays of its old credentials may run at once with it        *)
(* (refresh).                                                               *)
THEOREM RotationLeavesOne == "refresh" \in SerialKinds => (Spec => []OneLivePerFamily)
<1> SUFFICES ASSUME "refresh" \in SerialKinds PROVE Spec => []OneLivePerFamily
  OBVIOUS
<1>1. Base /\ Rotation /\ [Next]_vars => Rotation'
  BY RotationStep
<1>2. Rotation => OneLivePerFamily
  BY DEF Rotation
<1> QED BY <1>1, <1>2, RotationStart, BaseInvariant, PTL DEF Spec
-----------------------------------------------------------------------------
(* Replay, of any client                                                    *)

\* A family in which a replay was answered is over, and no rotation of it that
\* could bring it back is under way.
ReplaysOver ==
  \A f \in replays :
    /\ Live(db, f) = {}
    /\ \A r \in Reqs : Rotates(r) => Family(r) # f

LEMMA ReplaysOverStart == Init => ReplaysOver
BY DEF Init, ReplaysOver

LEMMA ReplaysOverBegins ==
  ASSUME Base, ReplaysOver, NEW r \in Reqs, NEW k, NEW subject, Begins(r, k, subject)
  PROVE  ReplaysOver'
<1>1. UNCHANGED <<db, replays>>
  BY RefreshBegins
<1>2. \A q \in Reqs : Rotates(q)' =>
        \/ Rotates(q) /\ Family(q)' = Family(q)
        \/ /\ subject \in Sids /\ db.row[subject].status = "live"
           /\ Family(q)' = db.row[subject].family
  BY RefreshBegins
<1>3. ASSUME NEW f \in replays, NEW q \in Reqs, Rotates(q)' PROVE Family(q)' # f
  <2>1. CASE Rotates(q) /\ Family(q)' = Family(q)
    BY <1>3, <2>1 DEF ReplaysOver
  <2>2. CASE /\ subject \in Sids /\ db.row[subject].status = "live"
             /\ Family(q)' = db.row[subject].family
    <3>1. subject \in Live(db, db.row[subject].family)
      BY <2>2 DEF Live
    <3> QED BY <1>3, <2>2, <3>1 DEF ReplaysOver
  <2> QED BY <1>2, <1>3, <2>1, <2>2
<1>4. \A f \in replays : Live(db', f) = {}
  BY <1>1 DEF ReplaysOver
<1> QED BY <1>1, <1>3, <1>4 DEF ReplaysOver, Live

(* A commit keeps ReplaysOver when it makes no session usable in a family   *)
(* of replays.                                                              *)
LEMMA ReplaysOverCommit ==
  ASSUME Base, ReplaysOver, AtMostOneEnds, RowsGrow, replays' = replays,
         \A f \in replays : Live(db', f) \subseteq Live(db, f)
  PROVE  ReplaysOver'
<1>1. \A q \in Reqs : Rotates(q)' => Rotates(q) /\ Family(q)' = Family(q)
  BY RotationsKept
<1>2. \A f \in replays : Live(db', f) = {}
  BY DEF ReplaysOver
<1> QED BY <1>1, <1>2 DEF ReplaysOver, Live

LEMMA OpensReplays ==
  ASSUME Base, ReplaysOver, AtMostOneEnds, NEW s \in Sids, NEW u \in Users, Opens(s, u),
         replays' = replays
  PROVE  ReplaysOver'
<1>1. \A f \in replays : f \in Sids /\ f # s
  BY OpensLive DEF Base, TypeOK, ReplaysReal
<1> QED BY <1>1, OpensLive, OpensRow, ReplaysOverCommit

LEMMA EndsReplays ==
  ASSUME Base, ReplaysOver, AtMostOneEnds, NEW S, Ends(S), replays' = replays
  PROVE  ReplaysOver'
BY EndsLive, EndsRow, ReplaysOverCommit

LEMMA SameReplays ==
  ASSUME Base, ReplaysOver, AtMostOneEnds, db'.row = db.row, replays' = replays
  PROVE  ReplaysOver'
<1>1. \A f : Live(db', f) = Live(db, f)
  BY DEF Live
<1> QED BY <1>1, SameRows, ReplaysOverCommit

LEMMA RotateReplays ==
  ASSUME Base, ReplaysOver, NEW r \in Reqs, NEW s \in Sids, Rotate(r, s)
  PROVE  ReplaysOver'
<1>1. /\ Rotates(r) /\ Subject(r) \in Sids /\ Replaces(Subject(r), s)
      /\ AtMostOneEnds /\ replays' = replays
  BY RotateStep DEF Rotate, Commit, AtMostOneEnds
<1>2. \A f \in replays : f \in Sids /\ f # Family(r)
  BY <1>1 DEF ReplaysOver, Base, TypeOK
<1> QED BY <1>1, <1>2, RotateLive, ReplacesRow, ReplaysOverCommit

(* The replay itself: no rotation of the family has committed since it was  *)
(* read, so that what was usable is struck, and none is under way.          *)
LEMMA ReplayReplays ==
  ASSUME Base, ReplaysOver, NEW r \in Reqs, Replay(r)
  PROVE  ReplaysOver'
<1> DEFINE c == Subject(r)
           f == Family(r)
           S == Struck(r, c)
<1>1. /\ c \in Sids /\ f \in Sids /\ View(r).row[c].family = f /\ Ends(S)
      /\ AtMostOneEnds
      /\ replays' = IF RotatedBeside(r) THEN replays ELSE replays \cup {f}
  BY ReplayStep DEF Replay, Commit, Family, AtMostOneEnds
<1>2. RowsGrow /\ \A g : Live(db', g) \subseteq Live(db, g) \ S
  BY <1>1, EndsRow, EndsLive
<1>3. CASE RotatedBeside(r)
  BY <1>1, <1>3, EndsReplays
<1>4. CASE ~RotatedBeside(r)
  <2>1. /\ \A s \in Sids : db.row[s].family = f => View(r).row[s].status # "none"
        /\ \A q \in Reqs : Rotates(q) => Family(q) # f
    BY <1>4 DEF RotatedBeside, Family
  <2>2. View(r).row \in [Sids -> Row]
    BY DEF Base, TypeOK, Request, View, DB
  <2>3. Live(db, f) \subseteq S
    <3> SUFFICES ASSUME NEW s \in Sids, db.row[s].family = f, db.row[s].status = "live"
                 PROVE  s \in S
      BY DEF Live
    <3>1. /\ View(r).row[s].status \notin {"none", "revoked"}
          /\ View(r).row[s].family = f
      BY <2>1 DEF Base, SnapshotRows, SameFamily
    <3>2. View(r).row[s].status = "live"
      BY <2>2, <3>1 DEF Row
    <3> QED BY <1>1, <3>1, <3>2 DEF Struck, Live
  <2>4. Live(db', f) = {}
    BY <1>2, <2>3
  <2>5. \A q \in Reqs : Rotates(q)' => Rotates(q) /\ Family(q)' = Family(q)
    BY <1>1, <1>2, RotationsKept
  <2>6. \A g \in replays' : Live(db', g) = {}
    BY <1>1, <1>2, <2>4 DEF ReplaysOver
  <2>7. \A g \in replays' : \A q \in Reqs : Rotates(q) => Family(q) # g
    BY <1>1, <2>1 DEF ReplaysOver
  <2> QED BY <2>5, <2>6, <2>7 DEF ReplaysOver, Live
<1> QED BY <1>3, <1>4

LEMMA ReplaysOverStep ==
  ASSUME Base, ReplaysOver, [Next]_vars
  PROVE  ReplaysOver'
<1> USE DEF AtMostOneEnds
<1>1. ASSUME NEW r \in Reqs, NEW k, NEW subject, Begins(r, k, subject) PROVE ReplaysOver'
  BY <1>1, ReplaysOverBegins
<1>2. ASSUME NEW r \in Reqs, NEW s \in Sids, LoginWebOk(r, s) PROVE ReplaysOver'
  BY <1>2, LoginWebOkStep, UsersAssumption, OpensReplays DEF LoginWebOk, Commit
<1>3. ASSUME NEW r \in Reqs, LoginWebFail(r) PROVE ReplaysOver'
  BY <1>3, LoginWebFailStep, SameReplays DEF LoginWebFail, Commit
<1>4. ASSUME NEW u \in Users, LockPasses(u) PROVE ReplaysOver'
  BY <1>4, LockPassesStep, SameReplays DEF LockPasses
<1>5. ASSUME NEW r \in Reqs, NEW s \in Sids, LoginWechatKnown(r, s) PROVE ReplaysOver'
  BY <1>5, LoginWechatKnownStep, OpensReplays DEF LoginWechatKnown, Commit
<1>6. ASSUME NEW r \in Reqs, NEW s \in Sids, NEW u \in Users, LoginWechatNew(r, s, u)
      PROVE  ReplaysOver'
  BY <1>6, LoginWechatNewStep, OpensReplays DEF LoginWechatNew, Commit
<1>7. ASSUME NEW r \in Reqs, NEW s \in Sids, Rotate(r, s) PROVE ReplaysOver'
  BY <1>7, RotateReplays
<1>8. ASSUME NEW r \in Reqs, Replay(r) PROVE ReplaysOver'
  BY <1>8, ReplayReplays
<1>9. ASSUME NEW s \in Sids, Logout(s) PROVE ReplaysOver'
  BY <1>9, LogoutStep, EndsReplays DEF Logout
<1>10. ASSUME NEW r \in Reqs, ResetRevokes(r) PROVE ReplaysOver'
  BY <1>10, ResetStep, EndsReplays DEF ResetRevokes, Commit
<1>11. ASSUME AtMostOneEnds, db' = db, replays' = replays PROVE ReplaysOver'
  BY <1>11, SameReplays
<1> QED
  BY <1>1, <1>2, <1>3, <1>4, <1>5, <1>6, <1>7, <1>8, <1>9, <1>10, <1>11, NextSteps
  DEF Steps

(* Once a replay that no rotation overlapped has been answered, its family  *)
(* has no usable credential again, whatever runs beside it and afterwards,  *)
(* and whether or not clients wait for their answers (_revoke_family).      *)
THEOREM ReplayIsFinal == Spec => []ReplayEndsFamily
<1>1. Base /\ ReplaysOver /\ [Next]_vars => ReplaysOver'
  BY ReplaysOverStep
<1>2. ReplaysOver => ReplayEndsFamily
  BY DEF ReplaysOver, ReplayEndsFamily
<1> QED BY <1>1, <1>2, ReplaysOverStart, BaseInvariant, PTL DEF Spec
-----------------------------------------------------------------------------
(* Standings: there are finitely many, and they are ordered.                *)

Counts == 1 .. MaxFailures - 1

\* A standing is before another that is the first to have more tries at a count.
Before(m, n) ==
  \E j \in Counts : m[j] < n[j] /\ \A i \in Counts : i < j => m[i] <= n[i]

\* The standings before c.
Passed(c) == {m \in Standings : Before(m, c)}

LEMMA TriesNat == Tries \in Nat
  BY ReqsAssumption, FS_CardinalityType DEF Tries

LEMMA StandingValues ==
  ASSUME NEW m \in Standings
  PROVE  m \in [Counts -> 0 .. Tries] /\ \A j \in Counts : m[j] \in Nat
  BY TriesNat DEF Standings, Counts

LEMMA StandingsFinite == IsFiniteSet(Standings)
<1> DEFINE T == SUBSET (Counts \X (0 .. Tries))
           Graph(m) == {p \in Counts \X (0 .. Tries) : p[2] = m[p[1]]}
           F == [m \in Standings |-> Graph(m)]
<1>1. IsFiniteSet(T)
  <2>1. MaxFailures - 1 \in Int /\ Tries \in Int
    BY FailuresAssumption, TriesNat
  <2>2. IsFiniteSet(Counts) /\ IsFiniteSet(0 .. Tries)
    BY <2>1, FS_Interval DEF Counts
  <2> QED BY <2>2, FS_Product, FS_SUBSET
<1>2. F \in [Standings -> T]
  OBVIOUS
<1>3. ASSUME NEW m \in Standings, NEW n \in Standings, F[m] = F[n] PROVE m = n
  <2>1. m \in [Counts -> 0 .. Tries] /\ n \in [Counts -> 0 .. Tries]
    BY StandingValues
  <2>2. ASSUME NEW j \in Counts PROVE m[j] = n[j]
    <3>1. <<j, m[j]>> \in Graph(m)
      BY <2>1
    <3>2. <<j, m[j]>> \in Graph(n)
      BY <1>3, <3>1
    <3> QED BY <3>2
  <2> QED BY <2>1, <2>2
<1>4. F \in Injection(Standings, T)
  BY <1>2, <1>3 DEF Injection, IsInjective
<1> HIDE DEF T, F
<1> QED BY <1>1, <1>4, FS_Injection

LEMMA BeforeItself == ASSUME NEW c \in Standings PROVE ~Before(c, c)
  BY StandingValues DEF Before

LEMMA BeforeAgain ==
  ASSUME NEW a \in Standings, NEW b \in Standings, NEW c \in Standings,
         Before(a, b), Before(b, c)
  PROVE  Before(a, c)
<1>1. \A j \in Counts : a[j] \in Nat /\ b[j] \in Nat /\ c[j] \in Nat
  BY StandingValues
<1>2. PICK j \in Counts : a[j] < b[j] /\ \A i \in Counts : i < j => a[i] <= b[i]
  BY DEF Before
<1>3. PICK k \in Counts : b[k] < c[k] /\ \A i \in Counts : i < k => b[i] <= c[i]
  BY DEF Before
<1>4. j \in Nat /\ k \in Nat /\ Counts \subseteq Nat
  BY FailuresAssumption DEF Counts
<1>5. CASE j <= k
  <2>1. b[j] <= c[j]
    BY <1>1, <1>3, <1>4, <1>5
  <2>2. a[j] < c[j]
    BY <1>1, <1>2, <2>1
  <2>3. ASSUME NEW i \in Counts, i < j PROVE a[i] <= c[i]
    <3>1. a[i] <= b[i] /\ b[i] <= c[i]
      BY <1>2, <1>3, <1>4, <1>5, <2>3
    <3> QED BY <1>1, <3>1
  <2> QED BY <2>2, <2>3 DEF Before
<1>6. CASE k < j
  <2>1. a[k] <= b[k]
    BY <1>2, <1>6
  <2>2. a[k] < c[k]
    BY <1>1, <1>3, <2>1
  <2>3. ASSUME NEW i \in Counts, i < k PROVE a[i] <= c[i]
    <3>1. a[i] <= b[i] /\ b[i] <= c[i]
      BY <1>2, <1>3, <1>4, <1>6, <2>3
    <3> QED BY <1>1, <3>1
  <2> QED BY <2>2, <2>3 DEF Before
<1> QED BY <1>4, <1>5, <1>6

LEMMA BeforeMore ==
  ASSUME NEW a \in Standings, NEW b \in Standings, NEW c \in Standings,
         Before(a, b), \A j \in Counts : b[j] <= c[j]
  PROVE  Before(a, c)
<1>1. \A j \in Counts : a[j] \in Nat /\ b[j] \in Nat /\ c[j] \in Nat
  BY StandingValues
<1>2. PICK j \in Counts : a[j] < b[j] /\ \A i \in Counts : i < j => a[i] <= b[i]
  BY DEF Before
<1>3. a[j] < c[j]
  BY <1>1, <1>2
<1>4. \A i \in Counts : i < j => a[i] <= c[i]
  BY <1>1, <1>2
<1> QED BY <1>3, <1>4 DEF Before

LEMMA PassedFinite ==
  ASSUME NEW c
  PROVE  IsFiniteSet(Passed(c)) /\ Cardinality(Passed(c)) \in Nat
<1>1. IsFiniteSet(Passed(c))
  BY StandingsFinite, FS_Subset DEF Passed
<1> QED BY <1>1, FS_CardinalityType

\* A standing that has come no further back has passed no fewer.
LEMMA PassedMore ==
  ASSUME NEW b \in Standings, NEW c \in Standings, \A j \in Counts : b[j] <= c[j]
  PROVE  Cardinality(Passed(b)) <= Cardinality(Passed(c))
<1>1. Passed(b) \in SUBSET Passed(c)
  BY BeforeMore DEF Passed
<1> QED BY <1>1, PassedFinite, FS_Subset

\* A standing that comes after another has passed one more.
LEMMA PassedAnother ==
  ASSUME NEW b \in Standings, NEW c \in Standings, Before(b, c)
  PROVE  Cardinality(Passed(b)) + 1 <= Cardinality(Passed(c))
<1>1. Passed(b) \cup {b} \in SUBSET Passed(c)
  BY BeforeAgain DEF Passed
<1>2. b \notin Passed(b)
  BY BeforeItself DEF Passed
<1>3. /\ IsFiniteSet(Passed(b) \cup {b})
      /\ Cardinality(Passed(b) \cup {b}) = Cardinality(Passed(b)) + 1
  BY <1>2, PassedFinite, FS_AddElement
<1>4. Cardinality(Passed(b) \cup {b}) <= Cardinality(Passed(c))
  BY <1>1, PassedFinite, FS_Subset
<1> QED BY <1>3, <1>4

LEMMA PassedNotAll ==
  ASSUME NEW c \in Standings
  PROVE  Cardinality(Passed(c)) < Cardinality(Standings)
<1>1. Passed(c) \in SUBSET Standings /\ Passed(c) # Standings
  BY BeforeItself DEF Passed
<1>2. /\ Cardinality(Passed(c)) <= Cardinality(Standings)
      /\ Cardinality(Passed(c)) # Cardinality(Standings)
      /\ Cardinality(Standings) \in Nat
  BY <1>1, StandingsFinite, FS_Subset, FS_CardinalityType
<1> QED BY <1>2, PassedFinite
-----------------------------------------------------------------------------
(* Lockout, of any client: each wrong password brings the tries of its      *)
(* account to a later standing.                                             *)

\* The tries of account u among requests q that have read a count below j.
Lagging(q, u, j) ==
  {r \in Reqs : q[r].kind = "web" /\ q[r].subject = u /\ q[r].snap.fails[u] < j}

\* A try that is not in progress has yet to read, and reads the count as it is.
Standing(d, q, u) ==
  [j \in Counts |-> IF d.fails[u] >= j THEN Tries - Cardinality(Lagging(q, u, j)) ELSE 0]

PasswordAlone(q) ==
  "web" \in SerialKinds =>
    \A a, b \in Reqs :
      q[a].kind = "web" /\ q[b].kind = "web" /\ q[a].subject = q[b].subject => a = b

CountsRead(q) == \A r \in Reqs, u \in Users : q[r].snap.fails[u] \in Nat

MissesPassed(u) == misses[u] <= Cardinality(Passed(Standing(db, req, u)))

\* What a step makes of it
MissesPass(u) == misses'[u] <= Cardinality(Passed(Standing(db', req', u)))

Lockout == PasswordAlone(req) /\ \A u \in Users : MissesPassed(u)

LEMMA LaggingFew ==
  ASSUME NEW q, PasswordAlone(q), NEW u, NEW j
  PROVE  IsFiniteSet(Lagging(q, u, j)) /\ Cardinality(Lagging(q, u, j)) \in 0 .. Tries
<1> DEFINE L == Lagging(q, u, j)
<1>1. L \in SUBSET Reqs
  BY DEF Lagging
<1>2. IsFiniteSet(L) /\ Cardinality(L) \in Nat /\ Cardinality(L) <= Cardinality(Reqs)
  BY <1>1, ReqsAssumption, FS_Subset, FS_CardinalityType
<1>3. ASSUME "web" \in SerialKinds PROVE Cardinality(L) <= 1
  <2>1. \A a, b \in L : a = b
    BY <1>3 DEF Lagging, PasswordAlone
  <2>2. L = {} \/ \E a : L = {a}
    BY <2>1
  <2> QED BY <2>2, FS_EmptySet, FS_Singleton
<1> QED BY <1>2, <1>3, TriesNat DEF Tries

LEMMA StandingIs ==
  ASSUME NEW d, NEW q, PasswordAlone(q), CountsRead(q), NEW u \in Users,
         d.fails[u] \in Nat
  PROVE  Standing(d, q, u) \in Standings
<1> DEFINE m == Standing(d, q, u)
<1>1. \A j \in Counts : /\ Cardinality(Lagging(q, u, j)) \in 0 .. Tries
                        /\ IsFiniteSet(Lagging(q, u, j))
  BY LaggingFew
<1>2. \A j \in Counts :
        m[j] = IF d.fails[u] >= j THEN Tries - Cardinality(Lagging(q, u, j)) ELSE 0
  BY DEF Standing
<1>3. m \in [Counts -> 0 .. Tries]
  <2>1. \A j \in Counts : m[j] \in 0 .. Tries
    BY <1>1, <1>2, TriesNat
  <2> QED BY <2>1 DEF Standing
<1>4. ASSUME NEW i \in Counts, NEW j \in Counts, i < j PROVE m[i] >= m[j]
  <2>1. Counts \subseteq Nat
    BY FailuresAssumption DEF Counts
  <2>2. CASE d.fails[u] >= j
    <3>1. \A r \in Reqs : q[r].snap.fails[u] < i => q[r].snap.fails[u] < j
      BY <1>4, <2>1 DEF CountsRead
    <3>2. Lagging(q, u, i) \in SUBSET Lagging(q, u, j)
      BY <3>1 DEF Lagging
    <3>3. Cardinality(Lagging(q, u, i)) <= Cardinality(Lagging(q, u, j))
      BY <1>1, <3>2, FS_Subset
    <3>4. d.fails[u] >= i
      BY <1>4, <2>1, <2>2
    <3> QED BY <1>1, <1>2, <2>2, <3>3, <3>4, TriesNat
  <2>3. CASE ~(d.fails[u] >= j)
    BY <1>2, <1>3, <2>3, TriesNat
  <2> QED BY <2>2, <2>3
<1> QED BY <1>3, <1>4 DEF Standings, Counts

LEMMA CountsTyped ==
  ASSUME Base
  PROVE  CountsRead(req) /\ \A u \in Users : db.fails[u] \in Nat
<1>1. db.fails \in [Users -> 0 .. MaxFailures - 1]
      /\ \A r \in Reqs : View(r).fails \in [Users -> 0 .. MaxFailures - 1]
  BY DEF Base, TypeOK, Request, DB, View
<1> QED BY <1>1, FailuresAssumption DEF CountsRead, View

LEMMA CountsTypedThen ==
  ASSUME Base'
  PROVE  CountsRead(req') /\ \A u \in Users : db'.fails[u] \in Nat
<1>1. db'.fails \in [Users -> 0 .. MaxFailures - 1]
      /\ \A r \in Reqs : req'[r].snap.fails \in [Users -> 0 .. MaxFailures - 1]
  BY DEF Base, TypeOK, Request, DB
<1> QED BY <1>1, FailuresAssumption DEF CountsRead

LEMMA LockoutStart == Init => Lockout
<1> SUFFICES ASSUME Init PROVE Lockout
  OBVIOUS
<1>1. PasswordAlone(req)
  BY IdleSees DEF Init, PasswordAlone
<1>2. ASSUME NEW u \in Users PROVE MissesPassed(u)
  <2>1. misses[u] = 0
    BY DEF Init
  <2> QED BY <2>1, PassedFinite DEF MissesPassed
<1> QED BY <1>1, <1>2 DEF Lockout

(* A step that adds no misses of an account, and to its tries in progress   *)
(* none that lags behind its count                                          *)
LEMMA MissesKept ==
  ASSUME Base, Base', Lockout, PasswordAlone(req'), NEW u \in Users,
         db'.fails[u] = db.fails[u], misses'[u] <= misses[u],
         \A j \in Counts : db.fails[u] >= j =>
           Lagging(req', u, j) \subseteq Lagging(req, u, j)
  PROVE  MissesPass(u)
<1> DEFINE b == Standing(db, req, u)
           c == Standing(db', req', u)
<1>1. b \in Standings /\ c \in Standings
  BY CountsTyped, CountsTypedThen, StandingIs DEF Lockout
<1>2. ASSUME NEW j \in Counts PROVE b[j] <= c[j]
  <2>1. /\ IsFiniteSet(Lagging(req, u, j)) /\ Cardinality(Lagging(req, u, j)) \in 0 .. Tries
        /\ Cardinality(Lagging(req', u, j)) \in 0 .. Tries
    BY LaggingFew DEF Lockout
  <2>2. CASE db.fails[u] >= j
    <3>1. Cardinality(Lagging(req', u, j)) <= Cardinality(Lagging(req, u, j))
      BY <2>1, <2>2, FS_Subset
    <3>2. /\ b[j] = Tries - Cardinality(Lagging(req, u, j))
          /\ c[j] = Tries - Cardinality(Lagging(req', u, j))
      BY <2>2 DEF Standing
    <3> QED BY <2>1, <3>1, <3>2, TriesNat
  <2>3. CASE ~(db.fails[u] >= j)
    <3>1. b[j] = 0
      BY <2>3 DEF Standing
    <3> QED BY <1>1, <3>1, StandingValues
  <2> QED BY <2>2, <2>3
<1> HIDE DEF b, c
<1>3. Cardinality(Passed(b)) <= Cardinality(Passed(c))
  BY <1>1, <1>2, PassedMore
<1>4. misses[u] <= Cardinality(Passed(b)) /\ misses[u] \in Nat /\ misses'[u] \in Nat
  BY DEF Lockout, MissesPassed, b, Base, TypeOK
<1>5. misses'[u] <= Cardinality(Passed(c))
  BY <1>3, <1>4, PassedFinite
<1> QED BY <1>5 DEF MissesPass, c

LEMMA MissesForgotten ==
  ASSUME NEW u \in Users, misses'[u] = 0
  PROVE  MissesPass(u)
<1>1. misses'[u] <= Cardinality(Passed(Standing(db', req', u)))
  BY PassedFinite
<1> QED BY <1>1 DEF MissesPass

(* A request ends: whatever is behind was behind before. *)
LEMMA TriesEnd ==
  ASSUME Base, Lockout, AtMostOneEnds
  PROVE  /\ PasswordAlone(req')
         /\ \A u, j : Lagging(req', u, j) \subseteq Lagging(req, u, j)
<1>1. \A q \in Reqs : req'[q].kind = "web" => req'[q] = req[q]
  BY IdleSees DEF AtMostOneEnds, Base, TypeOK
<1>2. PasswordAlone(req')
  BY <1>1 DEF Lockout, PasswordAlone
<1>3. \A u, j : Lagging(req', u, j) \subseteq Lagging(req, u, j)
  BY <1>1 DEF Lagging
<1> QED BY <1>2, <1>3

LEMMA LockoutBegins ==
  ASSUME Base, Lockout, NEW r \in Reqs, NEW k, NEW subject, Begins(r, k, subject)
  PROVE  Lockout'
<1> DEFINE q0 == [kind |-> k, subject |-> subject, snap |-> Rows(k, subject)]
<1>1. /\ UNCHANGED <<db, misses>> /\ req' = [req EXCEPT ![r] = q0]
      /\ ~Waits(k, subject) /\ req \in [Reqs -> Request] /\ Base'
  BY BeginStep DEF Begins, Begin, Base, TypeOK
<1>2. req'[r] = q0 /\ \A p \in Reqs : p # r => req'[p] = req[p]
  BY <1>1
<1>3. \A p \in Reqs : "web" \in SerialKinds /\ k = "web" /\ req[p].kind = "web" =>
        req[p].subject # subject
  BY <1>1 DEF Waits
<1>4. PasswordAlone(req')
  BY <1>2, <1>3 DEF Lockout, PasswordAlone
<1>5. k = "web" => Rows(k, subject).fails[subject] = db.fails[subject]
  BY RowsRead DEF Begins
<1>6. ASSUME NEW u \in Users, NEW j \in Counts, db.fails[u] >= j
      PROVE  Lagging(req', u, j) \subseteq Lagging(req, u, j)
  <2> SUFFICES ASSUME NEW p \in Reqs, req'[p].kind = "web", req'[p].subject = u,
                      req'[p].snap.fails[u] < j
               PROVE  p # r
    BY <1>2 DEF Lagging
  <2>1. j \in Nat /\ db.fails[u] \in Nat
    BY FailuresAssumption, CountsTyped DEF Counts
  <2> QED BY <1>2, <1>5, <1>6, <2>1
<1>7. ASSUME NEW u \in Users PROVE MissesPass(u)
  <2>1. db'.fails[u] = db.fails[u] /\ misses'[u] <= misses[u]
    BY <1>1 DEF Base, TypeOK
  <2> QED BY <1>1, <1>4, <1>6, <2>1, MissesKept
<1> QED BY <1>4, <1>7 DEF Lockout, MissesPass, MissesPassed

(* A commit that writes no counter *)
LEMMA CountersKept ==
  ASSUME Base, Base', Lockout, AtMostOneEnds, db'.fails = db.fails, misses' = misses
  PROVE  Lockout'
<1>1. ASSUME NEW u \in Users PROVE MissesPass(u)
  <2>1. db'.fails[u] = db.fails[u] /\ misses'[u] <= misses[u]
    BY DEF Base, TypeOK
  <2> QED BY <2>1, TriesEnd, MissesKept
<1> QED BY <1>1, TriesEnd DEF Lockout, MissesPass, MissesPassed

(* A commit that writes the counter of one account *)
LEMMA CounterWritten ==
  ASSUME Base, Base', Lockout, AtMostOneEnds, NEW v \in Users, MissesPass(v),
         \A u \in Users \ {v} : db'.fails[u] = db.fails[u] /\ misses'[u] = misses[u]
  PROVE  Lockout'
<1>1. ASSUME NEW u \in Users, u # v PROVE MissesPass(u)
  <2>1. db'.fails[u] = db.fails[u] /\ misses'[u] <= misses[u]
    BY <1>1 DEF Base, TypeOK
  <2> QED BY <2>1, TriesEnd, MissesKept
<1> QED BY <1>1, TriesEnd DEF Lockout, MissesPass, MissesPassed

(* A wrong password that does not lock: the count that is written is one    *)
(* more than the one its try has read, so no count up to that loses a try,  *)
(* and the next one gains the try itself.                                   *)
LEMMA WrongPassword ==
  ASSUME Base, Base', Lockout, NEW r \in Reqs, LoginWebFail(r), ~Locks(r, Subject(r))
  PROVE  MissesPass(Subject(r))
<1> DEFINE u == Subject(r)
           v == View(r).fails[u]
           b == Standing(db, req, u)
           c == Standing(db', req', u)
<1>1. /\ u \in Users /\ req[r].kind = "web" /\ req' = [req EXCEPT ![r] = Idle]
      /\ db'.fails = [db.fails EXCEPT ![u] = v + 1]
      /\ misses' = [misses EXCEPT ![u] = @ + 1]
  BY LoginWebFailStep, UsersAssumption DEF LoginWebFail, Commit
<1> HIDE DEF v
<1>2. /\ db'.fails[u] = v + 1 /\ misses'[u] = misses[u] + 1 /\ v \in Nat
      /\ v + 1 \in Counts
  <2>1. db.fails \in [Users -> 0 .. MaxFailures - 1] /\ misses \in [Users -> Nat]
    BY DEF Base, TypeOK, DB
  <2>2. v \in Nat
    BY <1>1, CountsTyped DEF CountsRead, View, v
  <2>3. v + 1 \in Counts
    BY <2>2, FailuresAssumption DEF Locks, Counts, v
  <2> QED BY <1>1, <2>1, <2>2, <2>3
<1>3. PasswordAlone(req')
  BY <1>1, TriesEnd DEF AtMostOneEnds
<1>4. b \in Standings /\ c \in Standings
  BY <1>1, <1>3, CountsTyped, CountsTypedThen, StandingIs DEF Lockout
<1>5. Counts \subseteq Nat /\ db.fails[u] \in Nat
  BY <1>1, FailuresAssumption, CountsTyped DEF Counts
<1>6. \A j \in Counts :
        /\ IsFiniteSet(Lagging(req, u, j)) /\ Cardinality(Lagging(req, u, j)) \in 0 .. Tries
        /\ Cardinality(Lagging(req', u, j)) \in 0 .. Tries
  BY <1>3, LaggingFew DEF Lockout
<1>7. \A j \in Counts : Lagging(req', u, j) = Lagging(req, u, j) \ {r}
  <2>1. req'[r].kind = "none" /\ \A q \in Reqs : q # r => req'[q] = req[q]
    BY <1>1, IdleSees DEF Base, TypeOK
  <2> QED BY <2>1 DEF Lagging
<1>8. \A j \in Counts : r \in Lagging(req, u, j) <=> v < j
  BY <1>1 DEF Lagging, View, Subject, v
<1>9. ASSUME NEW j \in Counts, j <= v PROVE b[j] <= c[j]
  <2>1. Lagging(req', u, j) = Lagging(req, u, j)
    <3>1. r \notin Lagging(req, u, j)
      BY <1>2, <1>5, <1>8, <1>9
    <3> QED BY <1>7, <3>1
  <2>2. c[j] = Tries - Cardinality(Lagging(req, u, j))
    BY <1>2, <1>5, <1>9, <2>1 DEF Standing
  <2>3. b[j] = Tries - Cardinality(Lagging(req, u, j)) \/ b[j] = 0
    BY DEF Standing
  <2> QED BY <1>6, <2>2, <2>3, TriesNat
<1>10. b[v + 1] < c[v + 1]
  <2> DEFINE j == v + 1
  <2>1. r \in Lagging(req, u, j)
    BY <1>2, <1>8
  <2>2. Cardinality(Lagging(req', u, j)) = Cardinality(Lagging(req, u, j)) - 1
    BY <1>2, <1>6, <1>7, <2>1, FS_RemoveElement
  <2>3. c[j] = Tries - Cardinality(Lagging(req', u, j))
    BY <1>2 DEF Standing
  <2>4. b[j] = Tries - Cardinality(Lagging(req, u, j)) \/ b[j] = 0
    BY <1>2 DEF Standing
  <2>5. Cardinality(Lagging(req', u, j)) \in 0 .. Tries
        /\ Cardinality(Lagging(req, u, j)) \in 0 .. Tries
    BY <1>2, <1>6
  <2> QED BY <2>2, <2>3, <2>4, <2>5, TriesNat
<1>11. Before(b, c)
  <2>1. \A i \in Counts : i < v + 1 => b[i] <= c[i]
    BY <1>2, <1>5, <1>9
  <2> QED BY <1>2, <1>10, <2>1 DEF Before
<1>12. misses[u] <= Cardinality(Passed(b)) /\ misses[u] \in Nat
  BY <1>1 DEF Lockout, MissesPassed, Base, TypeOK
<1> HIDE DEF b, c
<1>13. misses'[u] <= Cardinality(Passed(c))
  BY <1>2, <1>4, <1>11, <1>12, PassedAnother, PassedFinite
<1> QED BY <1>13 DEF MissesPass, c

LEMMA LockoutStep ==
  ASSUME Base, Lockout, [Next]_vars
  PROVE  Lockout'
<1> USE DEF AtMostOneEnds
<1>1. Base' /\ misses \in [Users -> Nat] /\ db.fails \in [Users -> 0 .. MaxFailures - 1]
  BY BaseStep DEF Base, TypeOK, DB
<1>2. ASSUME NEW r \in Reqs, NEW k, NEW subject, Begins(r, k, subject) PROVE Lockout'
  BY <1>2, LockoutBegins
<1>3. ASSUME NEW r \in Reqs, NEW s \in Sids, LoginWebOk(r, s) PROVE Lockout'
  <2>1. /\ Subject(r) \in Users /\ req' = [req EXCEPT ![r] = Idle]
        /\ db'.fails = [db.fails EXCEPT ![Subject(r)] = FailsAfterLogin(r, Subject(r))]
        /\ misses' = [misses EXCEPT ![Subject(r)] = 0]
    BY <1>3, LoginWebOkStep, UsersAssumption DEF LoginWebOk, Commit
  <2>2. MissesPass(Subject(r))
    BY <1>1, <2>1, MissesForgotten
  <2> QED BY <1>1, <2>1, <2>2, CounterWritten
<1>4. ASSUME NEW r \in Reqs, LoginWebFail(r) PROVE Lockout'
  <2> DEFINE v == Subject(r)
             count == IF Locks(r, v) THEN 0 ELSE View(r).fails[v] + 1
             missed == IF Locks(r, v) THEN 0 ELSE misses[v] + 1
  <2>0. /\ v \in Users /\ req' = [req EXCEPT ![r] = Idle]
        /\ db'.fails = [db.fails EXCEPT ![v] = count]
        /\ misses' = [misses EXCEPT ![v] = missed]
    BY <1>4, LoginWebFailStep, UsersAssumption DEF LoginWebFail, Commit
  <2> HIDE DEF count, missed
  <2>1. /\ v \in Users /\ req' = [req EXCEPT ![r] = Idle]
        /\ \A u \in Users \ {v} :
             db'.fails[u] = db.fails[u] /\ misses'[u] = misses[u]
        /\ Locks(r, v) => misses'[v] = 0
    BY <1>1, <2>0 DEF missed
  <2>2. MissesPass(Subject(r))
    <3>1. CASE Locks(r, Subject(r))
      BY <2>1, <3>1, MissesForgotten
    <3>2. CASE ~Locks(r, Subject(r))
      BY <1>1, <1>4, <3>2, WrongPassword
    <3> QED BY <3>1, <3>2
  <2> QED BY <1>1, <2>1, <2>2, CounterWritten
<1>5. ASSUME NEW u \in Users, LockPasses(u) PROVE Lockout'
  BY <1>1, <1>5, LockPassesStep, CountersKept DEF LockPasses
<1>6. ASSUME NEW r \in Reqs, NEW s \in Sids,
             LoginWechatKnown(r, s) \/ Rotate(r, s) \/ \E u \in Users : LoginWechatNew(r, s, u)
      PROVE  Lockout'
  <2>1. req' = [req EXCEPT ![r] = Idle] /\ misses' = misses
    BY <1>6 DEF LoginWechatKnown, Rotate, LoginWechatNew, Commit
  <2>2. db'.fails = db.fails
    BY <1>6, LoginWechatKnownStep, LoginWechatNewStep, RotateStep DEF OnlyRows
  <2> QED BY <1>1, <2>1, <2>2, CountersKept
<1>7. ASSUME NEW r \in Reqs, Replay(r) \/ ResetRevokes(r) PROVE Lockout'
  <2>1. req' = [req EXCEPT ![r] = Idle] /\ misses' = misses
    BY <1>7 DEF Replay, ResetRevokes, Commit
  <2>2. db'.fails = db.fails
    BY <1>7, ReplayStep, ResetStep DEF OnlyRows
  <2> QED BY <1>1, <2>1, <2>2, CountersKept
<1>8. ASSUME NEW s \in Sids, Logout(s) PROVE Lockout'
  BY <1>1, <1>8, LogoutStep, CountersKept DEF OnlyRows, Logout
<1>9. ASSUME AtMostOneEnds, db' = db, misses' = misses PROVE Lockout'
  BY <1>1, <1>9, CountersKept
<1> QED
  BY <1>2, <1>3, <1>4, <1>5, <1>6, <1>7, <1>8, <1>9, NextSteps DEF Steps

(* An account is locked in time: however many wrong passwords are tried at  *)
(* once, taking back what each other has counted, it is locked before there *)
(* have been as many as the tries have standings; one try at a time, at the *)
(* login_max_failed-th (_register_login_failure).                           *)
THEOREM LockoutComesInTime == Spec => []LockoutInTime
<1>1. Base /\ Lockout /\ [Next]_vars => Lockout'
  BY LockoutStep
<1>2. Base /\ Lockout => LockoutInTime
  <2> SUFFICES ASSUME Base, Lockout, NEW u \in Users
               PROVE  misses[u] < Cardinality(Standings)
    BY DEF LockoutInTime
  <2> DEFINE c == Standing(db, req, u)
  <2>1. c \in Standings
    BY CountsTyped, StandingIs DEF Lockout
  <2>2. misses[u] <= Cardinality(Passed(c)) /\ misses[u] \in Nat
    BY DEF Lockout, MissesPassed, Base, TypeOK
  <2>3. Cardinality(Standings) \in Nat
    BY StandingsFinite, FS_CardinalityType
  <2> HIDE DEF c
  <2> QED BY <2>1, <2>2, <2>3, PassedNotAll, PassedFinite
<1> QED BY <1>1, <1>2, LockoutStart, BaseInvariant, PTL DEF Spec
=============================================================================
