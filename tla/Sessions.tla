------------------------------ MODULE Sessions ------------------------------
(***************************************************************************)
(* Login, lockout and refresh-credential rotation: the session half of     *)
(* modules/identity/service.py.                                            *)
(*                                                                         *)
(* Login and refresh are not authenticated: the transaction that reads the *)
(* account or the credential is the one that writes, and reads them        *)
(* without a lock.  A request is a read step, which fixes its REPEATABLE   *)
(* READ snapshot, and a commit step; a column is written only when its     *)
(* value differs from the one that was loaded.                             *)
(***************************************************************************)
EXTENDS Naturals, FiniteSets

CONSTANTS
  Users,      \* accounts, those WeChat logins may create among them
  WebUsers,   \* accounts with a password, there from the start
  OpenIds,    \* WeChat identities
  Sids,       \* sessions that may be opened; a session is its credential
  Reqs,       \* requests that may be in progress at once
  None,       \* the SQL NULL
  SerialKinds, \* kinds of request a client repeats only once answered
  MaxFailures \* login_max_failed

ASSUME NoneAssumption == None \notin Users \cup OpenIds \cup Sids
ASSUME UsersAssumption == WebUsers \subseteq Users
ASSUME FailuresAssumption == MaxFailures \in Nat \ {0, 1}
ASSUME ReqsAssumption == IsFiniteSet(Reqs)

VARIABLES
  db,      \* the latest committed rows
  expired, \* sessions whose expires_at has passed
  req,     \* the requests in progress
  replays, \* history: families in which a replay was detected and answered
           \* that no rotation overlapped
  misses   \* history: wrong passwords since an account was last locked or
           \* logged in to

vars == <<db, expired, req, replays, misses>>
-----------------------------------------------------------------------------
(* Rows *)

(* An auth_session; a family is named after its first session. *)
Row == [user : Users \cup {None}, family : Sids \cup {None},
        status : {"none", "live", "revoked"}]
NoRow == [user |-> None, family |-> None, status |-> "none"]

(* locked_until: NULL, in the past, in the future *)
LockState == {"never", "past", "future"}

DB == [row   : [Sids -> Row],
       fails : [Users -> 0 .. MaxFailures - 1],
       until : [Users -> LockState],
       owner : [OpenIds -> Users \cup {None}]]

InitDB == [row   |-> [s \in Sids |-> NoRow],
           fails |-> [u \in Users |-> 0],
           until |-> [u \in Users |-> "never"],
           owner |-> [o \in OpenIds |-> None]]

Accounts(d) == (WebUsers \cup {d.owner[o] : o \in OpenIds}) \ {None}
Live(d, f) == {s \in Sids : d.row[s].family = f /\ d.row[s].status = "live"}

RequestKind == {"none", "web", "wechat", "refresh", "reset"}

(* subject: the account of a login or a reset, the identity of a WeChat     *)
(* login, the credential of a refresh *)
Request == [kind : RequestKind,
            subject : Users \cup OpenIds \cup Sids \cup {None}, snap : DB]
Idle == [kind |-> "none", subject |-> None, snap |-> InitDB]

View(r) == req[r].snap
Subject(r) == req[r].subject

(* A client that is serial for a kind waits for the answer before it tries  *)
(* the account, or uses the credential, again.  Whoever presents a          *)
(* credential that is over is another client, and waits for nobody.         *)
Waits(k, subject) ==
  /\ k \in SerialKinds
  /\ k = "refresh" => db.row[subject].status = "live"
  /\ \E q \in Reqs : req[q].kind = k /\ req[q].subject = subject

(* The rows a handler of kind k reads. *)
Rows(k, subject) ==
  CASE k = "web"    -> [InitDB EXCEPT !.fails[subject] = db.fails[subject],
                                      !.until[subject] = db.until[subject]]
    [] k = "wechat" -> [InitDB EXCEPT !.owner[subject] = db.owner[subject]]
    [] k = "refresh" ->
         [InitDB EXCEPT !.row = [s \in Sids |->
            IF db.row[s].family = db.row[subject].family THEN db.row[s]
                                                         ELSE NoRow]]
    [] k = "reset"  ->
         [InitDB EXCEPT !.row = [s \in Sids |->
            IF db.row[s].user = subject THEN db.row[s] ELSE NoRow]]

Begin(r, k, subject) ==
  /\ req[r] = Idle /\ ~Waits(k, subject)
  /\ req' = [req EXCEPT ![r] =
               [kind |-> k, subject |-> subject, snap |-> Rows(k, subject)]]
  /\ UNCHANGED <<db, expired, replays, misses>>

Commit(r, newDB) ==
  /\ db' = newDB
  /\ req' = [req EXCEPT ![r] = Idle]
  /\ UNCHANGED expired

(* _issue_session: the first session of a new family *)
Opened(d, s, u) ==
  [d EXCEPT !.row[s] = [user |-> u, family |-> s, status |-> "live"]]
-----------------------------------------------------------------------------
(* Web login.  The account was found, and was not locked when it was read.  *)

Unlocked(d, u) == d.until[u] # "future"

LoginWeb(r, u) ==
  /\ u \in WebUsers /\ Unlocked(db, u)
  /\ Begin(r, "web", u)

(* Both counters of the account after a login; the ORM writes what changed. *)
FailsAfterLogin(r, u) == IF View(r).fails[u] = 0 THEN db.fails[u] ELSE 0

LoginWebOk(r, s) ==
  LET u == Subject(r) IN
  /\ req[r].kind = "web" /\ db.row[s] = NoRow
  /\ Commit(r, [Opened(db, s, u) EXCEPT
       !.fails[u] = FailsAfterLogin(r, u),
       !.until[u] = IF View(r).until[u] = "never" THEN @ ELSE "never"])
  /\ misses' = [misses EXCEPT ![u] = 0]
  /\ UNCHANGED replays

(* _register_login_failure: the count is the one that was read, and one.    *)
(* mutant: off by one *)
Locks_OneLate(r, u) == View(r).fails[u] >= MaxFailures
Locks(r, u) == View(r).fails[u] + 1 >= MaxFailures

LoginWebFail(r) ==
  LET u == Subject(r) IN
  /\ req[r].kind = "web"
  /\ Commit(r, [db EXCEPT
       !.fails[u] = IF Locks(r, u) THEN 0 ELSE View(r).fails[u] + 1,
       !.until[u] = IF Locks(r, u) THEN "future" ELSE @])
  /\ misses' = [misses EXCEPT ![u] = IF Locks(r, u) THEN 0 ELSE @ + 1]
  /\ UNCHANGED replays

LockPasses(u) ==
  /\ db.until[u] = "future"
  /\ db' = [db EXCEPT !.until[u] = "past"]
  /\ UNCHANGED <<expired, req, replays, misses>>
-----------------------------------------------------------------------------
(* WeChat login: the account of the identity, or a new one with it.         *)

LoginWechat(r, o) == Begin(r, "wechat", o)

LoginWechatKnown(r, s) ==
  LET u == View(r).owner[Subject(r)] IN
  /\ req[r].kind = "wechat" /\ db.row[s] = NoRow
  /\ u # None
  /\ Commit(r, Opened(db, s, u))
  /\ UNCHANGED <<replays, misses>>

(* The unique index on (appid, openid) lets one creation through. *)
(* mutant: no unique index *)
IdentityFree_Unchecked(o) == TRUE
IdentityFree(o) == db.owner[o] = None

LoginWechatNew(r, s, u) ==
  LET o == Subject(r) IN
  /\ req[r].kind = "wechat" /\ db.row[s] = NoRow
  /\ View(r).owner[o] = None
  /\ IdentityFree(o)
  /\ u \notin Accounts(db)
  /\ Commit(r, [Opened(db, s, u) EXCEPT !.owner[o] = u])
  /\ UNCHANGED <<replays, misses>>
-----------------------------------------------------------------------------
(* Refresh *)

Refresh(r, c) ==
  /\ db.row[c].status # "none"
  /\ Begin(r, "refresh", c)

(* The old credential ends, a new one of its family begins. *)
(* mutant: the old one is left usable *)
Rotated_OldKept(d, c, s) ==
  [d EXCEPT !.row[s] = [d.row[c] EXCEPT !.status = "live"]]
Rotated(d, c, s) ==
  [d EXCEPT !.row[c].status = "revoked",
            !.row[s] = [d.row[c] EXCEPT !.status = "live"]]

Rotates(r) == req[r].kind = "refresh" /\ View(r).row[Subject(r)].status = "live"

Rotate(r, s) ==
  LET c == Subject(r) IN
  /\ Rotates(r) /\ db.row[s] = NoRow
  /\ c \notin expired
  /\ Commit(r, Rotated(db, c, s))
  /\ UNCHANGED <<replays, misses>>

(* The sessions a replay of credential c revokes: sessions_in_family. *)
(* mutant: the replayed credential alone *)
Struck_Itself(r, c) == {c}
Struck(r, c) == Live(View(r), View(r).row[c].family)

(* A rotation of the family has committed since r read it, or is under way. *)
RotatedBeside(r) ==
  LET f == db.row[Subject(r)].family IN
  \/ \E s \in Sids : db.row[s].family = f /\ View(r).row[s].status = "none"
  \/ \E q \in Reqs : Rotates(q) /\ db.row[Subject(q)].family = f

(* _revoke_family *)
Replay(r) ==
  LET c == Subject(r) IN
  /\ req[r].kind = "refresh"
  /\ View(r).row[c].status = "revoked"
  /\ Commit(r, [db EXCEPT !.row = [s \in Sids |->
       IF s \in Struck(r, c) THEN [@[s] EXCEPT !.status = "revoked"]
                             ELSE @[s]]])
  /\ replays' = IF RotatedBeside(r) THEN replays
                                   ELSE replays \cup {db.row[c].family}
  /\ UNCHANGED misses

(* Only of a session that is not revoked does the expiry matter. *)
Expire(s) ==
  /\ db.row[s].status = "live" /\ s \notin expired
  /\ expired' = expired \cup {s}
  /\ UNCHANGED <<db, req, replays, misses>>
-----------------------------------------------------------------------------
(* Ending sessions *)

Logout(s) ==
  /\ db.row[s].status = "live"
  /\ db' = [db EXCEPT !.row[s].status = "revoked"]
  /\ UNCHANGED <<expired, req, replays, misses>>

(* student_binding_reset, as far as the sessions of its target go *)
Reset(r, u) == u \in Accounts(db) /\ Begin(r, "reset", u)

(* revoke_active_sessions: what its SELECT finds, the sessions the target   *)
(* had when the reset began.                                                *)
(* mutant: the first session of a family alone *)
Found_First(r) ==
  {s \in Sids : /\ View(r).row[s].user = Subject(r) /\ View(r).row[s].family = s
                /\ View(r).row[s].status = "live"}
Found(r) ==
  {s \in Sids : View(r).row[s].user = Subject(r) /\ View(r).row[s].status = "live"}

ResetRevokes(r) ==
  /\ req[r].kind = "reset"
  /\ Commit(r, [db EXCEPT !.row = [s \in Sids |->
       IF s \in Found(r) THEN [@[s] EXCEPT !.status = "revoked"] ELSE @[s]]])
  /\ UNCHANGED <<replays, misses>>

(* A refusal, an error or a crash before the commit *)
Rollback(r) ==
  /\ req[r] # Idle
  /\ req' = [req EXCEPT ![r] = Idle]
  /\ UNCHANGED <<db, expired, replays, misses>>
-----------------------------------------------------------------------------
Init ==
  /\ db = InitDB
  /\ expired = {}
  /\ req = [r \in Reqs |-> Idle]
  /\ replays = {}
  /\ misses = [u \in Users |-> 0]

Next ==
  \/ \E r \in Reqs, u \in Users : LoginWeb(r, u) \/ Reset(r, u)
  \/ \E r \in Reqs, s \in Sids : LoginWebOk(r, s)
  \/ \E r \in Reqs : LoginWebFail(r)
  \/ \E u \in Users : LockPasses(u)
  \/ \E r \in Reqs, o \in OpenIds : LoginWechat(r, o)
  \/ \E r \in Reqs, s \in Sids : LoginWechatKnown(r, s)
  \/ \E r \in Reqs, s \in Sids, u \in Users : LoginWechatNew(r, s, u)
  \/ \E r \in Reqs, s \in Sids : Refresh(r, s)
  \/ \E r \in Reqs, s \in Sids : Rotate(r, s)
  \/ \E r \in Reqs : Replay(r)
  \/ \E s \in Sids : Expire(s)
  \/ \E s \in Sids : Logout(s)
  \/ \E r \in Reqs : ResetRevokes(r)
  \/ \E r \in Reqs : Rollback(r)

Spec == Init /\ [][Next]_vars
-----------------------------------------------------------------------------
TypeOK ==
  /\ db \in DB
  /\ expired \subseteq Sids
  /\ req \in [Reqs -> Request]
  /\ replays \subseteq Sids
  /\ misses \in [Users -> Nat]

(* Rotation leaves one usable credential in a family: the old one ends when *)
(* the new one begins (refresh).                                            *)
OneLivePerFamily ==
  \A f \in Sids : \A s, t \in Live(db, f) : s = t

(* Once a replay has been answered in a family that was not being rotated   *)
(* meanwhile, no credential of it is usable again, whatever refreshes,      *)
(* logouts, resets and replays run then (_revoke_family).                   *)
ReplayEndsFamily == \A f \in replays : Live(db, f) = {}

(* The tries of an account that may be in progress at once. *)
Tries == IF "web" \in SerialKinds THEN 1 ELSE Cardinality(Reqs)

(* Where n tries can stand: m[j] of them with a count of j or more. *)
Standings ==
  {m \in [1 .. MaxFailures - 1 -> 0 .. Tries] :
     \A i, j \in DOMAIN m : i < j => m[i] >= m[j]}

(* One try at a time, the password that is wrong for the MaxFailures-th     *)
(* time locks the account.  Tries at once take back what others have        *)
(* counted, but not for ever: each wrong password brings the tries to a     *)
(* further standing, so an account is locked before there have been as many *)
(* as there are standings (_register_login_failure).                        *)
LockoutInTime == \A u \in Users : misses[u] < Cardinality(Standings)

(* A WeChat identity keeps the account of its first login, also when two    *)
(* first logins run at once (login_wechat and the unique index).            *)
IdentityStable ==
  [][\A o \in OpenIds : db.owner[o] # None => db'.owner[o] = db.owner[o]]_vars

(* A reset leaves its target no session but those of logins and rotations   *)
(* that committed while it ran; whatever was there when it began is over    *)
(* for good, rotated, logged out or revoked (student_binding_reset).        *)
ResetEndsSessions ==
  [][\A r \in Reqs :
       ResetRevokes(r) =>
         \A s \in Sids :
           db'.row[s].user = Subject(r) /\ db'.row[s].status = "live" =>
             View(r).row[s].status = "none"]_vars
=============================================================================
