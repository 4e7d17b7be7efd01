# A TLA+ model of the course-inspection backend

This directory is the formal model of the backend under `src/backend/app`
(FastAPI, synchronous SQLAlchemy, MySQL). It states what the code promises about
accounts, roles, binding codes, sessions, semesters, timetables, catalogue records, imports and the seed, and about the
locks and connections the requests share, checks it on small instances with TLC
and proves the most important parts for every instance with TLAPS.

## The system

| part | state it keeps | operations | interacts with |
|---|---|---|---|
| identity: accounts (`modules/identity/service.py`, `repository.py`, `models.py`) | `user_account` (student, `lock_version`), `user_role`, `user_permission_grant`, `identity_binding_token` | issue, revoke and redeem a binding code; reset a binding; assign roles; switch an optional permission | reads the volunteer qualification of academic; ends sessions on reset |
| identity: sessions (same files) | `auth_session`, `wechat_identity`, failure counter and lock of the account | web login, WeChat login, refresh, logout | every authenticated request looks its session up (`resolve_session_user`) |
| policy (`core/permissions.py`, `modules/identity/policy.py`) | none | default permission sets, `can_change_roles`, `assignable_roles` | called by identity, seed |
| academic (`modules/academic`) | semesters, periods, calendar overrides, classes, students, courses, teaching classes, rosters, schedules and their weeks, volunteer qualifications | create, update, delete of each | gives and needs roles of identity |
| importer (`modules/importer`) | import batches | preview, confirm | writes the rows of academic and the VOLUNTEER role of identity |
| parsing (`common/parsing`) | none | week, weekday and period expressions, timetable grid | called by importer |
| audit log (`modules/audit/models.py`) | `audit_log`, append-only | one row in the transaction of each change | written by every service, read by none |
| seed (`modules/identity/seed.py`) | roles, permissions, their links, first administrator | idempotent synchronisation, a binding code from the shell | run by hand, before the service or beside it |
| database scope (`core/database.py`) | one connection of the pool and one transaction per request | commit, rollback, row locks until then | everything |

There are no background tasks and no timers in the process. Whatever happens is a
client's request, run in a thread pool beside others, and the only shared state is
the database. What is hard is therefore what two transactions do to each other, and
what time (a code that lapses, a lock that ends, a session that expires) and a crash
before the commit do in between.

### Isolation, and the granularity of the actions

`core/database.py:77` creates the engine without an isolation level and
`deploy/mysql/my.cnf` sets none, so transactions run at MySQL's REPEATABLE READ.
A request has one SQLAlchemy session. `resolve_session_user` commits at
`service.py:290` and the next statement, `list_role_codes`, is the first plain
SELECT of the transaction the handler runs in: it fixes the snapshot before the
handler has locked anything. From then on a plain SELECT reads the snapshot, while
`SELECT ... FOR UPDATE`, a unique index and an UPDATE see the latest committed row.
The integration tests that race two threads call the service with fresh sessions,
whose first statement is the locking read, and so meet another order.

So a request of `Identity` is three steps: `Resolve` (the first transaction),
`Snapshot` (the first SELECT of the second one, with the permission dependency of
the route) and the handler's action, which does all its locking reads and writes
at once. Rows it locks or writes stay locked until it commits, so nothing can come
between those reads and writes that another transaction could tell apart; what can
come between is between the snapshot and them, and that is a step of its own.
`Rollback` ends a request at any point before its commit: a refusal, a constraint
error, a lost connection, a crash.

## Modules

| module | models |
|---|---|
| `Policy` | role codes, default permissions, `can_change_roles`, effective permissions |
| `Identity` | the handlers that write accounts, roles, grants, binding codes and volunteer qualifications, and `Login` as the source of sessions |
| `OneTimeCode` | abstract: what a binding code promises; `Identity` implements it |
| `Sessions` | login and lockout, WeChat login, refresh rotation and replay, logout, reset |
| `Academic` | semesters and what is written under them: days (periods and calendar overrides), teaching classes, rosters, schedules and their weeks |
| `TimeSlots` | the parsing of week and period cells, as operators |
| `CellReader` | a cell that grows by a character, against what the documented forms say |
| `Importer` | import batches of rosters and timetables, over the tables of `Academic`; it also implements `OneTimeCode` |
| `Catalogue` | administrative classes, students and courses: creation, update, paged lists, audit rows |
| `Registry` | the seed beside handlers: rows of roles and permissions, their links, the first administrator |
| `RowLocks` | the row locks every handler takes, in their order; the connection pool; deadlock victims |
| `MCIdentity`, `MCSessions`, `MCImporter`, `MCCatalogue`, `MCRegistry`, `MCRowLocks` | the instances for TLC |
| `IdentityProofs`, `SessionsProofs`, `ImporterProofs` (with the handlers of `Academic`), `CatalogueProofs`, `RegistryProofs`, `RowLocksProofs`, `CellReaderProofs` | theorems about the modules they are named after |
| `TimeSlotsProofs` | lemmas about the operators of `TimeSlots`, used by the proofs of `Importer` and `CellReader` |

`Identity.db` is a record of the committed tables: `student`, `version`
(`lock_version`), `roles` and `grants` per account, `session` per account, `token`
per code, `qualification` per student (no row of the active semester, or its `enabled`). `req[r]` is a request in progress with its `snap`. `View(r)` is what its plain
SELECTs return; `db` in a handler's action is what its locks and indexes see.
`redemptions` counts, for the properties alone, how often a code was spent.
The ORM is modelled by what it writes: a changed column only (so a revocation
writes `status` but not `used_at`), an absolute number for `lock_version += 1`, and for
`target.roles = ...` the difference between the collection it loaded and the new one,
with a rollback when a row to delete is gone or a row to insert is there.

`Qualify(r, on, off)` is both the single upsert of `academic` and the confirmation of a volunteer batch of
`importer`: the rows of `on` are enabled and those of `off` disabled, and the accounts the snapshot shows bound to a
student of `on` get VOLUNTEER. Disabling takes no role away. One semester is active throughout, the one the
qualifications belong to; that a handler refuses an archived one is the concern of `Academic`.

`Sessions.db` has `row` (the `auth_session` rows with their family and status), `fails`
and `until` per account and `owner` per WeChat identity. Login and refresh are not
authenticated, so a request is a reading step, which keeps the rows it read, and
a commit.

`Academic.db` has the semesters (status and `total_weeks`), the teaching classes with
their key (semester, and one value for course and class code), rosters, schedules, week rows with the
id their insert gave them, days and batches. `Importer` extends it and adds `lapsed` (the batches
whose `expires_at` has passed) and the history `imports`. A handler here locks first and reads
afterwards, but what it then reads with a plain SELECT is still its snapshot: the key of a class, the
rows of a roster, the weeks of a schedule. Only handlers that read such rows are requests of two steps;
the others (`CreateSemester`, `UpdateSemester`, `CreateDay`, `DeleteDay`, `UpdateTeachingClass`,
`CreateSchedule`, `DeleteSchedule` and the previews) are one step, since nothing they read can be outdated.
`RosterSet` and `UpdateSchedule` say what SQLAlchemy's unit of work does: rows of the snapshot are deleted
by key or id, whatever else is there stays, and a unique index refuses what it must. A batch stands for
one roster or one row of a timetable: the rows of a file are written by one transaction.

`Catalogue` takes an INSERT and its commit apart, since an id and the place in the unique index are taken before the
commit. A request that edits has a snapshot, of which the code makes no use for the row it edits: the locking read has
`populate_existing`. `Written` is the ORM's update of the changed columns. The audit row is the newest one only. A client's
walk reads one page per step, count and items in one snapshot, until the total says it is through. Grade year and major of a class
are left out: no list selects by them and no audit row shows them (a change of them alone leaves a row whose before and after agree).

`Registry` keeps the rows of all tables in one set, a row being what its unique index holds. A run of the seed reads everything when it begins
and is one step from its first INSERT to its commit. The other modules read `role_permission` as the matrix of `Policy`;
`PolicyInForce` is why they may once a seed has succeeded. `Identity` has the seed's other command as `IssueFromShell`, a code without a
permission check.

`RowLocks` leaves the data out. `Plans(c)` are the sequences of locks a call takes when no check refuses it, read off the
`..._for_update` calls, the UPDATEs and DELETEs, and the foreign keys of the rows it inserts (a shared lock on the parent); where one flush may
send two statements in either order there is a plan for each. A statement whose row is taken waits
behind those that came first; locks go with the end of the transaction. InnoDB rolls one member of a cycle back (`Victim`), and
no handler catches that. A connection is held from the first statement to the end, so a request that waits for a lock holds one too.
Record locks alone are modelled, no gap locks, and no `lock_wait_timeout`, which would only end a wait earlier. The other modules
take all the locks of a handler in one step: what they leave out is here.

Left out: the other audit rows (never read), account status (never written), passwords,
hashes and clocks (a code or session lapses at any moment, a lock ends at any
moment).

## What the runs show

| run | expect | question |
|---|---|---|
| `codes` | pass | redeeming, issuing, revoking and resetting at once: a code is spent once, is a one-time code, binds its own student |
| `roles` | pass | assigning, granting and resetting at once: versions, exactness of assignments, role boundaries |
| `sequential` | pass | bindings, codes, resets and qualifications one request at a time: STUDENT follows the binding, VOLUNTEER follows qualification and binding in either order, a used code stays used |
| `two_codes` | pass | two codes redeemed at once, also by one account, between resets that overlap nothing: nobody who is bound binds himself again |
| `serial` | pass | sessions with clients that present a usable credential once at a time; wrong passwords, first logins, replays, logouts and resets at once |
| `academic` | pass | handlers and one batch, confirmed by two requests, lapsing, stale, while the semester is archived, reactivated, shortened: an archived semester does not move, weeks fit the semester as it is, keys are unique, the batch is written once |
| `cells` | pass | every cell of up to five characters is read as what it says, or refused |
| `catalogue` | pass | codes unique under simultaneous creation and import, audit rows true under simultaneous edits, a page-by-page walk complete |
| `seed` | pass | after a seed the roles of the policy have its matrix and no other links, the report is true, the administrator's password stays |
| `locks` | pass | whoever waits in a circle includes a handler that leaves the locking order; every request ends |
| `refresh_race` | violation | one credential is rotated twice |
| `roster_race` | violation | two replacements of a roster leave their union |

Bounds. Two accounts (an actor and a target) and two requests are enough for a
race of a pair of handlers. Two students tell a code's own student from
another, two codes a second redemption from a repeated one. `MaxVersion` and `MaxFailed` bound the
counters: the actions that would pass them are disabled, and 2 or 3 moves of a
version are what the races need. `MaxFailures` is 2, the least number that tells a first failure from the locking one.
Three session rows are a rotation, its replay and a second family or a second rotation. Symmetry is used for requests, for sessions and for the accounts WeChat
logins create, and in `two_codes` for codes and students, which no definition tells apart. `two_codes` has two codes and three moves of a version: a
binding, an unbinding and the next binding. Its state constraint is `ResetsAlone`, the condition its property needs; without that line TLC finds the violation described
under Known disagreements.

In `academic` one semester of one or two weeks is shortened and lengthened by one, two classes compete for one
key (or have none), one schedule gets its weeks at most twice (`MaxSerial`), and two requests are a handler and what overtakes it;
the handlers of one step overtake as well. Its action constraint `MCOneMatter` divides the run: a behaviour
either imports no batch, and has rosters, schedules and days, or imports one and confirms it, beside the handlers of classes and semesters. Two students appear in `roster_race` alone, where the two rosters must differ.

`cells` types eleven characters: the digits 0 and 1, which make 0, 1, 10 and 11 (a leading zero, both parities, the edges
of a semester of 10 weeks and of a day of 10 periods), the dash, the comma and every decoration and mark. Five
characters hold a decorated range, a range with a mark, and a list of a range and a number. `TimeSlots` reads a
refused cell as the empty set. The forms in `CellReader` are written the other way round: they compose a cell from its parts,
the parser takes it apart. `Importer` previews a timetable through `ParseWeeks`.

`catalogue` has one class with one of two colleges, two students with numbers of two, one course, and pages of one record: two records are enough for
one to move the other to an earlier page, and the college of a student's class is what changes the membership of a list from outside.
Only students are walked: classes and courses are listed by a part of the same conditions. The view leaves the newest audit row
out of a state's identity, as nothing reads it; TLC checks the action property on every step, also on those to a state seen before. `seed`
starts from every set of rows and links an earlier release may have left, with two runs, one handler at a time, two roles, two permissions and a role and a
permission the policy no longer has. The links of such a role stay, since `sync_registry` visits the policy's roles only (`seed.py:128`): `PolicyInForce` speaks of those. Accounts hold the policy's roles. `locks` makes twenty calls, one of each group of handlers, by two accounts over one
row of each other table: whatever two of them can meet on, they meet on. Three requests are a circle of three, two connections let one of them wait for the pool.

Deadlock is checked in `locks` and `seed`, where the system never stops. Elsewhere it is not: when the codes are spent and the bounds
reached, there is nothing left to do, and nothing waits for a lock (a step is the whole
locked part of a handler).

Liveness and fairness. The backend does nothing by itself: no handler runs unless
a client calls it and none is retried, so nothing is claimed about what clients may never send. What it owes is the end of
a request it has taken: `EveryRequestEnds`. The fairness it needs (`RowLocks!Fairness`) is weak and per request: a queued request gets a connection or
its `pool_timeout` passes (`core/config.py:33`), a handler's thread runs on to its next statement, a free row lock is granted, InnoDB breaks
a circle. No fairness is put on the arrival of requests. Weak fairness is enough for the grant of a lock because the queue of a row is first come, first served.

`roles` leaves out self-service binding and qualification, and in `serial` a client that presents a usable credential waits for the
answer before it presents it again: those are the conditions under which the properties hold, and
the violation runs show what happens without them. `sequential` takes one request at a
time for the same reason: with two, `UsedStaysUsed` fails (see Known disagreements); `StudentRoleIffBound` fails
when one reset binds an account while another unbinds it (`revoke_role` looks for the STUDENT row in its snapshot and misses it,
against `service.py:646`); and a redemption beside the enabling of the same student's qualification leaves the volunteer without the role
(each reads a snapshot without the other's row), against `importer/service.py:15`. Clients waiting for a rotation is what the technical design asks
of the front end (`查课管理系统V1.0开发技术方案.md:306`). Everything else of `serial` runs at once: passwords for one account, first logins
of one identity, logouts, resets, and replays, which another client sends (`Waits` holds up nobody whose credential is over), also beside a
rotation of their family. A replay that a rotation overlaps does not end the family, though (see Known disagreements): the history `replays` has the others.

`LockoutInTime` has no condition. `_register_login_failure` writes back the count it read and one, so a late try takes back what others have counted. With n tries at
once and a limit of k, each wrong password takes one of them from a count of j to j+1, so they pass through at most as many
standings as there are ways to place n tries on the counts below k: `Standings`, C(n+k-1, n) of them. An account is locked before its wrong
passwords are as many; for n = 1 that is k, the limit itself. TLC reaches the number just below for (n, k) = (2,2), (2,3), (2,4), (3,2) and (3,3), so the bound is tight there.

## What is proved

Every invariant and action property that a passing run checks is a theorem for every value of the constants: any sets of accounts,
students, codes, sessions, records and requests, any handlers at once, and cells of any length. Each rests on the named
assumptions of its module (`None` and the values for SQL NULL are no rows, bounds are numbers, sets are typed). One theorem about
sessions and three about versions name the clients they hold for as a condition on the constants; two about bindings hold of the
behaviours in which no reset overlaps another handler, and two of those in which no two handlers overlap. The runs `serial`, `roles`, `two_codes` and `sequential` meet these conditions, and without
them the properties fail (see Known disagreements).

**`IdentityProofs`**

- `TypeCorrect`. `TypeInv` adds that a request that
  is in progress has an actor and, for the targeted handlers, a target; without it
  `db.roles[req[r].target]` would have no type. `HandlersCommit` and `SnapshotOrigin`
  state once what every handler and every snapshot have in common.
- `CodesRedeemedOnce`, `CodesImplementOneTime`. The invariant `CodeInv`
  ties the history to the row: a code is counted exactly when `used` is set, and
  an unissued code is not used. It is about the committed row alone, because the code is read under the lock.
  A redemption is possible only from an unused row, which is the abstract `Spend`; a
  revocation that writes over a used row is a stutter, since `PhaseOf` looks at `used` first.
- `BindingsJustified`, from the types alone: of all handlers only the redemption and the reset touch `student`, and what the
  redemption checks of the code is read under its lock.
- `NoOneEscalates`. `EscalationInv` says the same of the snapshots of the
  requests, because `can_change_roles` is evaluated on a snapshot.
- `BusinessRolesSafe`: no invariant but types; the ORM removes and adds only the
  difference of the snapshot's collection, which `can_change_roles` keeps clear of the two roles.
- `VersionsMove`, `AssignmentsExact`, `GrantsFollowTheRole`, for instances without the handlers that write an account they have not locked
  (`AllLock`: neither `bind` nor `qualify` is in `Kinds`). `VersionInv` says that a snapshot with the
  version of the committed row has its roles and grants, and that no snapshot is ahead.
  The version check under the lock then turns the snapshot into the present. With `bind` or `qualify` the
  invariant is false.
- `StudentRoleFollows`, `BindsOnce`, of the form `Spec /\ []ResetsAlone => ...`: any number of redemptions, assignments, qualifications, revocations and other handlers overlap, only a
  reset overlaps no other. `ReadBindings` says that every snapshot shows STUDENT with exactly the bound accounts, as the rows it was taken from did; `ResetSees` that the roles a running reset has read
  still stand. A redemption has therefore read an unbound account without STUDENT, and inserts the role. That is why two codes of one account are not both redeemed, though both
  requests have passed both checks of `bind_student` on their snapshots: the second INSERT meets the key of `user_role` (`NewRows`) and the transaction rolls back.
- `UsedStays`, `VolunteerRoleFollows`, of the form `Spec /\ []NoOverlap => ...`: at most one handler is
  between its first read and its commit, with any number of requests queued or arriving beside it. The invariant is `SeesCurrent`: what the
  running request has read (bindings, roles, qualifications and the issued codes) is still what is committed. Codes issued from the shell and logins
  go on meanwhile, which is why the codes are compared for those the snapshot knows only. Both then speak of the rows the handler
  saw as of those it changes. `NoOverlap` is the schedule of the service's tests but for those that race two threads, and one request (`sequential`) is its smallest instance.

**`SessionsProofs`**

- `TypeCorrect`, `IdentityKeepsAccount`, `ResetLeavesNothingOld`, for any clients. `Base` adds to the types that an opened session has a user
  and a family that exists, and `SnapshotRows`: a snapshot has fallen behind only by what was added or has ended, since a row never changes its
  user or family and never comes back from `revoked`. That is what makes the reset's update of the rows it read enough for those rows.
- `RotationLeavesOne`, if `"refresh" \in SerialKinds` (a client presents its usable credential again only after the answer). A family with one usable credential is not inductive: `Rotation`
  adds that a family has at most one rotation under way, and that what is usable of it is what that rotation ends; so the rotation leaves one, whatever logouts, resets and replays have ended meanwhile.
- `ReplayIsFinal`, for any clients. `ReplaysOver`: the family of a replay has no usable credential and no rotation under way that could bring one; the first is what `_revoke_family` does, the second what
  `RotatedBeside` asks, and nobody can begin a rotation of such a family since its credentials are all over.
- `LockoutComesInTime`, for any clients, any number of tries at once and any limit. A standing of the tries of an account says how many of them have read a count of j or more (those still to come
  read the count as it is). `Lockout`: the wrong passwords since the last lock or success are at most as many as the standings before the present one (`Passed`). A wrong password takes its try to a
  higher count and the others nowhere lower, hence to a later standing; there are finitely many, by the cardinalities of the library. With one try at a time this is the limit itself.

**`ImporterProofs`**, over the handlers of `Academic` too

- `TypeCorrect`, `OneClassPerKey`. `IInv` is the types, `KeysUnique` and four facts about what is read late: a class that is there lies in a semester (`ClassesPlaced`),
  a preview names what it will write to (`BatchesPlaced`), a class a snapshot shows has not moved to another semester (`SnapshotClasses`), the week rows a
  snapshot shows are those of the schedule asked for (`SnapshotWeeks`). `SnapshotClasses` is why locking the semester found through the snapshot locks the right one.
- `ArchiveIsHistory`, `WeeksStayInSemester`: action properties, proved together with the invariant, handler by handler, as `Kept`.
- `BatchesApplyOnce`: the refinement of `OneTimeCode`. A confirmation reads the batch under its lock, so of two only one finds it a preview.
- What a preview holds comes from a cell: `WeeksBounded` says that no cell is read as a week outside the semester, which needs `CellsAssumption` (a cell is a sequence of characters).

**`CatalogueProofs`**

- `CodesStayUnique`. `IInv` adds to the property that two INSERTs in progress never have one code or one id, that
  an id of an INSERT is beyond the committed ones (`InsertsApart`, `IdsTaken`), without which the commit could overwrite a record.
- `AuditTellsTruth`, an action property, from `EditsFound`: what a request edits is committed, hence is still there when it is locked.
- `WalksAreComplete`. `Place` is the number of listed records before a record, which is where the offset of a page finds it. `WalkInv`: of the
  records listed since the walk began, every one whose place is below the next page's offset has been seen, unless a record has left. A record that joins the list or stays
  only moves others to later places, and a page shows each record whose place lies on it; at the end every place is below the total. No induction over the ids is needed, only the
  cardinalities of finite sets.

**`RegistryProofs`**: `SeedEnforcesPolicy`, `SeedKeepsPassword`, `SeedReportsTruth`, for every matrix and any seeds and handlers. `SeedsBehind` says what a running seed saw is still a
part of the rows, and what it saw of the links is what is there or else some seed has succeeded since; then either the plan is empty of conflicts and right, or an index or the
count of deleted rows refuses it. `CallsBehind` adds that the administrator's row and account come
together, `AdminTaken` that the run which reports the account set its password.

**`RowLocksProofs`**: `OrderedHandlers`, for any requests, accounts, rows, calls and pool (accounts are numbers, a group of them has a largest). `OrderOK` is the classic argument: a request in the order holds only rows below the ones
it has yet to lock. `HoldersOpen` and `QueueOK`, `QueueFirst` say that whoever is waited for holds the row or waits for it itself.
In a circle without `OutOfOrder` the member that waits for the highest row is waited for by nobody who could be in the circle.

**`CellReaderProofs`**: `WeeksAreRead` and `PeriodsAreRead`: every cell, whatever its length, digits and semester, is read as what the documented forms say or refused. The
invariant is only that the cell is a sequence; the work is in lemmas about the operators. `RangeSaid`: `_parse_int_range` returns what its text says. `MarkFound`: the branches for the four marks exclude each
other, so their order in the code does not matter. `CoreIsCut`: what the parser hands to the range is the segment without some first and last characters. `Composed`: a segment is made of a front, a body, an end
and a mark exactly when cutting off their lengths leaves the body. `FormFound`: the body of a form starts and ends with a digit, hence a segment has one form at most, the one the parser takes off.

`TimeSlotsProofs` shows by induction that the two recursive functions of `TimeSlots` return a number and a cell. The library's induction theorems take an operator, which the provers cannot
instantiate; `LeastNat`, `CountUp` and `Recursion` are the same facts about sets of numbers and about functions, from the well-founded subset ordering of the library.

Model-checked only: `EveryRequestEnds`. It is a liveness property under weak fairness, and the prover has neither `ENABLED` nor the rules that go with it. `OneLivePerFamily` and `RosterReplaced` are also the properties of
the two runs that must fail: the first is proved under the condition above, the second holds under none the code enforces. That the nine characters of `TimeSlots` with a meaning are all the parser
knows, and that a plan in `RowLocks` lists the locks of a handler, are matters of the modelling, as everywhere.

## Known disagreements

Two are runs that must fail: `refresh_race` and `roster_race`, described in `PROJECT.json`. The models also have these, which the passing
runs avoid by the conditions named above (one request at a time, no reset beside another handler, no handler that writes an unlocked account)
or which their properties leave out in so many words:

- A revocation that read the code before a redemption committed overwrites USED with EXPIRED (`service.py:611`, against `:607`). `UsedStaysUsed` fails with two requests.
- `bind_student` writes an absolute `lock_version` it read without a lock (`service.py:784`); a version comes back and a grant sent with the old one outlives the manager role, against
  `docs/PERMISSIONS.md:451`. `GrantsNeedManager` fails with three requests when `bind` is among the kinds.
- A second look at the own binding "reads what concurrent transactions have committed" (`service.py:738-740`, `:758`): it reads the snapshot. What refuses the second of two codes redeemed at once by one account is
  the key of `user_role`, by an error of the database in place of the answer the comment announces. And where a reset has overlapped a redemption or another reset and left STUDENT with an unbound account, both redemptions, or a redemption
  beside a binding reset, insert no role and go through: the account is bound to one student, then to another. TLC finds it in `two_codes` without its constraint (`SelfServiceBindsOnce` fails).
- A replay that overlaps a rotation of the family leaves the new credential usable, against `service.py:6` and the technical design (`:306`): `_revoke_family` strikes the sessions of its snapshot (`service.py:259`). The invariant
  `ReplayEndsFamily` fails when `replays` takes every replay.
- Passwords tried at once count less than they are (`service.py:159`); see `LockoutInTime` for how many pass before the lock. A successful login that read `locked_until` as past clears a lock
  another try has set meanwhile (`service.py:154`).
- A refresh that overlaps a reset keeps its family alive (`repository.py:220`), against `service.py:647` (every valid session ends at once). `ResetEndsSessions` states what the code does keep.
- `academic/schemas.py:160` says null clears the class of a student and absence leaves it; `update_student` treats both as unchanged.
- A change of grade year or major of a class alone is audited with before equal to after (`academic/service.py:468`).
- The deadlocks of the handlers in `RowLocks!OutOfOrder`, against "a fixed order" of `academic/service.py:6`. They end by a rollback of one request.

## Not modelled

Of the parsers, weekdays are a table and grids and workbooks are file I/O. HTTP to WeChat comes before any read or write of a login, so
`Sessions` takes its answer as an input. Hashing, schemas and logging are I/O or libraries. Keyword search is a substring match on the client's text. The attendance, inspection, objection, report
and file packages are empty. `docs/legacy_parser_reference` is archived code of an earlier program that nothing imports.

A timetable batch stands for one row of its file: several rows of one file, which are written in order by one transaction, are not told apart.

## Plan

1. (done) `Policy`, `Identity`, `OneTimeCode`, `Sessions` and their runs; proofs about `Identity`.
2. (done) `Academic`, `Importer` and their runs.
3. (done) `TimeSlots`: week and period cells against what they say.
4. (done) The volunteer qualification as a handler of `Identity`, with its import: binding, qualification and VOLUNTEER role
   across academic, importer and identity.
5. (done) `RowLocks`: the order in which the handlers lock rows, checked for deadlock, with the pool; its proof.
6. (done) `Catalogue` and `Registry` with their runs and proofs.
7. (done) Proofs of `Importer`, `Sessions`, of the sequential properties of `Identity`, of the walks of `Catalogue` and of the parsers.
8. (done) `StudentRoleFollows`, `BindsOnce`, `ReplayIsFinal` and `LockoutComesInTime` for handlers that overlap.
9. Left: whether the non-overlap of `UsedStays` and `VolunteerRoleFollows` can be asked of the handlers of one code, account or student only.
