--------------------------- MODULE RegistryProofs ---------------------------
(***************************************************************************)
(* Theorems about Registry, for every policy, every state of the tables    *)
(* the seed may find and any number of seeds and handlers.                 *)
(***************************************************************************)
EXTENDS Registry, TLAPS

SeedTypes ==
  [ pc : {"ready", "running", "done", "failed"}, wanted : SUBSET Rows,
    rows : SUBSET Rows, links : SUBSET Links,
    report : [ created : SUBSET Rows, added : SUBSET Links,
               removed : SUBSET Links, admin : BOOLEAN ] ]

CallTypes ==
  [ pc : {"idle", "running"}, asked : SUBSET RegistryRows, rows : SUBSET Rows,
    sets : BOOLEAN ]

TypeOK ==
  /\ rows \in SUBSET Rows
  /\ links \in SUBSET Links
  /\ account \in Account \cup {None}
  /\ seed \in [Seeds -> SeedTypes]
  /\ call \in [Calls -> CallTypes]

\* A running seed has seen rows that are still there, and links that are those
\* of the table unless another seed has brought its roles to the matrix since.
SeedsBehind ==
  \A s \in Seeds : seed[s].pc = "running" =>
    /\ seed[s].rows \subseteq rows
    /\ RegistryRows \subseteq seed[s].wanted
    /\ seed[s].links = links \/ Policed(links) = Matrix

\* The handlers' side: who has seen the administrator's row will find it.
CallsBehind ==
  /\ \A c \in Calls :
       /\ call[c].rows \subseteq rows
       /\ call[c].sets => call[c].asked \subseteq RoleCodes
  /\ Admin \in rows => account \in Account

\* The run that says it created the administrator took its name.
AdminTaken ==
  \A s \in Seeds : Done(s) /\ seed[s].report.admin =>
    Admin \in rows /\ account.password = s

IInv == TypeOK /\ SeedsBehind /\ CallsBehind /\ PolicyInForce /\ AdminTaken
-----------------------------------------------------------------------------
LEMMA Start == Init => IInv
<1> SUFFICES ASSUME Init PROVE IInv
  OBVIOUS
<1>1. /\ rows \in SUBSET Rows /\ Admin \notin rows
      /\ links \in SUBSET Links /\ account = None
  BY NamesAssumption DEF Init, Rows, TableRows
<1>2. Ready \in SeedTypes /\ IdleCall \in CallTypes
  BY DEF Ready, NoReport, SeedTypes, IdleCall, CallTypes
<1>3. seed \in [Seeds -> SeedTypes] /\ call \in [Calls -> CallTypes]
  BY <1>2 DEF Init
<1>4. \A s \in Seeds : seed[s].pc = "ready"
  BY DEF Init, Ready
<1>5. \A c \in Calls : call[c].rows = {} /\ ~call[c].sets
  BY DEF Init, IdleCall
<1> QED
  BY <1>1, <1>3, <1>4, <1>5 DEF IInv, TypeOK, SeedsBehind, CallsBehind,
     PolicyInForce, AdminTaken, Done

(* What a run that commits leaves the policy's roles is the matrix: either  *)
(* it found the table as it had read it, or another run has brought them to *)
(* the matrix and this one has nothing left that it may delete or insert.   *)
LEMMA MatrixLeft ==
  ASSUME IInv, NEW s \in Seeds, CommitSeed(s)
  PROVE  Policed(links') = Matrix /\ links' \in SUBSET Links
<1>1. links' = (links \ Removes(s)) \cup Adds(s)
  BY DEF CommitSeed
<1>2. \A l \in Matrix : l[1] \in RoleCodes /\ l \in Links
  BY MatrixAssumption DEF Links
<1>3. ASSUME seed[s].links = links PROVE Policed(links') = Matrix
  <2>1. ASSUME NEW l \in links', l[1] \in RoleCodes PROVE l \in Matrix
    <3>1. l \in links => l \in Policed(seed[s].links)
      BY <1>3, <2>1 DEF Policed
    <3> QED BY <1>1, <2>1, <3>1 DEF Removes, Adds
  <2>2. Matrix \subseteq links'
    BY <1>1, <1>3 DEF Removes, Adds
  <2> QED BY <1>2, <2>1, <2>2 DEF Policed
<1>4. ASSUME Policed(links) = Matrix PROVE Policed(links') = Matrix
  <2>1. Adds(s) \subseteq Matrix /\ Removes(s) \cap Matrix = {}
    BY DEF Adds, Removes
  <2>2. ASSUME NEW l \in links', l[1] \in RoleCodes PROVE l \in Matrix
    BY <1>1, <1>4, <2>1, <2>2 DEF Policed
  <2>3. Matrix \subseteq links'
    BY <1>1, <1>4, <2>1 DEF Policed
  <2> QED BY <1>2, <2>2, <2>3 DEF Policed
<1>5. links' \in SUBSET Links
  BY <1>1, <1>2 DEF Adds, IInv, TypeOK
<1>6. Policed(links') = Matrix
  BY <1>3, <1>4 DEF IInv, SeedsBehind, CommitSeed
<1> QED BY <1>5, <1>6

LEMMA RowsLeft ==
  ASSUME IInv, NEW s \in Seeds, CommitSeed(s)
  PROVE  rows \subseteq rows' /\ RegistryRows \subseteq rows' /\ rows' \in SUBSET Rows
<1>1. rows' = rows \cup (seed[s].wanted \ seed[s].rows)
  BY DEF CommitSeed, Inserts
<1>2. seed[s].rows \subseteq rows /\ RegistryRows \subseteq seed[s].wanted
  BY DEF CommitSeed, IInv, SeedsBehind
<1>3. seed[s].wanted \subseteq Rows /\ rows \subseteq Rows
  BY DEF IInv, TypeOK, SeedTypes
<1> QED BY <1>1, <1>2, <1>3

LEMMA BeginStep == ASSUME IInv, NEW s \in Seeds, Begin(s) PROVE IInv'
<1>1. PICK admin \in BOOLEAN, demo \in BOOLEAN :
        seed' = [seed EXCEPT ![s] =
          [ pc |-> "running", wanted |-> Wanted(admin, demo), rows |-> rows,
            links |-> links, report |-> NoReport ]]
  BY DEF Begin
<1>2. Wanted(admin, demo) \subseteq Rows /\ RegistryRows \subseteq Wanted(admin, demo)
  BY DEF Wanted, Rows, TableRows
<1>3. seed' \in [Seeds -> SeedTypes]
  BY <1>1, <1>2 DEF IInv, TypeOK, SeedTypes, NoReport
<1>4. UNCHANGED << rows, links, account, call >>
  BY DEF Begin
<1>5. TypeOK' /\ CallsBehind'
  BY <1>3, <1>4 DEF IInv, TypeOK, CallsBehind
<1>6. SeedsBehind'
  BY <1>1, <1>2, <1>4 DEF IInv, TypeOK, SeedsBehind
<1>7. \A q \in Seeds : Done(q)' => Done(q) /\ seed'[q] = seed[q]
  BY <1>1 DEF Done, IInv, TypeOK
<1>8. PolicyInForce' /\ AdminTaken'
  BY <1>4, <1>7 DEF IInv, PolicyInForce, AdminTaken, Done
<1> QED BY <1>5, <1>6, <1>8 DEF IInv

LEMMA CommitSeedStep == ASSUME IInv, NEW s \in Seeds, CommitSeed(s) PROVE IInv'
<1>1. /\ Policed(links') = Matrix /\ links' \in SUBSET Links
      /\ rows \subseteq rows' /\ RegistryRows \subseteq rows' /\ rows' \in SUBSET Rows
  BY MatrixLeft, RowsLeft
<1>2. Matrix \subseteq Links
  BY MatrixAssumption DEF Links
<1>3. Report(s) \in [ created : SUBSET Rows, added : SUBSET Links,
                      removed : SUBSET Links, admin : BOOLEAN ]
  BY <1>2 DEF Report, Inserts, Adds, Removes, Policed, IInv, TypeOK, SeedTypes
<1>4. seed' = [seed EXCEPT ![s] = [ Ready EXCEPT !.pc = "done", !.report = Report(s) ]]
      /\ call' = call
  BY DEF CommitSeed
<1>5. [ Ready EXCEPT !.pc = "done", !.report = Report(s) ] \in SeedTypes
  BY <1>3 DEF Ready, SeedTypes
<1>6. /\ Admin \in Inserts(s) => account' = [ password |-> s, roles |-> {SuperAdmin} ]
      /\ Admin \notin Inserts(s) => account' = account
      /\ Admin \in rows' => Admin \in rows \/ Admin \in Inserts(s)
  BY DEF CommitSeed
<1>7. account' \in Account \cup {None} /\ (Admin \in rows' => account' \in Account)
  BY <1>6, MatrixAssumption DEF IInv, TypeOK, CallsBehind, Account
<1>8. TypeOK'
  BY <1>1, <1>2, <1>4, <1>5, <1>7 DEF IInv, TypeOK
<1>9. CallsBehind'
  BY <1>1, <1>4, <1>7 DEF IInv, CallsBehind
<1>10. \A q \in Seeds : seed'[q].pc = "running" => seed[q].pc = "running" /\ seed'[q] = seed[q]
  BY <1>4 DEF IInv, TypeOK
<1>11. SeedsBehind'
  BY <1>1, <1>10 DEF IInv, SeedsBehind
<1>12. PolicyInForce'
  BY <1>1 DEF PolicyInForce
<1>13. AdminTaken'
  <2> SUFFICES ASSUME NEW q \in Seeds, Done(q)', seed'[q].report.admin
               PROVE  Admin \in rows' /\ account'.password = q
    BY DEF AdminTaken
  <2>1. CASE q = s
    <3>1. seed'[s].report.admin = (Admin \in Inserts(s))
      BY <1>4, <1>5 DEF IInv, TypeOK, Ready, Report
    <3>2. Admin \in Inserts(s)
      BY <2>1, <3>1
    <3>3. account'.password = s
      BY <1>6, <3>2
    <3>4. Admin \in rows'
      BY <3>2 DEF CommitSeed
    <3> QED BY <2>1, <3>3, <3>4
  <2>2. CASE q # s
    <3>1. seed'[q] = seed[q] /\ Done(q)
      BY <1>4, <2>2 DEF Done, IInv, TypeOK
    <3>2. Admin \in rows /\ account.password = q
      BY <3>1 DEF IInv, AdminTaken
    <3>3. Admin \notin Inserts(s)
      BY <3>2 DEF CommitSeed, NoDuplicate
    <3> QED BY <1>1, <1>6, <3>2, <3>3
  <2> QED BY <2>1, <2>2
<1> QED BY <1>8, <1>9, <1>11, <1>12, <1>13 DEF IInv

LEMMA FailSeedStep == ASSUME IInv, NEW s \in Seeds, FailSeed(s) PROVE IInv'
<1>1. seed' = [seed EXCEPT ![s] = [ Ready EXCEPT !.pc = "failed" ]]
      /\ UNCHANGED << rows, links, account, call >>
  BY DEF FailSeed
<1>2. [ Ready EXCEPT !.pc = "failed" ] \in SeedTypes
  BY DEF Ready, NoReport, SeedTypes
<1>3. \A q \in Seeds : seed'[q].pc \in {"running", "done"} => seed'[q] = seed[q]
  BY <1>1, <1>2 DEF IInv, TypeOK, Ready
<1>4. TypeOK' /\ CallsBehind'
  BY <1>1, <1>2 DEF IInv, TypeOK, CallsBehind
<1>5. SeedsBehind' /\ PolicyInForce' /\ AdminTaken'
  BY <1>1, <1>3 DEF IInv, SeedsBehind, PolicyInForce, AdminTaken, Done
<1> QED BY <1>4, <1>5 DEF IInv

(* A handler never writes a link, and rows only come. *)
LEMMA CallStep ==
  ASSUME IInv, NEW c \in Calls, BeginCall(c) \/ CommitCall(c) \/ FailCall(c)
  PROVE  IInv'
<1>1. seed' = seed /\ links' = links /\ rows \subseteq rows'
  BY DEF BeginCall, CommitCall, FailCall
<1>2. IdleCall \in CallTypes
  BY DEF IdleCall, CallTypes
<1>3. /\ call' \in [Calls -> CallTypes]
      /\ \A q \in Calls : /\ call'[q].rows \subseteq rows'
                          /\ call'[q].sets => call'[q].asked \subseteq RoleCodes
  <2>1. CASE BeginCall(c)
    <3>1. PICK asked \in (SUBSET RoleCodes) \cup { {p} : p \in Codes }, sets \in BOOLEAN :
            /\ sets => asked \subseteq RoleCodes
            /\ call' = [call EXCEPT ![c] =
                 [ pc |-> "running", asked |-> asked, rows |-> rows, sets |-> sets ]]
      BY <2>1 DEF BeginCall
    <3>2. asked \subseteq RegistryRows
      BY DEF RegistryRows
    <3>3. [ pc |-> "running", asked |-> asked, rows |-> rows, sets |-> sets ] \in CallTypes
      BY <3>2 DEF CallTypes, IInv, TypeOK
    <3> QED BY <1>1, <3>1, <3>3 DEF IInv, TypeOK, CallsBehind
  <2>2. CASE CommitCall(c) \/ FailCall(c)
    <3>1. call' = [call EXCEPT ![c] = IdleCall]
      BY <2>2 DEF CommitCall, FailCall
    <3> QED BY <1>1, <1>2, <3>1 DEF IInv, TypeOK, CallsBehind, IdleCall
  <2> QED BY <2>1, <2>2
<1>4. /\ rows' \in SUBSET Rows
      /\ Admin \in rows' => Admin \in rows
  <2>1. CASE rows' = rows
    BY <2>1 DEF IInv, TypeOK
  <2>2. CASE CommitCall(c)
    <3>1. rows' = rows \cup (call[c].asked \ call[c].rows)
      BY <2>2 DEF CommitCall, Creates
    <3>2. call[c].asked \subseteq RegistryRows
      BY DEF IInv, TypeOK, CallTypes
    <3> QED BY <3>1, <3>2, NamesAssumption DEF IInv, TypeOK, Rows, TableRows
  <2> QED BY <2>1, <2>2 DEF BeginCall, FailCall
<1>5. \/ account' = account
      \/ /\ account' = [account EXCEPT !.roles = call[c].asked]
         /\ account \in Account /\ call[c].asked \subseteq RoleCodes
  BY DEF BeginCall, CommitCall, FailCall, IInv, CallsBehind
<1>6. /\ account' \in Account \cup {None}
      /\ account \in Account => account' \in Account /\ account'.password = account.password
  BY <1>5 DEF IInv, TypeOK, Account
<1>7. TypeOK' /\ CallsBehind'
  BY <1>1, <1>3, <1>4, <1>6 DEF IInv, TypeOK, CallsBehind
<1>8. SeedsBehind' /\ PolicyInForce'
  BY <1>1 DEF IInv, SeedsBehind, PolicyInForce, Done
<1>9. AdminTaken'
  BY <1>1, <1>6 DEF IInv, CallsBehind, AdminTaken, Done
<1> QED BY <1>7, <1>8, <1>9 DEF IInv

LEMMA Step == IInv /\ [Next]_vars => IInv'
<1> SUFFICES ASSUME IInv, [Next]_vars PROVE IInv'
  OBVIOUS
<1>1. CASE UNCHANGED vars
  BY <1>1 DEF vars, IInv, TypeOK, SeedsBehind, CallsBehind, PolicyInForce, AdminTaken, Done
<1>2. CASE Next
  BY <1>2, BeginStep, CommitSeedStep, FailSeedStep, CallStep DEF Next
<1> QED BY <1>1, <1>2

LEMMA Invariant == Spec => []IInv
BY Start, Step, PTL DEF Spec
-----------------------------------------------------------------------------
(* Whatever the tables held, however many seeds run and whatever handlers   *)
(* run beside them: after a seed has succeeded the roles of the policy have *)
(* the links of its matrix, for good (sync_registry).                       *)
THEOREM SeedEnforcesPolicy == Spec => []PolicyInForce
<1>1. IInv => PolicyInForce
  BY DEF IInv
<1> QED BY <1>1, Invariant, PTL

(* The administrator's password is that of the one run that says it created *)
(* the account (ensure_admin_account).                                      *)
THEOREM SeedKeepsPassword == Spec => []PasswordKept
<1>1. IInv => PasswordKept
  BY NamesAssumption DEF IInv, AdminTaken, CallsBehind, PasswordKept
<1> QED BY <1>1, Invariant, PTL

(* A run that succeeds has changed the tables by exactly what it reports:   *)
(* the unique indexes and the counted deletes refuse a run whose plan is    *)
(* out of date (RegistrySyncReport).                                        *)
THEOREM SeedReportsTruth == Spec => ReportTrue
<1> DEFINE Told ==
      \A s \in Seeds :
        ~Done(s) /\ Done(s)' =>
          /\ seed'[s].report.created = (rows' \ rows) \cap RegistryRows
          /\ seed'[s].report.added = links' \ links
          /\ seed'[s].report.removed = links \ links'
<1>1. IInv /\ Next => Told
  <2> SUFFICES ASSUME IInv, Next, NEW s \in Seeds, ~Done(s), Done(s)'
               PROVE  /\ seed'[s].report.created = (rows' \ rows) \cap RegistryRows
                      /\ seed'[s].report.added = links' \ links
                      /\ seed'[s].report.removed = links \ links'
    OBVIOUS
  <2>1. CommitSeed(s)
    <3>1. ASSUME NEW q \in Seeds, Begin(q) \/ FailSeed(q) PROVE FALSE
      BY <3>1 DEF Begin, FailSeed, Done, Ready, IInv, TypeOK
    <3>2. ASSUME NEW q \in Seeds, q # s, CommitSeed(q) PROVE FALSE
      BY <3>2 DEF CommitSeed, Done, IInv, TypeOK
    <3>3. ASSUME NEW c \in Calls, BeginCall(c) \/ CommitCall(c) \/ FailCall(c)
          PROVE  FALSE
      BY <3>3 DEF BeginCall, CommitCall, FailCall, Done
    <3> QED BY <3>1, <3>2, <3>3 DEF Next
  <2>2. seed'[s].report = Report(s)
    BY <2>1 DEF CommitSeed, Ready, IInv, TypeOK
  <2>3. (rows' \ rows) = Inserts(s)
    BY <2>1 DEF CommitSeed, NoDuplicate
  <2>4. Removes(s) \subseteq links /\ Adds(s) \cap links = {} /\ Removes(s) \cap Adds(s) = {}
        /\ links' = (links \ Removes(s)) \cup Adds(s)
    BY <2>1 DEF CommitSeed, RowsCounted, NoDuplicate, Removes, Policed, Adds
  <2>5. links' \ links = Adds(s) /\ links \ links' = Removes(s)
    BY <2>4
  <2> QED BY <2>2, <2>3, <2>5 DEF Report
<1>2. IInv /\ [Next]_vars => [Told]_vars
  BY <1>1
<1> QED BY <1>2, Invariant, PTL DEF Spec, ReportTrue
=============================================================================
