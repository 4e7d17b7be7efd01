---------------------------- MODULE MCImporter -----------------------------
(* Instances of Importer for TLC. *)
EXTENDS Importer, TLC

(* Requests, classes, students and the rest of the rows are interchangeable. *)
MCSymmetry ==
  Permutations(Reqs) \cup Permutations(Classes) \cup Permutations(Students)

(* A week, the other, both, and a cell that no semester accepts. *)
MCWeekCells ==
  {<<1>>, <<Di, 2, Zhou>>, <<1, Dash, 2>>, <<1, Comma, Dan>>}

(* A preview has been imported. *)
Imported(d) == \E b \in Batches : d.batch[b] # NoBatch

(* One matter at a time, as everything at once is too much for TLC: either  *)
(* no batch is ever imported, or the batch meets requests about classes and *)
(* semesters, over classes without a roster and without schedules.          *)
MCOneMatter ==
  Imported(db') =>
    /\ db'.day = {}
    /\ \A r \in Reqs : req'[r].kind \notin {"roster", "schedule"}
    /\ \/ Imported(db)
       \/ /\ \A c \in Classes : db.roster[c] = {}
          /\ \A x \in Schedules : db.schedule[x] = None
=============================================================================
