CONSTANTS
  Semesters = {autumn}
  Classes = {c1, c2}
  Codes = {k1}
  Schedules = {x1}
  Students = {s1}
  Days = {d1}
  Batches = {b1}
  Reqs = {r1, r2}
  None = None
  Kinds = {"class", "roster", "schedule", "confirm"}
  MaxWeek = 2
  MaxSerial = 2
  WeekCells <- MCWeekCells
SYMMETRY MCSymmetry
SPECIFICATION Spec
INVARIANTS TypeOK KeysUnique
PROPERTIES ArchivedFrozen WeeksFit BatchesAreOneTime
ACTION_CONSTRAINT MCOneMatter
CHECK_DEADLOCK FALSE
