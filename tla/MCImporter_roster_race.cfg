CONSTANTS
  Semesters = {autumn}
  Classes = {c1}
  Codes = {k1}
  Schedules = {}
  Students = {s1, s2}
  Days = {}
  Batches = {}
  Reqs = {r1, r2}
  None = None
  Kinds = {"class", "roster"}
  MaxWeek = 2
  MaxSerial = 2
  WeekCells <- MCWeekCells
SYMMETRY MCSymmetry
SPECIFICATION Spec
PROPERTY RosterReplaced
CHECK_DEADLOCK FALSE
