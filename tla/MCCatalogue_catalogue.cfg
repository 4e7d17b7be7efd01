CONSTANTS
  Reqs = {r1, r2}
  Numbers = {s1, s2}
  Colleges = {n1, n2}
  One = One
  Codes <- MCCodes
  Names <- MCNames
  MaxId <- MCMaxId
  Filters <- MCFilters
  PageSize = 1
  None = None
  NotGiven = NotGiven
VIEW MCView
SYMMETRY MCSymmetry
SPECIFICATION Spec
INVARIANTS CodesUnique WalkComplete
PROPERTY AuditTrue
CHECK_DEADLOCK FALSE
