CONSTANTS
  CellDigits = {0, 1}
  CellLength = 5
  CellTotals = {1, 10}
SPECIFICATION Spec
INVARIANTS WeeksAsWritten PeriodsAsWritten
CHECK_DEADLOCK FALSE
