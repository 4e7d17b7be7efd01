CONSTANTS
  manager = manager
  alice = alice
  teacher = teacher
  Users = {teacher, manager}
  Students = {s1}
  Tokens = {}
  Sessions = {web}
  Reqs = {r1, r2}
  None = None
  Kinds = {"assign", "optional", "reset"}
  InitRoles <- MCTeacherRoles
  InitSessions = {web}
  InitQualified = {}
  DesiredRoles <- MCDesired
  GrantCodes = {"report.read", "student.read"}
  MaxVersion = 2
  MaxFailed = 1
SYMMETRY MCSymmetry
SPECIFICATION Spec
INVARIANTS GrantsNeedManager NoEscalation
PROPERTIES VersionMovesForward AssignLeavesDesired BusinessRolesUntouched
CHECK_DEADLOCK FALSE
