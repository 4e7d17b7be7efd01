CONSTANTS
  manager = manager
  alice = alice
  teacher = teacher
  Users = {manager, alice}
  Students = {s1, s2}
  Tokens = {t1, t2}
  Sessions = {web}
  Reqs = {r1, r2}
  None = None
  Kinds = {"bind", "reset"}
  InitRoles <- MCCodesRoles
  InitSessions = {}
  InitQualified = {}
  DesiredRoles = {}
  GrantCodes = {}
  MaxVersion = 3
  MaxFailed = 1
SYMMETRY MCAllSymmetry
SPECIFICATION Spec
CONSTRAINT ResetsAlone
PROPERTY SelfServiceBindsOnce
CHECK_DEADLOCK FALSE
