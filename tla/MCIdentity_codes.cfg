CONSTANTS
  manager = manager
  alice = alice
  teacher = teacher
  Users = {manager, alice}
  Students = {s1, s2}
  Tokens = {t1}
  Sessions = {web}
  Reqs = {r1, r2}
  None = None
  Kinds = {"bind", "issue", "revoke", "reset"}
  InitRoles <- MCCodesRoles
  InitSessions = {}
  InitQualified = {}
  DesiredRoles = {}
  GrantCodes = {}
  MaxVersion = 2
  MaxFailed = 1
SYMMETRY MCSymmetry
SPECIFICATION Spec
INVARIANT RedeemedOnce
PROPERTIES CodesAreOneTime BindingJustified
CHECK_DEADLOCK FALSE
