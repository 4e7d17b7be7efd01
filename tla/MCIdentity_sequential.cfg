CONSTANTS
  manager = manager
  alice = alice
  teacher = teacher
  Users = {teacher, alice}
  Students = {s1, s2}
  Tokens = {t1, t2}
  Sessions = {web}
  Reqs = {r1}
  None = None
  Kinds = {"bind", "issue", "revoke", "reset", "qualify"}
  InitRoles <- MCSuperRoles
  InitSessions = {web}
  InitQualified = {s1}
  DesiredRoles = {}
  GrantCodes = {}
  MaxVersion = 3
  MaxFailed = 1
SPECIFICATION Spec
INVARIANTS TypeOK StudentRoleIffBound UsedStaysUsed
PROPERTY VolunteerFollows
CHECK_DEADLOCK FALSE
