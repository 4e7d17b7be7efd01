CONSTANTS
  Users = {admin, guest, twin}
  WebUsers = {admin}
  OpenIds = {wx}
  Sids = {c1, c2, c3}
  Reqs = {r1, r2}
  None = None
  SerialKinds = {"refresh"}
  MaxFailures = 2
SYMMETRY MCSymmetry
SPECIFICATION Spec
INVARIANTS TypeOK OneLivePerFamily ReplayEndsFamily LockoutInTime
PROPERTIES IdentityStable ResetEndsSessions
CHECK_DEADLOCK FALSE
