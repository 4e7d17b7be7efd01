CONSTANTS
  Users = {admin, guest}
  WebUsers = {admin}
  OpenIds = {wx}
  Sids = {c1, c2, c3}
  Reqs = {r1, r2}
  None = None
  SerialKinds = {}
  MaxFailures = 2
SYMMETRY MCSymmetry
SPECIFICATION Spec
INVARIANT OneLivePerFamily
CHECK_DEADLOCK FALSE
