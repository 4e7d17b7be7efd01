CONSTANTS
  SuperAdmin = SuperAdmin
  Teacher = Teacher
  Clerk = Clerk
  p1 = p1
  p2 = p2
  old = old
  RoleCodes <- MCRoleCodes
  Codes <- MCCodes
  OldRoles <- MCOldRoles
  OldCodes <- MCOldCodes
  Matrix <- MCMatrix
  Admin = Admin
  Demo = {demo}
  Seeds = {s1, s2}
  Calls = {c1}
  None = None
SYMMETRY MCSymmetry
SPECIFICATION Spec
INVARIANTS PolicyInForce PasswordKept
PROPERTY ReportTrue
