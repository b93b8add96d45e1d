SPECIFICATION Spec
CONSTANTS
  u1 = u1
  u2 = u2
  p1 = p1
  p2 = p2
  User = {u1, u2}
  Proc = {p1, p2}
  Admins = {u1, u2}
  None = None
  Ops = {"role_user", "login_password"}
  RevokeOnPasswordChange = TRUE
  MayCrash = FALSE
  MaxSessions = 2
  MaxPassword = 1
INVARIANTS RoleUpToDate
