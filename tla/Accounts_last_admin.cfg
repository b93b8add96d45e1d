SPECIFICATION Spec
CONSTANTS
  u1 = u1
  u2 = u2
  p1 = p1
  p2 = p2
  User = {u1, u2}
  Proc = {p1, p2}
  Admins = {u1, u2}
  None = None
  Ops = {"ban", "unban"}
  RevokeOnPasswordChange = TRUE
  MayCrash = FALSE
  MaxSessions = 1
  MaxPassword = 1
INVARIANTS SomeAdminRemains
