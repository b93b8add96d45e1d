SPECIFICATION AdministrationSpec
CONSTANTS
  u1 = u1
  u2 = u2
  p0 = p0
  p1 = p1
  p2 = p2
  NoUser = NoUser
  NoLink = NoLink
  e1 = e1
  e2 = e2
  t1 = t1
  ps = ps
  pn = pn
  cs = cs
  cn = cn
  User = {u1, u2}
  s1 = s1
  s2 = s2
  s3 = s3
  Proc = {p0}
  Admins = {u1, u2}
  None = None
  Ops = {"role_admin", "role_user", "ban", "unban", "disable", "enable", "set_password", "revoke_session", "login_password", "login_link"}
  RevokeOnPasswordChange = TRUE
  MayCrash = FALSE
  MaxSessions = 2
  MaxPassword = 1
  Thread = {p1, p2}
  RaceAdmins = {u1}
  RaceOps = {"role_admin", "disable", "set_password", "login_link"}
  RaceSessions = 1
  Session = {s1, s2, s3}
  MaxPageChanges = 2
  Email = {e1, e2}
  Token = {t1}
  Owner = e1
  RequireVerified = TRUE
  Ttl = 1
  MaxClock = 1
  Post = {ps, pn}
  Comment = {cs, cn}
  SeedPost = {ps}
  SeedComment = {cs}
  SeedAuthor <- MCSeedAuthor
  AdminPost = ps
  BoardRoles <- MCBoardRoles
  AuthRoles = {"user", "admin"}
SYMMETRY Symmetric
INVARIANTS TypeOK RacesAreSafe PagesCut OwnerAlone
PROPERTIES LastAdminKept CommandsHold RolesFit RacesAreBounded BoardKept
