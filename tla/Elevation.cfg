SPECIFICATION ElevationSpec
CONSTANTS
  f1 = f1
  r1 = r1
  s1 = s1
  s2 = s2
  p1 = p1
  p2 = p2
  l1 = l1
  Factor = {f1}
  RecoveryCode = {}
  Session = {s1}
  Proc = {p1, p2}
  None = None
  MaxClock = 1
  Recovery = {r1}
  Several = {s1, s2}
  u1 = u1
  Live = {s1}
  User = {u1}
  Ops = {"verify", "step_up", "logout"}
  Ttl = 3
  IdleTtl = 2
  TouchInterval = 1
  MaxTime = 3
  Flow = {l1}
  Email = {f1}
  Resource = {"dashboard", "services"}
  Action = {"read", "edit"}
  Scope = {"own", "any", "team"}
  Malformed = Malformed
  Device = {f1, r1}
  Origin <- MCOrigin
  RpId <- MCRpId
  LocalHost <- MCLocalHost
  MaxCount = 3
  MaxMade = 2
SYMMETRY Symmetric
INVARIANTS TypeOK OneStepUpPerCode GoodCodeAccepted EnabledProven Aal2Justified
INVARIANTS CodesKept RevocationsHold GrantsDecide PasskeysFresh
PROPERTIES SessionsOnlyTighten ExpiryHolds MemoryKept
CHECK_DEADLOCK FALSE
