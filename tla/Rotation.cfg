SPECIFICATION RotationSpec
CONSTANTS
  k1 = k1
  k2 = k2
  p1 = p1
  p2 = p2
  Key = {k1, k2}
  Proc = {p1, p2}
  Alone = {p1}
  Naming = {p2}
  Foreign = {k2}
  other = other
  Client = client
  None = None
  Claims <- MCClaims
  Leeway = 1
  MaxAge = None
  Ttl = 2
  Cooldown = 1
  MaxDelay = 1
INVARIANTS TypeOK RetiredKeysFade RefusalsFade
PROPERTIES SharedHeals ChangeHeals
