SPECIFICATION Spec
CONSTANTS
  e1 = e1
  e2 = e2
  t1 = t1
  t2 = t2
  p1 = p1
  p2 = p2
  Email = {e1}
  Token = {t1, t2}
  Proc = {p1, p2}
  NoUser = NoUser
  NoLink = NoLink
  None = None
  InitialUsers = {}
  SingleOwner = FALSE
  Owner = e1
  RequireVerified = TRUE
  RevokeOnPasswordChange = TRUE
  Ttl = 1
  MaxClock = 2
SYMMETRY Symmetric
INVARIANTS TypeOK RejectionJustified EffectsJustified VerifiedByMail
PROPERTIES NoLateRedemption ImplementsOneTimeToken
