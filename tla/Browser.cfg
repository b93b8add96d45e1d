SPECIFICATION BrowserSpec
CONSTANTS
  st1 = st1
  google = google
  facebook = facebook
  a1 = a1
  n1 = n1
  e1 = e1
  e2 = e2
  p1 = p1
  p2 = p2
  c1 = c1
  c2 = c2
  b1 = b1
  b2 = b2
  t1 = t1
  t2 = t2
  t3 = t3
  None = None
  State = {st1}
  Email = {e1, e2}
  Proc = {p1, p2}
  Provider = {google, facebook}
  Account = {a1}
  Nonce = {n1}
  Profile <- MCProfile
  Token = {c1, c2}
  Sid = {b1, b2}
  Attempt = {t1, t2, t3}
  WithIssuer = {t1, t2}
  SingleOwner = FALSE
  Owner = e1
  RequireVerified = TRUE
  LinkVerifiedOnly = TRUE
  Key = {c1, c2}
  Limit = 2
  MaxBuckets = 1
  MaxServed = 3
  LoopWindow = 2
  LoopTime = 3
  ThreadWindow = 1
  ThreadTime = 1
SYMMETRY Symmetric
INVARIANTS TypeOK SessionsUseTheirState LinkJustified SessionsFollowIdentity TokensFit TabsServe
INVARIANTS LimiterKept RefusalsFollowLimit
