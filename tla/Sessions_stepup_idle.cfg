SPECIFICATION Spec
CONSTANTS
  s1 = s1
  s2 = s2
  u1 = u1
  u2 = u2
  p1 = p1
  p2 = p2
  Session = {s1}
  User = {u1}
  Proc = {p1}
  NoSession = NoSession
  Ops = {"verify", "step_up"}
  Ttl = 8
  IdleTtl = 4
  TouchInterval = 2
  MaxClock = 7
INVARIANTS KeepAlive
