SPECIFICATION Spec
CONSTANTS
  f1 = f1
  r1 = r1
  s1 = s1
  s2 = s2
  p1 = p1
  p2 = p2
  Factor = {f1}
  RecoveryCode = {}
  Session = {s1}
  Proc = {p1, p2}
  None = None
  MaxClock = 1
INVARIANTS StepUpOnce
