SPECIFICATION Spec
CONSTANTS
  s1 = s1
  l1 = l1
  e1 = e1
  p1 = p1
  p2 = p2
  Session = {s1}
  Flow = {l1}
  Email = {e1}
  Thread = {p1, p2}
  None = None
SYMMETRY Symmetric
PROPERTIES SecurityStateMonotone
