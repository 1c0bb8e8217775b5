CONSTANTS
  p1 = p1 p2 = p2 p3 = p3 p4 = p4 d1 = d1 d2 = d2 q1 = q1 q2 = q2 q3 = q3
  Pairs = {p1, p2, p3, p4}
  NoPair = NoPair
  Desktops = {d1, d2}
  Calls = {q1, q2, q3}
  NoCall = NoCall
  MaxFaults = 1
SPECIFICATION Spec
CHECK_DEADLOCK FALSE
INVARIANT FamiliesAreOne
PROPERTY KeptWhileUndisturbed
SYMMETRY Symmetry
