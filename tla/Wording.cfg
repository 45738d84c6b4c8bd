SPECIFICATION Spec
SYMMETRY Symmetry
CONSTANTS
  w1 = w1
  w2 = w2
  m1 = m1
  p1 = p1
  p2 = p2
  a = a
  b = b
  c = c
  None = None
  Ids = {1}
  Monitors = {m1}
  Workers = {w1}
  Operators = {p1, p2}
  Wordings = {a, b, c}
  MaxObservations = 2
  MaxVersion = 5
INVARIANTS PublicWordingRetained
