SPECIFICATION Spec
SYMMETRY Symmetry
CONSTANTS
  w1 = w1
  w2 = w2
  m1 = m1
  p1 = p1
  p2 = p2
  a = a
  b = b
  c = c
  None = None
  Ids = {1, 2}
  Monitors = {m1}
  Workers = {w1, w2}
  Operators = {p1, p2}
  Wordings = {a}
  MaxObservations = 4
  MaxVersion = 2
INVARIANTS IncidentsTypeOK OneActiveIncident EvidenceIsKept
PROPERTIES ActedOnAsSeen
