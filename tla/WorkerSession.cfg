SPECIFICATION SessionSpec
CONSTANTS
  w1 = w1
  w2 = w2
  w3 = w3
  j1 = j1
  j2 = j2
  None = None
  Workers = {w1, w2, w3}
  Warmed = {w1, w2}
  Jobs = {j1, j2}
  MaxAttempts = 2
SYMMETRY Symmetry
INVARIANTS SessionTypeOK MainsLeasesAreSafe
PROPERTIES AttemptsNeverRegress CompletionsEndWhole
