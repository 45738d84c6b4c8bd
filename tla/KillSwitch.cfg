SPECIFICATION SessionSpec
CONSTANTS
  w1 = w1
  w2 = w2
  w3 = w3
  j1 = j1
  j2 = j2
  None = None
  Workers = {w1}
  Warmed = {w1}
  Jobs = {j1, j2}
  MaxAttempts = 2
PROPERTIES KillSwitchTakesEffect
