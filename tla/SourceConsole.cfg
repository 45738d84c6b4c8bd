SPECIFICATION Spec
CONSTANTS
  p1 = p1
  g1 = g1
  g2 = g2
  None = None
  Pages = {p1}
  Groups = {g1}
  MaxVersion = 3
  MaxTime = 2
PROPERTIES ActivationFailsAsTold
CHECK_DEADLOCK FALSE
