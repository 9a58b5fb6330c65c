CONSTANTS
  Inv = {m1, m2}
  Old = Old
  Alien = Alien
  None = None
  Interferes = FALSE
SPECIFICATION Spec
SYMMETRY Symmetry
INVARIANT InterruptedIsInert
CHECK_DEADLOCK FALSE
