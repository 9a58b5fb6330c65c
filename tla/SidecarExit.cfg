CONSTANTS
  Parts = {"sidecar"}
  MaxRestarts = 1
  MaxManualRetries = 0
  MaxUpsets = 1
  o1 = o1
  o2 = o2
  f1 = f1
  f2 = f2
  f3 = f3
  j1 = j1
  j2 = j2
  None = None
SPECIFICATION LiveSpec
PROPERTY ExitIsNoticed
CHECK_DEADLOCK FALSE
