CONSTANTS
  j1 = j1
  j2 = j2
  j3 = j3
  None = None
  Job = {j1, j2}
  Keys <- MCKeysPair
  Cleaned = {j1}
  Protects = {j1}
  Stops = TRUE
  MaxWorkers = 2
  MaxPending = 2
SPECIFICATION LiveSpec
INVARIANTS JobsHold
PROPERTY JobsEnd
CHECK_DEADLOCK FALSE
