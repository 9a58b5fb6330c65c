CONSTANTS
  r1 = r1
  None = None
  MaxId = 1
  MaxStarts = 2
  MaxProgress = 0
  Reader = {}
  Watched <- MCWatched
  Retained = 2
  QueueSize = 1
  Faulty = {}
SPECIFICATION Spec
INVARIANT SafeToQuitIsSafe
CHECK_DEADLOCK FALSE
