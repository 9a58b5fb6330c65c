CONSTANTS
  r1 = r1
  None = None
  MaxId = 1
  MaxStarts = 2
  MaxProgress = 1
  Reader = {r1}
  Watched <- MCWatched
  Retained = 2
  QueueSize = 1
  Faulty = {1}
SPECIFICATION LiveSpec
INVARIANTS EventsAreTold
PROPERTIES NumbersAreFresh EndsAreLearnt
CHECK_DEADLOCK FALSE
