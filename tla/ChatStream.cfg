CONSTANTS
  r1 = r1
  r2 = r2
  s1 = s1
  u1 = u1
  Run = {r1, r2}
  Session = {s1}
  Of <- MCOf
  Reader = {u1}
  Watched <- MCWatched
  MaxStarts = 2
  MaxChunks = 1
  MaxCancels = 1
  MaxPairs = 1
  MaxRuns = 1
  Replay = 1
  QueueSize = 1
SPECIFICATION LiveSpec
INVARIANT RunsAgree
PROPERTIES NothingIsTakenBack EverythingEnds
CHECK_DEADLOCK FALSE
