CONSTANTS
  Parts = {"sidecar", "chat", "files", "runtime", "containers", "task", "tasks", "reload"}
  MaxRestarts = 1
  MaxManualRetries = 1
  MaxUpsets = 1
  o1 = o1
  o2 = o2
  f1 = f1
  f2 = f2
  f3 = f3
  j1 = j1
  j2 = j2
  None = None
SPECIFICATION LiveSpec
INVARIANTS ProcessesAccounted DeliveryExact MediationHolds
INVARIANTS RuntimeHolds TasksHold
PROPERTIES OnlyLateJobsAreCut NeverBack DesktopSettles
CHECK_DEADLOCK FALSE
