CONSTANTS
  p1 = p1
  p2 = p2
  k1 = k1
  k2 = k2
  a = a
  b = b
  alias = alias
  o1 = o1
  o2 = o2
  o3 = o3
  None = None
  Proc = {p1, p2}
  Key = {k1, k2}
  Path = {a, b, alias}
  Canon <- MCCanon
  Bound <- MCBound
  Dest <- MCDest
  Object = {o1, o2, o3}
  Retained = {k1}
  Foreign = {}
  LockLoss = {}
  MaxGen = 2
  MaxFence = 2
SPECIFICATION Spec
SYMMETRY Symmetry
INVARIANTS TypeOK Reservations MutationsHold
PROPERTIES PausedOwnerKeeps LogSpec
CHECK_DEADLOCK FALSE
