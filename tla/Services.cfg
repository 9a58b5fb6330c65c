CONSTANTS
  i1 = i1
  i2 = i2
  r1 = r1
  r2 = r2
  r3 = r3
  None = None
  Insp = {i1, i2}
  Homes <- MCHomes
  Slots = 1
  MaxLeases = 1
  MaxChanges = 1
  Mortal = {"a"}
SPECIFICATION MCSpec
INVARIANTS InspectionsHold RequestsExact KernelIsTrue MergesHold
PROPERTIES MergesLoseNothing WorkEnds
CHECK_DEADLOCK FALSE
