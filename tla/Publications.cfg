CONSTANTS
  Proc = {p1, p2, p3}
  Scope = {s1, s2}
  Inode = {i1, i2, i3, i4}
  None = None
  r1 = r1
  r2 = r2
  b1 = b1
  b2 = b2
  t1 = t1
  t2 = t2
  Old = Old
  Alien = Alien
SPECIFICATION MCSpec
INVARIANTS TypeOK OneOwner OwnerStillNamed
INVARIANTS PublicationsHold
PROPERTIES CatalogIsLeft SetsAreWhole
CHECK_DEADLOCK FALSE
