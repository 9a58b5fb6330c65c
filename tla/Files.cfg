CONSTANTS
  Inv = {m1, m2, m3}
  Old = Old
  Alien = Alien
  None = None
  Interferes = TRUE
  p1 = p1
  p2 = p2
SPECIFICATION MCSpec
SYMMETRY Symmetry
INVARIANTS ReplacementsHold ReadsAreWhole StagesHold RootsHold PeopleHold AliasesExclude
PROPERTY ReplaceSpec
CHECK_DEADLOCK FALSE
