SPECIFICATION Spec
CONSTANTS
  Handles = {h1, h2}
  Ids = {i1, i2, i3}
  MaxExp = 2
  Rings <- MCRings
SYMMETRY Symmetry
CHECK_DEADLOCK FALSE
INVARIANTS FlagsAgree FlagsAreTrueUnlessKept CachesAreCurrent
PROPERTIES HandlesAreValues
