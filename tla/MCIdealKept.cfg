SPECIFICATION Spec
CONSTANTS
  Handles = {h1, h2}
  Ids = {i1, i2, i3}
  MaxExp = 2
  Rings <- PlaneOnly
SYMMETRY Symmetry
CHECK_DEADLOCK FALSE
INVARIANTS FlagsAreTrue
