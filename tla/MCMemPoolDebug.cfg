SPECIFICATION Spec
CONSTANTS
  myMarginWords = 2
  Widths = {1, 2}
  MaxSliceSize = 5
  FirstLoafSlices = 1
  IncrLoafSlices <- MCIncrLoafSlices
  MaxLoafSlices = 2
  MaxLoaves = 2
  Blocks = {b1, b2}
  Misuse = {"overrun", "write after free", "double free", "foreign free"}
  MaxMistakes = 3
  BEFORE = BEFORE
  AFTER = AFTER
  FREE = FREE
  DATA = DATA
  JUNK = JUNK
  nullptr = nullptr
INVARIANTS FreeListSurvives NoFalseAlarm
PROPERTIES ImplementsSlicePool DamageIsReported BadFreeRefused NeverReallocated
CHECK_DEADLOCK FALSE
