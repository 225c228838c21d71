SPECIFICATION Spec
CONSTANTS
  p = 3
  MaxDeg = 4
  Addends <- MCAddends
  gbk_minlen = 2
  gbk_factor = 2
  MaxOps = 5
INVARIANTS LMCertified ApproxIsBound
PROPERTY ImplementsPolySum
CHECK_DEADLOCK FALSE
