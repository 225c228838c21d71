SPECIFICATION FairSpec
CONSTANTS
  Objects = {o1, o2, o3}
  Threads = {t1}
  PerThread = 3
  SelfRefs = 2
  W = 16
  SoleRebase = FALSE
  none = none
INVARIANTS NeverUsedDead CountIsHolders
PROPERTY NoImmortals
CHECK_DEADLOCK FALSE
