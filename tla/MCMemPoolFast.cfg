SPECIFICATION Spec
CONSTANTS
  Sizes = {0, 2, 5}
  MaxSliceSize = 4
  FirstLoafSlices <- MCFirstLoafSlices
  IncrLoafSlices <- MCIncrLoafSlices
  MaxLoafSlices = 7
  MaxLoaves = 2
  SysAddrs = {a1}
  Data = {junk}
  nullptr = nullptr
INVARIANTS TypeOK FreeListIsFree NoSliceLost BlocksGoHome
PROPERTY ImplementsSlicePool
