SPECIFICATION LoafSpec
CONSTANTS
  MaxSliceSize = 256
  WordSize = 8
  allowance = 16
  MinLoafBytes = 1024
  MaxLoafBytes = 65536
  MinSlices = 16
  MaxDoublings = 8
  Requests <- MCRequests
  MaxLoaves = 9
INVARIANT LoafFits
PROPERTY DoublesToTheCap
CHECK_DEADLOCK FALSE
