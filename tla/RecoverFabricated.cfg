CONSTANTS
  MaxU64 = 300
  HeaderSize = 1
  NumBlocks = 6
  NumData = 2
  NumBackups = 3
  MaxGen = 4
  MaxIno = 258
  MaxCrashes = 1
  LeafCap = 1
  Lengths <- MCLengths
SPECIFICATION Spec
CHECK_DEADLOCK FALSE
INVARIANT NothingFabricated
