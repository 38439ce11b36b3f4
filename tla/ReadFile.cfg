CONSTANTS
  MaxU64 = 8
  HeaderSize = 1
  AllocFloor = 6
  Ratio = 2
  RatioFloor = 1
  Files <- MCFiles
SPECIFICATION Spec
CHECK_DEADLOCK FALSE
INVARIANTS
  TypeOK
  ContentIsExact
  SoundFileIsRead
  OkMeansEveryExtentRead
  AllocationBounded
