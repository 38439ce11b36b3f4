CONSTANTS
  MaxU64 = 9
  HeaderSize = 1
  RootDir = 1
  SuperAt = 1
  WalkBudget = 3
  MaxU16 = 1
  MaxDepth = 3
  BufLens = {1, 2}
  Lossy <- MCLossy
  Names <- MCNames
  Sources <- MCSources
SPECIFICATION Spec
CHECK_DEADLOCK FALSE
INVARIANTS
  TypeOK
  OpenedViewIsTrue
  PathWalkAgrees
  LinksBothWays
  StreamsReadBack
PROPERTIES
  OpenReturns
