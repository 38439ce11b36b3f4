CONSTANTS
  MaxU64 = 9
  HeaderSize = 1
  WalkBudget = 3
  SweepBudget = 6
  Images <- MCImages
SPECIFICATION Spec
CHECK_DEADLOCK FALSE
INVARIANT CleanImageIsSilent
