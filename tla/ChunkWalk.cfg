CONSTANTS
  MaxU64 = 6
  HeaderSize = 1
  WalkBudget = 3
  Images <- MCImages
SPECIFICATION Spec
CHECK_DEADLOCK FALSE
INVARIANTS
  TypeOK
  StaysInTree
  MapIsExact
  ReadNodeAgrees
  BudgetSuffices
  ErrLosesNothing
PROPERTIES
  TranslationIsStable
  WalkReturns
