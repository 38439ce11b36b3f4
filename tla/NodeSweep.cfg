CONSTANTS
  MaxU64 = 5
  HeaderSize = 1
  SweepBudget = 6
  Inputs <- MCInputs
SPECIFICATION Spec
CHECK_DEADLOCK FALSE
INVARIANTS
  TypeOK
  ReportsAreReal
  ReportedOnce
  SweepIsComplete
  CutMeansManyReferences
PROPERTIES
  ImplementsTreeAudit
  SweepReturns
