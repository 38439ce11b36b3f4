CONSTANTS
  EntryHeader = 2
  StripeSize = 2
  DirPrefix = 2
  RefPrefix = 1
  ItemSize = 3
  PtrSize = 2
  LzoLen = 2
  SegSlack = 1
  Garbage <- MCGarbage
  Calls <- MCCalls
SPECIFICATION Spec
CHECK_DEADLOCK FALSE
INVARIANTS
  TypeOK
  RecordsApart
  WrittenIsReadBack
PROPERTIES
  FramingReturns
