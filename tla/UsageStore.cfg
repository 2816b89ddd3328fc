SPECIFICATION Spec
CONSTANTS
  Capacity = 3
  Batch = 2
  MaxRows = 5
  MaxRestarts = 1
CHECK_DEADLOCK FALSE
INVARIANTS TypeOK RowsAccountedFor FlushCovers CleanExitDrains
PROPERTIES ImplementsLedger ShutdownBounded RowsSettle
