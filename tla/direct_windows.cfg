CONSTANTS
  w1 = w1
  w2 = w2
  PieceCount = 1
  Windows <- TwoWindows
  Cap = 1
  MaxRetries = 1
  MaxFills = 2
  MaxGeneration = 1
  MaxFaults = 1
SPECIFICATION Spec
CHECK_DEADLOCK FALSE
SYMMETRY WindowSymmetry
INVARIANTS WindowsAreBounded RequestAccounting StatusIsBacked
PROPERTIES SettledNeverWrites RetryOnlyInLiveGeneration ImplementsLedger
