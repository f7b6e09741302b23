CONSTANTS
  w1 = w1
  w2 = w2
  PieceCount = 2
  Windows <- OneWindow
  Cap = 2
  MaxRetries = 0
  MaxFills = 1
  MaxGeneration = 1
  MaxFaults = 1
SPECIFICATION FairSpec
CHECK_DEADLOCK FALSE
PROPERTIES OutstandingSettles DisposeReturns
