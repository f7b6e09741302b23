SPECIFICATION FairSpec
CHECK_DEADLOCK FALSE
CONSTANTS
  PieceCount = 2
  Adapters = {"pieces", "opfs", "offset"}
  MaxRetries = 4
  MaxTrouble = 2
  MaxRestarts = 2
INVARIANTS TableIsTrue RetriesArePaidFor
PROPERTIES RestoreKeepsGoodPieces Completes
