SPECIFICATION FairSpec
CHECK_DEADLOCK FALSE
CONSTANTS
  PieceCount = 2
  Adapters = {"offset"}
  MaxRetries = 2
  MaxTrouble = 1
  MaxRestarts = 1
PROPERTY RerunKeepsGoodPieces
