SPECIFICATION FairSpec
CHECK_DEADLOCK FALSE
CONSTANTS
  MaxSockets = 7
  Delays = 2
  MaxDrops = 5
INVARIANTS PursuitIsSound QuietCloseIsFinal
PROPERTIES ComesBack
