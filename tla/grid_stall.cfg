SPECIFICATION Spec
CHECK_DEADLOCK FALSE
CONSTANTS
  owner = owner
  q1 = q1
  PieceCount = 2
  Peers <- TwoPeers
  Owner = owner
  PerPeer = 1
  Total = 2
  MaxRetries = 1
  EndgamePieces = 4
  EndgameProviders = 2
  Maps <- AllOrNothing
  MaxTrouble = 0
  MaxFaults = 0
INVARIANT WaitingHasWork
