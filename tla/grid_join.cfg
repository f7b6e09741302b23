SPECIFICATION Spec
CHECK_DEADLOCK FALSE
CONSTANTS
  owner = owner
  q1 = q1
  PieceCount = 2
  Peers <- TwoPeers
  Owner = owner
  PerPeer = 1
  Total = 2
  MaxRetries = 2
  EndgamePieces = 4
  EndgameProviders = 2
  Maps <- AllOrNothing
  MaxTrouble = 2
  MaxFaults = 1
INVARIANTS RequestsAreBounded ClaimsAreLive ProgressIsAnnounced
PROPERTIES VerifiedLostOnlyToRival
