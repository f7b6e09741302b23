SPECIFICATION FairSpec
CONSTANTS
  Peer = {owner, peer}
  Owner = owner
  MaxConns = 3
  MaxHandshakes = 1
  MaxSends = 2
CHECK_DEADLOCK FALSE
INVARIANTS MapIsSound OverIsReleased
PROPERTIES SignalEnds SendsSettle
