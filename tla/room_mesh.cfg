SPECIFICATION Spec
CHECK_DEADLOCK FALSE
CONSTANTS
  Receivers <- ThreeReceivers
  MaxPeers = 3
  MaxTrouble = 1
  Fragile <- OwnerAndMiddle
INVARIANTS RoomIsShared OffersAreFresh AlarmHasCause MeshIsComplete
