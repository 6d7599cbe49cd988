CONSTANTS
  Lengths <- SomeLengths
  Rooms <- SomeRooms
  MaxParts = 3
  MaxRounds = 4
SPECIFICATION Spec
INVARIANTS TypeOK FramesDelivered TxFramed
PROPERTIES LoopShortens
CHECK_DEADLOCK FALSE
