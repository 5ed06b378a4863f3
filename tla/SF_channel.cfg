SPECIFICATION SharingSpec
CONSTANTS
  Frames <- SharingFrame
  Oversized <- LongFrame
  MaxSeq = 2
  MaxFaults = 1
  AuthKey <- MCAuthKey
  Bodies <- MCBodies
  MaxBytes = 2
  Ids = {1}
  Stock = {"client"}
  MaxSaid = 2
CHECK_DEADLOCK FALSE
INVARIANT TypeOK
INVARIANT PinsAgree
INVARIANT NumbersServeOnce
PROPERTY ImplementsOrderedDelivery
PROPERTY SharingFramesInOrder
