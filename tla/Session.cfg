\* Four messages in batches of two; the socket holds six units, a read three.
CONSTANTS
  Flow <- SmallFlow
  MaxMessages = 4
  Batch = 2
  BlasterSlots = 2
  SocketUnits = 6
  ReadUnits = 3
  ResponseRoom = 2
  PendingSize = 2
  SdkBatch = 2
  MaxPrice = 2
  NumLevels = 2
  NumSlots = 2
  MaxFills = 2
SPECIFICATION Spec
CHECK_DEADLOCK FALSE
INVARIANTS  FillsAccounted TimedOnce SdkKeepsFraming
