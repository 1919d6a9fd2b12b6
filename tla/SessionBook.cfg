\* Five messages in one batch; nothing is dropped, cut or full.
CONSTANTS
  Flow <- LadderFlow
  MaxMessages = 5
  Batch = 5
  BlasterSlots = 3
  SocketUnits = 12
  ReadUnits = 2
  ResponseRoom = 1
  PendingSize = 2
  SdkBatch = 1
  MaxPrice = 3
  NumLevels = 5
  NumSlots = 5
  MaxFills = 5
SPECIFICATION Spec
CHECK_DEADLOCK FALSE
INVARIANTS ReferenceIsRight
