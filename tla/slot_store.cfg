SPECIFICATION Spec
CONSTANTS
  Names <- MCNames
  Frames <- MCFrames
  StoreCapacity = 3
  RejectExpiredOnPut = TRUE
  NoRecord = NoRecord
  MaxTime = 3
INVARIANT IdsInOneSlot
PROPERTIES ImplementsStoreSpec
