SPECIFICATION Spec
CONSTANTS
  SemiSize = 9
  Header = 1
  Sizes = {1, 2, 3}
  LargeObjectSize = 3
  MaxObjects = 4
  MaxLocals = 1
  MaxCollections = 3
INVARIANTS TypeOK Tiled RootsIntact RoomToCopy CopiedOnce NothingLost
CHECK_DEADLOCK FALSE
