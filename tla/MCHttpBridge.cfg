CONSTANTS
  Item = {r1, r2}
  Capacity = 1
  NoItem = NoItem
  MaxPointers = 4
SPECIFICATION FairSpec
INVARIANTS
  FallbackExcludesHandler
  CompletedMeansOver
  RoomIsOffered
PROPERTIES
  BridgeReturns
CHECK_DEADLOCK FALSE
