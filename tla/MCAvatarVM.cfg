CONSTANTS
  Avatar = {a1, a2, a3}
  MaxPolls = 2
  NoAvatar = NoAvatar
SPECIFICATION VMFairSpec
INVARIANTS
  VMInv
PROPERTIES
  AwaitEnds
  FreeEnds
CHECK_DEADLOCK FALSE
