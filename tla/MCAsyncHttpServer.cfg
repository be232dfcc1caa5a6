CONSTANTS
  Avatar = {r1, r2}
  MaxAttempts = 2
  MaxPointers = 3
  NoRequest = NoRequest
SPECIFICATION FairSpec
INVARIANTS
  ServerInv
  AnswersAreComplete
PROPERTIES
  EveryRequestAnswered
CHECK_DEADLOCK FALSE
