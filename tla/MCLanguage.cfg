SPECIFICATION Spec
CONSTANTS
  NaN = NaN
  FramesMax = 5
  DefersMax = 2
  GlobalsMax = 24
  Reserve = 2
  StepsMax = 150
  AvatarRules = TRUE
  ByteMax = 12
  LocalMax = 12
  Programs <- AllPrograms
INVARIANTS  AvatarsRunAsMeant
