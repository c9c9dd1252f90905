SPECIFICATION Spec
CONSTANTS
  Names = {"a", "b", "global"}
  NoName = ""
  GlobalName = "global"
  Text <- MCText
  Hash <- MCHash
  Capacity = 1
  StreakSlots = 2
  StreakMod = 4
  BlockSlots = 2
  HaveMicrores = FALSE
  FailureThreshold = 2
  RecoveryTimeout = 1
  DefaultBlock = "a"
  Configs <- ConfigsFlat
  ClockMod = 1
  MaxDepth = 1
  MaxElapsed = 0
PROPERTIES QuarantineEnforced
