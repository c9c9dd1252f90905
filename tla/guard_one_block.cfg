SPECIFICATION FairSpec
CONSTANTS
  Names = {"a"}
  NoName = ""
  GlobalName = "a"
  Text <- MCText
  Hash <- MCHash
  Capacity = 1
  StreakSlots = 2
  StreakMod = 4
  BlockSlots = 2
  HaveMicrores = TRUE
  FailureThreshold = 2
  RecoveryTimeout = 1
  DefaultBlock = "a"
  Configs <- ConfigsOne
  ClockMod = 4
  MaxDepth = 1
  MaxElapsed = 4
INVARIANTS TypeOK TimeoutsExact
PROPERTIES QuarantineEnforced ReadmittedEventually
