SPECIFICATION Spec
CONSTANTS
  Names = {"a", "b"}
  NoName = ""
  GlobalName = "b"
  Text <- MCText
  Hash <- MCHash
  Capacity = 1
  StreakSlots = 2
  StreakMod = 6
  BlockSlots = 2
  HaveMicrores = TRUE
  FailureThreshold = 3
  RecoveryTimeout = 1
  DefaultBlock = "a"
  Configs <- ConfigsFlat
  ClockMod = 1
  MaxDepth = 1
  MaxElapsed = 0
VIEW FlatView
INVARIANTS StreakNeverOvercounts HealthFollowsStreak FailuresAreIncidents BreakerCountsFailedRuns
PROPERTIES QuarantineJustified
