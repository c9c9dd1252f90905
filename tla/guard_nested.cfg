SPECIFICATION DemoSpec
CONSTANTS
  Names = {"a", "b"}
  NoName = ""
  GlobalName = "b"
  Text <- MCText
  Hash <- MCHash
  Capacity = 4
  StreakSlots = 2
  StreakMod = 2
  BlockSlots = 2
  HaveMicrores = TRUE
  FailureThreshold = 2
  RecoveryTimeout = 1
  DefaultBlock = "a"
  Configs <- ConfigsNested
  ClockMod = 1
  MaxDepth = 2
  MaxElapsed = 0
  ParserName = "a"
  PanicName = "a"
  FaultName = "b"
  RtosName = "a"
  MpuName = "b"
  TaskNames = {""}
INVARIANTS LogIsBracketed BreakerCountsFailedRuns
VIEW NestedView
