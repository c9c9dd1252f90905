SPECIFICATION Spec
CONSTANTS
  Names = {"a", "long", "global"}
  NoName = ""
  GlobalName = "global"
  Text <- MCTextA
  Hash <- MCHash
  Capacity = 1
  BlockSlots = 2
  HaveMicrores = TRUE
  FailureThreshold = 2
  RecoveryTimeout = 1
  Levels = {0, 3}
  SomeKinds = {"ENTERED", "ERROR", "PANIC"}
INVARIANTS TypeOK SlotsFillInOrder OneSlotPerBlock
PROPERTIES ImplementsRegistry
