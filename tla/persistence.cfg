SPECIFICATION Spec
CONSTANTS
  HaveNvlog = TRUE
  HaveLoxdb = TRUE
  KvMax = 2
  MaxEvents = 4
INVARIANTS TypeOK CountMatchesRecords SessionsDoNotMix FlagIsTruthful
PROPERTIES ImplementsStore
