SPECIFICATION Spec
CONSTANTS
  Capacity = 3
  Strings = {"none", "long"}
  Null = "null"
  Kept <- MCKept
  UsedKinds = {"ENTERED", "ERROR"}
INVARIANTS TypeOK NoBorrowedText
PROPERTIES ImplementsHistory
