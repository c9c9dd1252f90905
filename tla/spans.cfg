SPECIFICATION Spec
CONSTANTS
  WordMod = 8
  MemorySize = 4
  Bytes = {0, 1}
  SpansInUse <- MCSpans
INVARIANTS BoundsExact
PROPERTIES WritesStayInside
