SPECIFICATION Spec
CONSTANTS
  WordMod = 8
  Aligns = {0, 1, 2, 3, 4}
  Sizes = {0, 1, 5, 7}
INVARIANTS TypeOK AllocationsInside AllocationsDisjoint ArraysFit
