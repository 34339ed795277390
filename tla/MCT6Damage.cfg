CONSTANTS
  Height = 5
  Pixels = {p1, p2}
  Unknown = Unknown
  MaxRanges = 2
SPECIFICATION Spec
SYMMETRY PixelSymmetry
INVARIANTS
  TypeOK
  DamageIsExact
  ReferenceIsShown
  DisplayedSlotIsWhole
PROPERTIES
  ImplementsScreen
