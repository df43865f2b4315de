SPECIFICATION Spec
CONSTANTS
  Item = {a, b}
  Place = {p1, p2}
  W = 8
  Full = 2
  Modification <- TwoModifications
  CleanupInterval = 2
  FrameNew = 1
  MaxFrames = 4
  None = none
SYMMETRY Symmetric
INVARIANTS TypeOK FreeListExact Addressable ResolvesOwn OwnCorrection
PROPERTIES CleanupExact
