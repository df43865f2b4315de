SPECIFICATION Spec
CONSTANTS
  Item = {a}
  Place = {p1}
  W = 5
  Full = 2
  Modification <- StateModifications
  CleanupInterval = 2
  FrameNew = 1
  MaxFrames = 4
  None = none
INVARIANTS AllRetrieved
