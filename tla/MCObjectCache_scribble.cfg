SPECIFICATION Spec
CONSTANTS
  Dir = {d1}
  Key = {a, b}
  None = none
  Mode = {"create"}
  MaxSize = {1, 2}
  OpenMayFail = FALSE
  WriteMayFail = FALSE
  MayScribble = TRUE
  MaxWrites = 2
  MaxCrashes = 0
INVARIANTS ScribbleNotSaved
