SPECIFICATION FairSpec
CONSTANTS
  Dir = {d1, d2}
  Key = {a, b, c}
  None = none
  Mode = {"create", "append"}
  MaxSize = {1, 2}
  OpenMayFail = TRUE
  WriteMayFail = TRUE
  MayScribble = TRUE
  MaxWrites = 2
  MaxCrashes = 1
INVARIANTS TypeOK MemoryBounded ReferenceValid
PROPERTIES StoreOK CallReturns
