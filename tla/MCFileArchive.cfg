SPECIFICATION Spec
CONSTANTS
  Name = {1, 2}
  Usage <- AllUsages
  MaxOps = 5
INVARIANTS TypeOK Tiled FlagHonest
PROPERTIES StoreOK CrashKeepsOthers RecoverLosesNothing
