SPECIFICATION Spec
CONSTANTS
  Config <- SoundConfig
  MaxFeatures = 11
  MaxSegments = 2
INVARIANTS TypeOK LoopsAtOnce InStep RequirementsKept EmptyAtTheEnd OwnScore
PROPERTIES FedInOrder
CHECK_DEADLOCK FALSE
