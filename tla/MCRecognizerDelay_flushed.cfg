SPECIFICATION Spec
CONSTANTS
  Config <- NnConfig
  MaxFeatures = 5
  MaxSegments = 1
INVARIANTS FlushedOwnScore
CHECK_DEADLOCK FALSE
