SPECIFICATION FairSpec
CONSTANTS
  Worker = {w1, w2}
  MaxTasks = 1
  StartMayFail = TRUE
PROPERTIES WaitCompletes
