SPECIFICATION FairSpec
CONSTANTS
  Worker = {w1, w2, w3}
  MaxTasks = 3
  StartMayFail = FALSE
INVARIANTS TypeOK CountersExact MappersQuiescent NoTaskTwice NobodyInDeadPool NoTaskDropped
PROPERTIES CallReturns EveryTaskMapped MapReduceOK
