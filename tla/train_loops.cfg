SPECIFICATION Spec
CONSTANTS
  Configs <- AllConfigs
  MaxNumEpochs = 2
  NumBatches = 3
  Durations = {1, 2, 3}
  MaxCrashes = 2
INVARIANTS
  EachBatchOnce
  CheckpointOwn
  ReadyToCompute
  DeadlineKept
