SPECIFICATION Spec
CONSTANTS
  StepBound = 7
  MaxNumEpochs = 2
  NumBatches = 3
  TrainPrompts = 2
  PoolPrompts = 3
  GenBound = 3
  ValPeriod = 2
  SavePeriod = 4
  MaxCrashes = 1
INVARIANTS OnPolicy EngineInStep EachPromptOnce LossBounded
PROPERTIES Ends
