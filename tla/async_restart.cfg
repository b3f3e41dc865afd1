SPECIFICATION QuickSpec
CONSTANTS
  NumPrompts = 2
  MaxAge = 1
  NumBatches = 6
  InFlightUpdates = FALSE
  MaxFailures = 1
  MaxSteps = 3
  ValPeriod = 0
  ValAtStart = FALSE
  SavePeriod = 1
  MayTimeout = FALSE
  MaxCrashes = 1
  MaxSize <- BufferSize
  Trajectories <- Groups
INVARIANTS RestartSound OneStraggler
