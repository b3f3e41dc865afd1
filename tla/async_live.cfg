SPECIFICATION QuickSpec
CONSTANTS
  NumPrompts = 1
  MaxAge = 2
  NumBatches = 10
  InFlightUpdates = TRUE
  MaxFailures = 0
  MaxSteps = 3
  ValPeriod = 2
  ValAtStart = TRUE
  SavePeriod = 2
  MayTimeout = TRUE
  MaxCrashes = 1
  MaxSize <- BufferSize
  Trajectories <- Groups
INVARIANTS SuppliedInTime PauseProtocol
PROPERTIES Terminates
