SPECIFICATION FairSpec
CONSTANTS
  NumPrompts = 1
  MaxAge = 1
  NumBatches = 5
  InFlightUpdates = TRUE
  MaxFailures = 0
  MaxSteps = 3
  ValPeriod = 0
  ValAtStart = FALSE
  SavePeriod = 9
  MayTimeout = FALSE
  MaxCrashes = 0
  MaxSize <- BufferSize
  Trajectories <- Groups
PROPERTIES StallEnds
