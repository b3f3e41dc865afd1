SPECIFICATION Spec
CONSTANTS
  NumPrompts = 2
  MaxAge = 1
  NumBatches = 3
  InFlightUpdates = FALSE
  MaxFailures = 1
  MaxSteps = 2
  ValPeriod = 0
  ValAtStart = FALSE
  SavePeriod = 2
  MayTimeout = FALSE
  MaxCrashes = 0
  MaxSize <- BufferSize
  Trajectories <- Groups
INVARIANTS AgeWindow ReservationHeld PermitsConserved LabelNotNewer CollectorInStep
