\* Four parameters, of every size up to one above what a buffer holds.
SPECIFICATION TransferSpec
CONSTANTS
  NumParams = 4
  Capacity = 2
  Target = 2
  NumBuffers = 2
  MaxRefits = 2
  MaxFailures = 1
INVARIANTS NoTornLoad
PROPERTIES ImplementsRefit RefitEnds
CHECK_DEADLOCK FALSE
