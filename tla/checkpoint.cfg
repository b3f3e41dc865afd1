SPECIFICATION Spec
CONSTANTS
  MaxStep = 3
  KeepTopK = 1
  Scores = {1, 2}
  MaxAttempts = 3
INVARIANTS RestartFindsWhole BestKept
CHECK_DEADLOCK FALSE
