\* Calls of the pure functions between a batch of conversations and its gradient.
CONSTANTS
  Exp <- MCExp
  Log <- MCLog
  Logit <- MCLogit
  Calls <- MCCalls
  V = 4
  Scale = 12
  Fp8Divisor = 3
  BlockFp8Divisor = 6
SPECIFICATION Spec
INVARIANTS CutExact PackedExact LossesAdd MessagesAligned RanksAgree ScoresMeant
\* Every call returns and ends.
CHECK_DEADLOCK FALSE
