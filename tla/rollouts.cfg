\* Up to four samples in lock step, two in coroutines and two NeMo-Gym
\* conversations, up to two turns each.
SPECIFICATION Spec
CONSTANTS
  Batches <- MCBatches
  Replies <- MCReplies
  Generations <- MCGenerations
  MaxLen = 7
  MaxNew = 2
  MaxTurns = 2
  NumShards = 3
  MayFail = TRUE
INVARIANTS SamplesInStep OutcomesOwn GymFaithful
PROPERTIES
  Implements
