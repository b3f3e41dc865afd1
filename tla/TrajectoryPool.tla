--------------------------- MODULE TrajectoryPool ---------------------------
(***************************************************************************)
(* What the replay buffer of asynchronous GRPO promises to the trajectory  *)
(* collector that fills it and to the training loop that drains it, with   *)
(* its representation abstracted away: a bounded collection of per-prompt  *)
(* groups, each stamped with the weight version that generated it and the  *)
(* weight version of the trainer it is meant for.  The three parallel      *)
(* lists of the code, and the order in which a sample takes equal groups,  *)
(* are in module ReplayBuffer, which implements this one.                  *)
(***************************************************************************)
EXTENDS Integers, FiniteSets

CONSTANTS
  Trajectories,   \* identities of the per-prompt groups ever generated
  MaxSize         \* ReplayBuffer.max_size

ASSUME MaxSizeAssumption == MaxSize \in Nat \ {0}

VARIABLES
  pool,           \* the stored groups
  lastTarget      \* last_target_weight_already_generated

poolVars == <<pool, lastTarget>>

Entry == [id : Trajectories, version : Int, target : Int]

PoolTypeOK ==
  /\ pool \subseteq Entry
  /\ lastTarget \in Int

PoolInit ==
  /\ pool = {}
  /\ lastTarget = -1

Larger(a, b) == IF a >= b THEN a ELSE b

(* The oldest generating version a sample at version cur accepts. *)
MinValidVersion(cur, age) == Larger(0, cur - age)

Stale(cur, age) == {e \in pool : e.version < MinValidVersion(cur, age)}

(* The groups a sample at version cur may return: fresh enough, not from   *)
(* the future, and meant for this very training step.                      *)
Intended(cur, age) ==
  {e \in pool : /\ MinValidVersion(cur, age) <= e.version
                /\ e.version <= cur
                /\ e.target = cur}

(* push_with_wait_signal answering "success". *)
PoolPush(e) ==
  /\ Cardinality(pool) < MaxSize
  /\ pool' = pool \cup {e}
  /\ lastTarget' = Larger(lastTarget, e.target)

(* push_with_wait_signal answering "full". *)
PoolFull ==
  /\ Cardinality(pool) >= MaxSize
  /\ UNCHANGED poolVars

(* sample returning n groups: they leave the pool. *)
PoolTake(S, n, cur, age) ==
  /\ Stale(cur, age) = {}
  /\ S \subseteq Intended(cur, age)
  /\ Cardinality(S) = n
  /\ pool' = pool \ S
  /\ UNCHANGED lastTarget

(* sample returning None: the trainer has to wait. *)
PoolWait(n, cur, age) ==
  /\ Stale(cur, age) = {}
  /\ Cardinality(Intended(cur, age)) < n
  /\ UNCHANGED poolVars

(* sample raising ValueError because of a group outside the age window. *)
PoolReject(cur, age) ==
  /\ Stale(cur, age) # {}
  /\ UNCHANGED poolVars

PoolClear ==
  /\ pool' = {}
  /\ UNCHANGED lastTarget

(* Every call the collector and the training loop may make, with versions  *)
(* from V; the training loop always asks for n groups within the same age. *)
PoolNext(V, n, age) ==
  \/ \E e \in [id : Trajectories, version : V, target : V] : PoolPush(e)
  \/ PoolFull
  \/ \E cur \in V :
       \/ \E S \in SUBSET Intended(cur, age) : PoolTake(S, n, cur, age)
       \/ PoolWait(n, cur, age)
       \/ PoolReject(cur, age)
  \/ PoolClear

=============================================================================
