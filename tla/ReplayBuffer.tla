---------------------------- MODULE ReplayBuffer ----------------------------
(***************************************************************************)
(* ReplayBuffer as it is built: three lists that run in parallel, the      *)
(* first with the groups, the second with the version that generated each, *)
(* the third with the version each is meant for.  Its methods run one at a *)
(* time (the lock), so each is one action.  The inputs are those of        *)
(* asynchronous GRPO: every group is pushed once, for a step at most       *)
(* MaxAge after its version.                                               *)
(***************************************************************************)
EXTENDS Integers, Sequences, FiniteSets, SequencesExt

CONSTANTS
  Trajectories,   \* identities of the groups
  MaxSize,        \* max_size
  NumGroups,      \* num_prompt_groups of every sample
  MaxAge,         \* max_age_steps of every sample
  MaxVersion      \* bound on the weight versions

ASSUME BufferAssumption ==
  /\ MaxSize \in Nat \ {0} /\ NumGroups \in Nat \ {0}
  /\ MaxAge \in Nat /\ MaxVersion \in Nat

Versions == 0 .. MaxVersion

VARIABLES
  trajectories, trajectory_versions, target_weight_versions,
  last_target,    \* last_target_weight_already_generated
  pushed          \* the groups pushed so far

lists == <<trajectories, trajectory_versions, target_weight_versions>>
vars == <<lists, last_target, pushed>>

Init ==
  /\ trajectories = <<>> /\ trajectory_versions = <<>> /\ target_weight_versions = <<>>
  /\ last_target = -1
  /\ pushed = {}

Bigger(a, b) == IF a >= b THEN a ELSE b

-----------------------------------------------------------------------------
(* push_with_wait_signal *)

Push(id, version, target) ==
  /\ Len(trajectories) < MaxSize
  /\ trajectories' = Append(trajectories, id)
  /\ trajectory_versions' = Append(trajectory_versions, version)
  /\ target_weight_versions' = Append(target_weight_versions, target)
  /\ last_target' = Bigger(last_target, target)
  /\ pushed' = pushed \cup {id}

PushFull == Len(trajectories) >= MaxSize /\ UNCHANGED vars

(* sample *)

Oldest(cur) == Bigger(0, cur - MaxAge)
TooOld(cur) ==
  {i \in DOMAIN trajectory_versions : trajectory_versions[i] < Oldest(cur)}
IntendedIndices(cur) ==
  {i \in DOMAIN trajectories : /\ trajectory_versions[i] \in Oldest(cur) .. cur
                               /\ target_weight_versions[i] = cur}

(* Mutant: the last NumGroups indices. *)
SelectedLast(cur) ==
  LET T == IntendedIndices(cur) IN {i \in T : Cardinality({j \in T : j > i}) < NumGroups}

(* The first NumGroups indices, in the order of the list. *)
Selected(cur) ==
  LET T == IntendedIndices(cur) IN {i \in T : Cardinality({j \in T : j < i}) < NumGroups}

(* Mutant: the smallest index first. *)
PopUpwards(list, indices) ==
  MapThenFoldSet(LAMBDA i, rest : IF i \in DOMAIN rest THEN RemoveAt(rest, i) ELSE rest,
                 list, LAMBDA i : i, Max, indices)

(* One pop per index, the largest index first and the smallest last. *)
PopAll(list, indices) ==
  MapThenFoldSet(LAMBDA i, rest : RemoveAt(rest, i), list, LAMBDA i : i, Min, indices)

Sample(cur) ==
  /\ TooOld(cur) = {}
  /\ Cardinality(IntendedIndices(cur)) >= NumGroups
  /\ LET selected == Selected(cur) IN
       /\ trajectories' = PopAll(trajectories, selected)
       /\ trajectory_versions' = PopAll(trajectory_versions, selected)
       /\ target_weight_versions' = PopAll(target_weight_versions, selected)
  /\ UNCHANGED <<last_target, pushed>>

SampleWaits(cur) ==
  /\ TooOld(cur) = {}
  /\ Cardinality(IntendedIndices(cur)) < NumGroups
  /\ UNCHANGED vars

SampleRaises(cur) == TooOld(cur) # {} /\ UNCHANGED vars

Clear ==
  /\ trajectories' = <<>> /\ trajectory_versions' = <<>> /\ target_weight_versions' = <<>>
  /\ UNCHANGED <<last_target, pushed>>

Next ==
  \/ \E id \in Trajectories \ pushed, version \in Versions, target \in Versions :
       /\ target \in version .. version + MaxAge
       /\ Push(id, version, target)
  \/ PushFull
  \/ \E cur \in Versions : Sample(cur) \/ SampleWaits(cur) \/ SampleRaises(cur)
  \/ Clear

Spec == Init /\ [][Next]_vars

-----------------------------------------------------------------------------
(* The lists stand for the pool of TrajectoryPool, entry by entry, and each *)
(* call does to the pool what it promises: a group never changes the        *)
(* version or the target it was pushed with, and a sample takes exactly the *)
(* groups it returns.                                                       *)
Pool == INSTANCE TrajectoryPool WITH
  pool <- {[id |-> trajectories[i], version |-> trajectory_versions[i],
            target |-> target_weight_versions[i]] : i \in DOMAIN trajectories},
  lastTarget <- last_target

ImplementsPool ==
  Pool!PoolInit /\ [][Pool!PoolNext(Versions, NumGroups, MaxAge)]_(Pool!poolVars)

(* A sample that takes a group leaves no group behind that was pushed       *)
(* before it for the same step: first in, first out.                        *)
FifoWithinTarget ==
  [][trajectories' # <<>> =>
       \A i, j \in DOMAIN trajectories :
         (/\ i < j /\ target_weight_versions[i] = target_weight_versions[j]
          /\ trajectories[j] \notin ToSet(trajectories'))
           => trajectories[i] \notin ToSet(trajectories')]_vars

=============================================================================
