----------------------------- MODULE MCTrainLoops -----------------------------
(***************************************************************************)
(* Configurations for TrainLoops: each loop with its limits and periods,   *)
(* and each loop that generates with the places its weights may be in.     *)
(***************************************************************************)
EXTENDS TrainLoops

Base == [kind |-> "sft", engine |-> "none", maxNumSteps |-> 9, valPeriod |-> 2, savePeriod |-> 2,
         deadline |-> 0, valAtStart |-> TRUE, megatron |-> FALSE, cpuOffload |-> FALSE,
         offloadForLogprob |-> FALSE]

SupervisedConfigs ==
  {[Base EXCEPT !.kind = k, !.maxNumSteps = n, !.valPeriod = v, !.savePeriod = p, !.deadline = d] :
     k \in Supervised, n \in {-1, 5, 9}, v \in {0, 2}, p \in {2, 4}, d \in {0, 7}}

(* A policy generates for itself with Megatron only.                       *)
GeneratingConfigs ==
  {c \in {[Base EXCEPT !.kind = k, !.engine = e, !.maxNumSteps = n, !.savePeriod = p,
                       !.valAtStart = s, !.megatron = g, !.cpuOffload = o,
                       !.offloadForLogprob = l] :
            k \in {"distillation", "grpo"}, e \in {"colocated", "separate", "self"}, n \in {5, 9},
            p \in {2, 4}, s \in BOOLEAN, g \in BOOLEAN, o \in BOOLEAN, l \in BOOLEAN} :
     c.engine = "self" => c.megatron}

AllConfigs == SupervisedConfigs \cup GeneratingConfigs

=============================================================================
