------------------------------ MODULE TrainLoops ------------------------------
(***************************************************************************)
(* The training loops sft_train, dpo_train, rm_train, distillation_train   *)
(* and, for the calls it makes to policy and engine, grpo_train: epochs    *)
(* and steps, validation, the checkpoint and its deadline, resumption,     *)
(* and where on GPU or host the parameters are when something computes.    *)
(* A refit is split into its calls; an exception ends the run like a kill, *)
(* since no loop catches one.                                              *)
(***************************************************************************)
EXTENDS Integers, FiniteSets, WorkerMemory

CONSTANTS
  Configs,       \* the configurations: records of the fields below
  MaxNumEpochs,  \* max_num_epochs
  NumBatches,    \* len(train_dataloader)
  Durations,     \* how long a step may take, where there is a deadline
  MaxCrashes     \* bound on the crashes

ASSUME LoopsAssumption ==
  /\ MaxNumEpochs \in Nat \ {0} /\ NumBatches \in Nat \ {0} /\ MaxCrashes \in Nat
  /\ Durations \subseteq Nat \ {0} /\ Durations # {}
  /\ \A c \in Configs :
       /\ c.kind \in {"sft", "dpo", "rm", "distillation", "grpo"}
       /\ c.engine \in {"none", "colocated", "separate", "self"}
       /\ c.engine = "self" => c.megatron
       /\ c.maxNumSteps \in Int /\ c.valPeriod \in Nat /\ c.savePeriod \in Nat \ {0}
       /\ c.deadline \in Nat    \* checkpoint_must_save_by, 0 for none
       /\ {c.valAtStart, c.megatron, c.cpuOffload, c.offloadForLogprob} \subseteq BOOLEAN

VARIABLES
  config,
  phase,         \* what the loop does next
  after,         \* what it does once the engine is ready
  currentStep, totalSteps, currentEpoch,
  pos,           \* batches the dataloader gave in this pass
  policy,        \* the policy's worker
  teacher,       \* where the teacher of a distillation is
  engine, stale, \* the inference engine; POLICY_GENERATION_STALE
  valMetric,     \* the weights just validated
  clock,         \* TimeoutChecker: time since the start, iterations, the last one's
  saved,         \* the latest checkpoint
  trained,       \* the batch each step was trained on (history)
  crashes

counters == <<currentStep, totalSteps, currentEpoch>>
memory == <<policy, teacher, engine, stale>>
vars == <<config, phase, after, counters, pos, memory, valMetric, clock, saved, trained, crashes>>

NoMetric == -1
Supervised == {"sft", "dpo", "rm"}
TotalBatches == MaxNumEpochs * NumBatches

(* The settings of the policy's workers. *)
Setting == [megatron |-> config.megatron, cpuOffload |-> config.cpuOffload,
            offloadForLogprob |-> config.offloadForLogprob,
            colocated |-> config.engine \in {"colocated", "self"}]

(* Policy, teacher and engine as setup leaves them. *)
Setup(loaded) ==
  /\ policy' = Built(Setting, loaded)
  /\ teacher' = "cpu"
  /\ engine' = Launched(Setting) /\ stale' = TRUE

Init ==
  /\ config \in Configs
  /\ phase = "begin" /\ after = "none"
  /\ currentStep = 0 /\ totalSteps = 0 /\ currentEpoch = 0 /\ pos = 0
  /\ policy = Built(Setting, 0) /\ teacher = "cpu"
  /\ engine = Launched(Setting) /\ stale = TRUE
  /\ valMetric = NoMetric
  /\ clock = [elapsed |-> 0, iterations |-> 0, last |-> 0]
  /\ saved = [step |-> 0, total |-> 0, epoch |-> 0, pos |-> 0, metric |-> NoMetric, weights |-> 0]
  /\ trained = [s \in 0 .. TotalBatches - 1 |-> 0]
  /\ crashes = 0

Goto(p) == phase' = p /\ UNCHANGED after

-----------------------------------------------------------------------------
(* Before the first step. *)

ValidatesAtStart ==
  config.valAtStart /\ IF config.kind = "grpo" THEN currentStep = 0 ELSE totalSteps = 0

(* validate of the supervised loops: the loss of the validation sets,      *)
(* computed by the policy itself, which is then made ready to train again. *)
(* SFT makes it ready before, too; DPO has the reference's logprobs first. *)
SftValidated(w) == PrepareForTraining(Setting, PrepareForTraining(Setting, w))
DpoValidated(w) == PrepareForTraining(Setting, LeaveReference(EnterReference(w)))
RmValidated(w) == PrepareForTraining(Setting, w)

ValidateLoss ==
  /\ policy' = CASE config.kind = "sft" -> SftValidated(policy)
                 [] config.kind = "dpo" -> DpoValidated(policy)
                 [] config.kind = "rm" -> RmValidated(policy)
  /\ valMetric' = policy.weights
  /\ UNCHANGED <<teacher, engine, stale>>

Begin ==
  /\ phase = "begin"
  /\ IF config.kind \in Supervised
       THEN IF ValidatesAtStart
              THEN ValidateLoss /\ Goto("ready")
              ELSE Goto("ready") /\ UNCHANGED <<memory, valMetric>>
       ELSE /\ UNCHANGED <<memory, valMetric>>
            /\ IF ValidatesAtStart THEN phase' = "prepare" /\ after' = "first_validation"
                                   ELSE Goto("epoch")
  /\ UNCHANGED <<config, counters, pos, clock, saved, trained, crashes>>

Ready ==
  /\ phase = "ready" /\ Goto("epoch")
  /\ policy' = PrepareForTraining(Setting, policy)
  /\ UNCHANGED <<config, counters, pos, teacher, engine, stale, valMetric, clock, saved, trained,
                 crashes>>

-----------------------------------------------------------------------------
(* Epochs and batches. *)

(* Only rm_train knows -1, which stands for no limit. *)
RmBelowLimit(steps) == config.maxNumSteps = -1 \/ steps < config.maxNumSteps
BelowLimit(steps) ==
  IF config.kind = "rm" THEN RmBelowLimit(steps) ELSE steps < config.maxNumSteps

Continues == currentEpoch < MaxNumEpochs /\ BelowLimit(totalSteps)

EnterEpoch ==
  /\ phase = "epoch" /\ Goto(IF Continues THEN "batch" ELSE "done")
  /\ UNCHANGED <<config, counters, pos, memory, valMetric, clock, saved, trained, crashes>>

(* The next batch: to train on it, to compute its reference logprobs       *)
(* first, or to generate from it.                                          *)
NextBatch ==
  /\ phase = "batch" /\ pos < NumBatches
  /\ pos' = pos + 1 /\ valMetric' = NoMetric
  /\ CASE config.kind \in {"sft", "rm"} -> Goto("train")
       [] config.kind = "dpo" -> Goto("reference")
       [] OTHER -> phase' = "prepare" /\ after' = "rollout"
  /\ UNCHANGED <<config, counters, memory, clock, saved, trained, crashes>>

EpochEnds ==
  /\ phase = "batch" /\ pos = NumBatches
  /\ pos' = 0 /\ currentStep' = 0 /\ currentEpoch' = currentEpoch + 1
  /\ Goto("epoch")
  /\ UNCHANGED <<config, totalSteps, memory, valMetric, clock, saved, trained, crashes>>

(* get_reference_policy_logprobs.  Of a DPO run they are a batch's, which  *)
(* add_ref_logprobs_to_data draws only when the loop asks for it: between  *)
(* two training steps.  Of a GRPO run they follow the policy's own.        *)
EnterReferenceModel ==
  /\ phase \in {"reference", "logprobs"} /\ Goto("in_reference")
  /\ policy' = EnterReference(policy)
  /\ UNCHANGED <<config, counters, pos, teacher, engine, stale, valMetric, clock, saved, trained,
                 crashes>>

LeaveReferenceModel ==
  /\ phase = "in_reference"
  /\ Goto(IF config.kind = "dpo" THEN "train" ELSE "logprobs_done")
  /\ policy' = LeaveReference(policy)
  /\ UNCHANGED <<config, counters, pos, teacher, engine, stale, valMetric, clock, saved, trained,
                 crashes>>

-----------------------------------------------------------------------------
(* The engine is made ready, in the calls of refit_policy_generation. *)

NeedRefit == config.engine # "self"

PrepareEngine ==
  /\ phase = "prepare"
  /\ IF NeedRefit /\ stale THEN Goto("offload_optimizer")
     ELSE IF config.kind = "grpo" /\ Setting.colocated /\ after # "first_validation" THEN Goto("offload")
     ELSE Goto("wake")
  /\ UNCHANGED <<config, counters, pos, memory, valMetric, clock, saved, trained, crashes>>

OffloadOptimizer ==
  /\ phase = "offload_optimizer" /\ Goto("stream")
  /\ IF Setting.colocated
       THEN /\ policy' = OffloadBeforeRefit(policy)
            /\ engine' = WakeUp(Setting, engine, {"weights"})
       ELSE UNCHANGED <<policy, engine>>
  /\ UNCHANGED <<config, counters, pos, teacher, stale, valMetric, clock, saved, trained, crashes>>

StreamWeights ==
  /\ phase = "stream"
  /\ policy' = IF Setting.colocated THEN Streamed(Setting, policy) ELSE Broadcasted(Setting, policy)
  /\ engine' = Loaded(engine, policy.weights) /\ stale' = FALSE
  /\ Goto(IF Setting.colocated THEN "offload" ELSE "wake")
  /\ UNCHANGED <<config, counters, pos, teacher, valMetric, clock, saved, trained, crashes>>

Offload ==
  /\ phase = "offload" /\ Goto("wake")
  /\ policy' = OffloadAfterRefit(policy)
  /\ UNCHANGED <<config, counters, pos, teacher, engine, stale, valMetric, clock, saved, trained,
                 crashes>>

(* prepare_for_generation.  A policy that generates for itself has nothing *)
(* to wake; its generate moves the parameters to the GPU.                  *)
Wake ==
  /\ phase = "wake" /\ phase' = after /\ after' = "none"
  /\ IF config.engine = "self"
       THEN /\ policy' = [policy EXCEPT !.model = "gpu"]
            /\ engine' = Loaded(engine, policy.weights)
       ELSE /\ engine' = WakeUp(Setting, engine, {"weights", "kv_cache"}) /\ UNCHANGED policy
  /\ UNCHANGED <<config, counters, pos, teacher, stale, valMetric, clock, saved, trained, crashes>>

(* The engine answers and is finished with: prompts of a step, or of a     *)
(* validation.                                                             *)
GenerateAndFinish == engine' = Finished(Setting, Generated(engine))

Rollout ==
  /\ phase = "rollout" /\ GenerateAndFinish
  /\ IF config.kind = "distillation"
       THEN teacher' = "gpu" /\ UNCHANGED policy /\ Goto("topk")
       ELSE UNCHANGED teacher /\ policy' = PrepareForLogprobs(Setting, policy) /\ Goto("logprobs")
  /\ UNCHANGED <<config, counters, pos, stale, valMetric, clock, saved, trained, crashes>>

ValidateAnswers ==
  /\ phase \in {"first_validation", "validation"} /\ GenerateAndFinish
  /\ valMetric' = engine.weights
  /\ Goto(IF phase = "validation" THEN "save" ELSE "epoch")
  /\ UNCHANGED <<config, counters, pos, policy, teacher, stale, clock, saved, trained, crashes>>

-----------------------------------------------------------------------------
(* The training step. *)

(* The teacher's top-k logits are there; the student takes its place. *)
TeacherDone ==
  /\ phase = "topk" /\ Goto("train")
  /\ teacher' = "cpu"
  /\ policy' = PrepareForTraining(Setting, policy)
  /\ stale' = TRUE
  /\ UNCHANGED <<config, counters, pos, engine, valMetric, clock, saved, trained, crashes>>

(* So are the logprobs of policy and reference. *)
LogprobsDone ==
  /\ phase = "logprobs_done" /\ Goto("train")
  /\ policy' = PrepareForTraining(Setting, policy)
  /\ stale' = TRUE
  /\ UNCHANGED <<config, counters, pos, teacher, engine, valMetric, clock, saved, trained, crashes>>

ThisBatch == currentEpoch * NumBatches + pos

Train ==
  /\ phase = "train" /\ Goto("validate")
  /\ policy' = [policy EXCEPT !.weights = @ + 1]
  /\ trained' = [trained EXCEPT ![totalSteps] = ThisBatch]
  /\ UNCHANGED <<config, counters, pos, teacher, engine, stale, valMetric, clock, saved, crashes>>

Validate ==
  /\ phase = "validate"
  /\ IF config.valPeriod > 0 /\ (totalSteps + 1) % config.valPeriod = 0
       THEN IF config.kind \in Supervised
              THEN ValidateLoss /\ Goto("save")
              ELSE phase' = "prepare" /\ after' = "validation" /\ UNCHANGED <<memory, valMetric>>
       ELSE Goto("save") /\ UNCHANGED <<memory, valMetric>>
  /\ UNCHANGED <<config, counters, pos, clock, saved, trained, crashes>>

IsLastStep ==
  ~BelowLimit(totalSteps + 1) \/ (currentEpoch + 1 = MaxNumEpochs /\ currentStep + 1 = NumBatches)

(* TimeoutChecker: mark_iteration, then check_save, which stops a job      *)
(* whose next iteration would end past the deadline if it took as long as  *)
(* the average of those so far.                                            *)
Marked(d) == [elapsed |-> clock.elapsed + d, iterations |-> clock.iterations + 1, last |-> d]

(* Mutant: only time already spent counts. *)
ExpiredLate(c) == config.deadline > 0 /\ c.elapsed >= config.deadline

Expired(c) ==
  config.deadline > 0 /\ c.elapsed * c.iterations + c.elapsed >= config.deadline * c.iterations

(* What the loops write.  Supervised ones count the step modulo the length *)
(* of an epoch; the metric of an earlier validation is deleted.            *)
SavedStep ==
  IF config.kind \in Supervised THEN (currentStep + 1) % NumBatches ELSE currentStep + 1

(* Mutant: the dataloader's state is not written. *)
SaveNoLoader ==
  saved' = [step |-> SavedStep, total |-> totalSteps + 1, epoch |-> currentEpoch, pos |-> 0,
            metric |-> valMetric, weights |-> policy.weights]

(* Mutant: the metric of an earlier step is written again. *)
SaveOldMetric ==
  saved' = [step |-> SavedStep, total |-> totalSteps + 1, epoch |-> currentEpoch, pos |-> pos,
            metric |-> IF valMetric = NoMetric THEN saved.metric ELSE valMetric,
            weights |-> policy.weights]

Save ==
  saved' = [step |-> SavedStep, total |-> totalSteps + 1, epoch |-> currentEpoch, pos |-> pos,
            metric |-> valMetric, weights |-> policy.weights]

FinishStep(d) ==
  LET c == IF config.deadline > 0 THEN Marked(d) ELSE clock
      saves == IsLastStep \/ (totalSteps + 1) % config.savePeriod = 0 \/ Expired(c)
  IN
    /\ phase = "save"
    /\ clock' = c
    /\ IF saves THEN Save ELSE UNCHANGED saved
    /\ policy' = IF saves /\ config.kind \notin Supervised
                   THEN PrepareForTraining(Setting, policy) ELSE policy
    /\ currentStep' = currentStep + 1 /\ totalSteps' = totalSteps + 1
    /\ Goto(IF Expired(c) \/ ~BelowLimit(totalSteps + 1) THEN "done" ELSE "batch")
    /\ UNCHANGED <<config, currentEpoch, pos, teacher, engine, stale, valMetric, trained, crashes>>

-----------------------------------------------------------------------------
(* A run is killed, raises, or has stopped on its deadline, and another is *)
(* set up from the latest checkpoint.                                      *)
Restart ==
  /\ crashes < MaxCrashes /\ crashes' = crashes + 1
  /\ phase' = "begin" /\ after' = "none"
  /\ currentStep' = saved.step /\ totalSteps' = saved.total /\ currentEpoch' = saved.epoch
  /\ pos' = saved.pos
  /\ Setup(saved.weights)
  /\ valMetric' = NoMetric
  /\ clock' = [elapsed |-> 0, iterations |-> 0, last |-> 0]
  /\ trained' = [s \in 0 .. TotalBatches - 1 |-> IF s < saved.total THEN trained[s] ELSE 0]
  /\ UNCHANGED <<config, saved>>

Done == phase = "done" /\ UNCHANGED vars

LoopStep ==
  \/ Begin \/ Ready \/ EnterEpoch \/ NextBatch \/ EpochEnds \/ EnterReferenceModel \/ LeaveReferenceModel
  \/ PrepareEngine \/ OffloadOptimizer \/ StreamWeights \/ Offload \/ Wake
  \/ Rollout \/ ValidateAnswers \/ TeacherDone \/ LogprobsDone
  \/ Train \/ Validate \/ \E d \in Durations : FinishStep(d)

Next == LoopStep \/ Restart \/ Done

Spec == Init /\ [][Next]_vars

-----------------------------------------------------------------------------
(* Properties. *)

LimitOf(c) == IF c.kind = "rm" /\ c.maxNumSteps = -1 THEN TotalBatches
              ELSE IF c.maxNumSteps < 0 THEN 0
              ELSE IF c.maxNumSteps < TotalBatches THEN c.maxNumSteps ELSE TotalBatches

(* Whatever the restarts, step s is trained on batch s of the epochs laid  *)
(* end to end, no batch is skipped or repeated, the weights are those of   *)
(* the steps taken, and only the deadline ends a run before the limits do  *)
(* (the counters, the epoch and the dataloader's state of a checkpoint     *)
(* agree with each other: sft.py:518, dpo.py, rm.py, distillation.py).     *)
EachBatchOnce ==
  /\ \A s \in DOMAIN trained : trained[s] \in {0, s + 1} /\ (s < totalSteps => trained[s] # 0)
  /\ (IF phase = "in_reference" THEN policy.kept ELSE policy.weights)
       = totalSteps + (IF phase \in {"validate", "save"}
                                       \/ after = "validation" \/ phase = "validation"
                                     THEN 1 ELSE 0)
  /\ phase = "done" /\ ~Expired(clock) => totalSteps = LimitOf(config)

(* A checkpoint holds the weights of its step and a metric only of those   *)
(* weights; less than a save period of steps is ever lost, none when the   *)
(* run stops by itself; and the reference stays the model the training     *)
(* started from, also after a restart (policy workers' __init__).          *)
CheckpointOwn ==
  /\ saved.weights = saved.total /\ saved.metric \in {NoMetric, saved.weights}
  /\ totalSteps - saved.total < config.savePeriod
  /\ phase = "done" => saved.total = totalSteps
  /\ policy.reference = 0

(* Whoever computes finds its parameters where it needs them: an engine    *)
(* generates awake, with the policy's present weights and no prefix cached *)
(* by older ones; the policy infers and trains from the device of its      *)
(* setting, and streams from the GPU; and on shared GPUs the engine sleeps *)
(* and the teacher is gone while the policy computes, and the policy of a  *)
(* GRPO run is off the GPU while the engine generates.                     *)
ReadyToCompute ==
  /\ phase \in {"rollout", "validation", "first_validation"} =>
       /\ engine.weights = policy.weights
       /\ engine.prefix \in {NoWeights, engine.weights}
       /\ IF config.engine = "self" THEN policy.model = "gpu"
          ELSE engine.held = {"weights", "kv_cache"}
       /\ config.engine = "colocated" /\ config.kind = "grpo" => ~OnGpu(policy)
  /\ Setting.colocated /\ phase \in {"topk", "logprobs", "in_reference", "train"} =>
       engine.held = {}
  /\ phase \in {"logprobs", "in_reference"} \/ (config.kind \in Supervised /\ phase = "validate")
       => MayInfer(Setting, policy)
  /\ phase = "in_reference" => policy.weights = 0
  /\ phase = "stream" => Streamed(Setting, policy).model = "gpu"
  /\ phase = "train" => MayTrain(Setting, policy) /\ teacher = "cpu"

(* With a deadline, a step that takes no longer than the average of those  *)
(* before it never ends past the deadline: the run has turned to its last  *)
(* save and stopped (TimeoutChecker.check_save, timer.py:300).  The save   *)
(* itself takes no time here.                                              *)
DeadlineKept ==
  LET before == clock.elapsed - clock.last
  IN config.deadline > 0 /\ clock.iterations > 1 /\ clock.last * (clock.iterations - 1) <= before
       => clock.elapsed < config.deadline

=============================================================================
