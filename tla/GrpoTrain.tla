------------------------------- MODULE GrpoTrain -------------------------------
(***************************************************************************)
(* grpo_train, the synchronous loop: every batch of prompts is rolled out  *)
(* with the policy's weights and trained on; under dynamic sampling only   *)
(* the prompts whose rewards differ are kept, in a cache, until they make  *)
(* a full training batch.  The loop validates and saves periodically, and  *)
(* may be killed at any moment and resumed from the last checkpoint, which *)
(* is one step here (CheckpointManager shows why).  An exception is a      *)
(* crash: the loop catches none.                                           *)
(***************************************************************************)
EXTENDS Integers, Sequences

CONSTANTS
  StepBound,      \* bound on max_num_steps
  MaxNumEpochs,   \* max_num_epochs
  NumBatches,     \* len(dataloader)
  TrainPrompts,   \* num_prompts_per_step
  PoolPrompts,    \* int(num_prompts_per_step * batch_multiplier)
  GenBound,       \* bound on dynamic_sampling_max_gen_batches
  ValPeriod,      \* val_period, 0 for none
  SavePeriod,     \* save_period
  MaxCrashes      \* bound on the crashes

ASSUME GrpoAssumption ==
  /\ {StepBound, MaxNumEpochs, ValPeriod, MaxCrashes} \subseteq Nat
  /\ {NumBatches, TrainPrompts, GenBound, SavePeriod} \subseteq Nat \ {0}
  /\ PoolPrompts \in Nat /\ PoolPrompts >= TrainPrompts

VARIABLES
  config,         \* max_num_steps, dynamic_sampling_max_gen_batches,
                  \* use_dynamic_sampling, val_at_start, requires_kv_scale_sync
  phase,          \* what the loop does next
  currentStep, totalSteps, currentEpoch,
  pos,            \* batches the dataloader gave in this pass
  cache, genBatches,  \* batch_cache, dynamic_sampling_num_gen_batches
  batch,          \* the prompts to train on
  policy, engine, stale,  \* weights: of the policy, in the engine; the flag
  kvScales, engineScales, \* weights that the FP8 scales were calibrated with
  valMetrics,     \* the weights just validated
  stateMetric,    \* those whose metric grpo_save_state holds
  saved,          \* the latest checkpoint
  trained,        \* what each step was trained on (history)
  crashes

counters == <<currentStep, totalSteps, currentEpoch>>
sampling == <<cache, genBatches, batch>>
engineVars == <<engine, stale, kvScales, engineScales>>
metrics == <<valMetrics, stateMetric>>
vars == <<config, phase, counters, pos, sampling, policy, engineVars, metrics,
          saved, trained, crashes>>

None == -1          \* no scales, no metric; the dummy weights of a new engine
Weights == 0 .. StepBound     \* the number of steps that made them
Sample == [epoch : 0 .. MaxNumEpochs, batch : 1 .. NumBatches, weights : Weights]
Configs ==
  [maxNumSteps : 0 .. StepBound, maxGenBatches : 1 .. GenBound, dynamic : BOOLEAN,
   valAtStart : BOOLEAN, syncScales : BOOLEAN]
Phases == {"begin", "epoch", "batch", "prepare", "generate", "train", "validate",
           "save", "done", "raised"}
Checkpoint ==
  [step : 0 .. StepBound, total : Weights, epoch : 0 .. MaxNumEpochs,
   pos : 0 .. NumBatches, metric : Weights \cup {None}]

TypeOK ==
  /\ config \in Configs
  /\ phase \in Phases
  /\ currentStep \in 0 .. StepBound /\ totalSteps \in Weights
  /\ currentEpoch \in 0 .. MaxNumEpochs /\ pos \in 0 .. NumBatches
  /\ cache \in Seq(Sample) /\ Len(cache) < TrainPrompts + PoolPrompts
  /\ genBatches \in 0 .. config.maxGenBatches + 1
  /\ batch \in Seq(Sample) /\ Len(batch) <= TrainPrompts
  /\ policy \in Weights /\ engine \in Weights \cup {None} /\ stale \in BOOLEAN
  /\ kvScales \in Weights \cup {None} /\ engineScales \in Weights \cup {None}
  /\ valMetrics \in Weights \cup {None} /\ stateMetric \in Weights \cup {None}
  /\ saved \in Checkpoint
  /\ trained \in [0 .. StepBound - 1 -> Seq(Sample)]
  /\ crashes \in 0 .. MaxCrashes

(* grpo_train is entered with the policy of the checkpoint, an engine with *)
(* dummy weights, and the flag set.                                        *)
Init ==
  /\ config \in Configs
  /\ saved = [step |-> 0, total |-> 0, epoch |-> 0, pos |-> 0, metric |-> None]
  /\ phase = "begin"
  /\ currentStep = 0 /\ totalSteps = 0 /\ currentEpoch = 0 /\ pos = 0
  /\ cache = <<>> /\ genBatches = 0 /\ batch = <<>>
  /\ policy = 0 /\ engine = None /\ stale = TRUE
  /\ kvScales = None /\ engineScales = None
  /\ valMetrics = None /\ stateMetric = None
  /\ trained = [s \in 0 .. StepBound - 1 |-> <<>>]
  /\ crashes = 0

-----------------------------------------------------------------------------
(* The engine. *)

(* refit_policy_generation, which leaves out scales it is not given, or    *)
(* prepare_for_generation when nothing was trained since.                  *)
PrepareEngine(scales) ==
  IF stale
    THEN /\ engine' = policy /\ stale' = FALSE
         /\ engineScales' = IF config.syncScales /\ scales # None THEN scales ELSE engineScales
    ELSE UNCHANGED <<engine, stale, engineScales>>

(* The validation at the start calibrates no scales. *)
InitialValidation ==
  /\ phase = "begin" /\ config.valAtStart /\ currentStep = 0
  /\ PrepareEngine(None)
  /\ phase' = "epoch"
  /\ UNCHANGED <<config, counters, pos, sampling, policy, kvScales, metrics, saved,
                 trained, crashes>>

NoInitialValidation ==
  /\ phase = "begin" /\ ~(config.valAtStart /\ currentStep = 0)
  /\ phase' = "epoch"
  /\ UNCHANGED <<config, counters, pos, sampling, policy, engineVars, metrics, saved,
                 trained, crashes>>

-----------------------------------------------------------------------------
(* Epochs and batches. *)

Continues == currentEpoch < MaxNumEpochs /\ totalSteps < config.maxNumSteps

EnterEpoch ==
  /\ phase = "epoch" /\ Continues
  /\ phase' = "batch"
  /\ cache' = <<>> /\ genBatches' = 0
  /\ UNCHANGED <<config, counters, pos, batch, policy, engineVars, metrics, saved,
                 trained, crashes>>

LeaveLoop ==
  /\ phase = "epoch" /\ ~Continues
  /\ phase' = "done"
  /\ UNCHANGED <<config, counters, pos, sampling, policy, engineVars, metrics, saved,
                 trained, crashes>>

NextBatch ==
  /\ phase = "batch" /\ pos < NumBatches
  /\ pos' = pos + 1
  /\ valMetrics' = None
  /\ phase' = "prepare"
  /\ UNCHANGED <<config, counters, sampling, policy, engineVars, stateMetric, saved,
                 trained, crashes>>

(* Mutant: the epoch is not counted. *)
EpochUncounted ==
  /\ phase = "batch" /\ pos = NumBatches
  /\ pos' = 0
  /\ currentStep' = 0 /\ UNCHANGED currentEpoch
  /\ phase' = "epoch"
  /\ UNCHANGED <<config, totalSteps, sampling, policy, engineVars, metrics, saved,
                 trained, crashes>>

(* The dataloader's next pass starts over. *)
EpochEnds ==
  /\ phase = "batch" /\ pos = NumBatches
  /\ pos' = 0
  /\ currentStep' = 0 /\ currentEpoch' = currentEpoch + 1
  /\ phase' = "epoch"
  /\ UNCHANGED <<config, totalSteps, sampling, policy, engineVars, metrics, saved,
                 trained, crashes>>

-----------------------------------------------------------------------------
(* Generation. *)

(* A refit in need of scales calibrates them, unless it has them already.  *)
PrepareForGeneration ==
  /\ phase = "prepare"
  /\ kvScales' = IF stale /\ config.syncScales /\ kvScales = None THEN policy ELSE kvScales
  /\ PrepareEngine(kvScales')
  /\ genBatches' = genBatches + 1
  /\ phase' = "generate"
  /\ UNCHANGED <<config, counters, pos, cache, batch, policy, metrics, saved, trained,
                 crashes>>

(* k prompts of the batch just read, as the engine answers them. *)
Samples(k) ==
  [i \in 1 .. k |-> [epoch |-> currentEpoch, batch |-> pos, weights |-> engine]]

(* Without dynamic sampling the batch is trained on as it is. *)
GenerateAll ==
  /\ phase = "generate" /\ ~config.dynamic
  /\ batch' = Samples(TrainPrompts)
  /\ phase' = "train"
  /\ UNCHANGED <<config, counters, pos, cache, genBatches, policy, engineVars, metrics,
                 saved, trained, crashes>>

MayGoOn == genBatches <= config.maxGenBatches

(* dynamic_sampling: k prompts have rewards that differ.  Too few go on,   *)
(* up to and including batch number maxGenBatches; the oldest are used,    *)
(* the surplus is dropped with the cache when the step ends.               *)
GenerateAndFilter(k) ==
  LET kept == cache \o Samples(k) IN
    /\ phase = "generate" /\ config.dynamic
    /\ cache' = kept
    /\ IF k > 0 /\ Len(kept) >= TrainPrompts
         THEN batch' = SubSeq(kept, 1, TrainPrompts) /\ phase' = "train"
         ELSE /\ UNCHANGED batch
              /\ phase' = IF MayGoOn THEN "batch" ELSE "raised"
    /\ UNCHANGED <<config, counters, pos, genBatches, policy, engineVars, metrics, saved,
                   trained, crashes>>

-----------------------------------------------------------------------------
(* Training, validation, checkpoint. *)

(* Mutant: the engine is not marked stale. *)
TrainUnnoticed ==
  /\ phase = "train"
  /\ policy' = totalSteps + 1
  /\ trained' = [trained EXCEPT ![totalSteps] = batch]
  /\ kvScales' = IF config.syncScales THEN policy' ELSE kvScales
  /\ phase' = "validate"
  /\ UNCHANGED <<config, counters, pos, sampling, engine, stale, engineScales, metrics,
                 saved, crashes>>

Train ==
  /\ phase = "train"
  /\ policy' = totalSteps + 1 /\ stale' = TRUE
  /\ trained' = [trained EXCEPT ![totalSteps] = batch]
  /\ kvScales' = IF config.syncScales THEN policy' ELSE kvScales
  /\ phase' = "validate"
  /\ UNCHANGED <<config, counters, pos, sampling, engine, engineScales, metrics, saved,
                 crashes>>

Validate ==
  /\ phase = "validate"
  /\ IF ValPeriod > 0 /\ (totalSteps + 1) % ValPeriod = 0
       THEN PrepareEngine(kvScales) /\ valMetrics' = engine'
       ELSE UNCHANGED <<engine, stale, engineScales, valMetrics>>
  /\ phase' = "save"
  /\ UNCHANGED <<config, counters, pos, sampling, policy, kvScales, stateMetric, saved,
                 trained, crashes>>

(* Mutant: the step count within the epoch is one behind. *)
IsLastStepBehind ==
  \/ totalSteps + 1 >= config.maxNumSteps
  \/ currentEpoch + 1 = MaxNumEpochs /\ currentStep = NumBatches

IsLastStep ==
  \/ totalSteps + 1 >= config.maxNumSteps
  \/ currentEpoch + 1 = MaxNumEpochs /\ currentStep + 1 = NumBatches

(* The metric of this step, or none: an earlier one is deleted. *)
MetricToSave == valMetrics

Save ==
  /\ stateMetric' = MetricToSave
  /\ saved' = [step |-> currentStep + 1, total |-> totalSteps + 1, epoch |-> currentEpoch,
               pos |-> pos, metric |-> MetricToSave]

(* Mutant: the cache outlives the step. *)
ResetCounterOnly == genBatches' = 0 /\ UNCHANGED cache

ResetSampling == cache' = <<>> /\ genBatches' = 0

(* The rest of the step; expired is the answer of check_save, after which  *)
(* the training stops.                                                     *)
FinishStep(expired) ==
  /\ phase = "save"
  /\ IF IsLastStep \/ (totalSteps + 1) % SavePeriod = 0 \/ expired
       THEN Save
       ELSE UNCHANGED <<saved, stateMetric>>
  /\ ResetSampling
  /\ currentStep' = currentStep + 1 /\ totalSteps' = totalSteps + 1
  /\ phase' = IF expired \/ totalSteps' >= config.maxNumSteps THEN "done" ELSE "batch"
  /\ UNCHANGED <<config, currentEpoch, pos, batch, policy, engineVars, valMetrics, trained,
                 crashes>>

-----------------------------------------------------------------------------
(* Crash and resumption. *)

(* Mutant: the state of the dataloader is not loaded. *)
ResumeFromFirst(c) ==
  /\ currentStep' = c.step /\ totalSteps' = c.total /\ currentEpoch' = c.epoch
  /\ pos' = 0
  /\ policy' = c.total /\ stateMetric' = c.metric

Resume(c) ==
  /\ currentStep' = c.step /\ totalSteps' = c.total /\ currentEpoch' = c.epoch
  /\ pos' = c.pos
  /\ policy' = c.total /\ stateMetric' = c.metric

(* The job is killed, has raised, or has stopped on its deadline, and is   *)
(* started again.                                                          *)
Restart ==
  /\ crashes < MaxCrashes /\ crashes' = crashes + 1
  /\ UNCHANGED <<config, saved>>
  /\ Resume(saved)
  /\ phase' = "begin"
  /\ cache' = <<>> /\ genBatches' = 0 /\ batch' = <<>>
  /\ engine' = None /\ stale' = TRUE
  /\ kvScales' = None /\ engineScales' = None /\ valMetrics' = None
  /\ trained' = [s \in 0 .. StepBound - 1 |-> IF s < saved.total THEN trained[s] ELSE <<>>]

Ended == phase \in {"done", "raised"} /\ UNCHANGED vars

LoopStep ==
  \/ InitialValidation \/ NoInitialValidation \/ EnterEpoch \/ LeaveLoop
  \/ NextBatch \/ EpochEnds \/ PrepareForGeneration \/ GenerateAll
  \/ \E k \in 0 .. PoolPrompts : GenerateAndFilter(k)
  \/ Train \/ Validate \/ \E expired \in BOOLEAN : FinishStep(expired)

Next == LoopStep \/ Restart \/ Ended

Spec == Init /\ [][Next]_vars /\ WF_vars(LoopStep)

-----------------------------------------------------------------------------
(* A training batch is full, and every prompt in it was answered by the    *)
(* weights it trains: none comes from a cache filled before the last       *)
(* training step, before the last epoch or before a restart.               *)
OnPolicy ==
  phase = "train" =>
    /\ Len(batch) = TrainPrompts
    /\ \A i \in 1 .. TrainPrompts : batch[i].weights = policy /\ batch[i].epoch = currentEpoch

(* Rollouts use the policy's weights and, for an FP8 cache, scales of the  *)
(* same weights; and a validation leaves the engine at those it measured.  *)
(* Scales are missing between a validation at the start, which refits      *)
(* without them, and the first training step.                              *)
EngineInStep ==
  /\ phase = "generate" =>
       /\ engine = policy
       /\ config.syncScales => \/ engineScales = policy
                               \/ config.valAtStart /\ totalSteps = 0
  /\ (phase = "save" /\ valMetrics # None) => valMetrics = policy

(* The steps train on the prompts in the order of the dataloader, none     *)
(* twice in an epoch, across crashes and epochs too; and without dynamic   *)
(* sampling no batch is left out, so that step s has the batch number s.   *)
Before(p, q) == p.epoch < q.epoch \/ (p.epoch = q.epoch /\ p.batch < q.batch)
EachPromptOnce ==
  \A s \in 0 .. StepBound - 1 : \A i \in 1 .. Len(trained[s]) :
    LET p == trained[s][i] IN
      /\ \A t \in s + 1 .. StepBound - 1 : \A j \in 1 .. Len(trained[t]) :
           Before(p, trained[t][j])
      /\ ~config.dynamic => p.epoch * NumBatches + p.batch = s + 1

(* The metric in a checkpoint was measured on the weights in it, though    *)
(* the state it is written from is kept from step to step and reloaded.    *)
MetricOfCheckpoint == saved.metric \in {None, saved.total}

(* Of the steps finished, at most SavePeriod - 1 are not in a checkpoint;  *)
(* when the training ends it has its last step, unless dynamic sampling    *)
(* made the last epoch have fewer steps than batches.                      *)
LossBounded ==
  /\ totalSteps - saved.total \in 0 .. SavePeriod - 1
  /\ (phase = "done" /\ ~config.dynamic) => saved.total = totalSteps

(* The training ends, whatever dynamic sampling filters out.               *)
Ends == <>[](phase \in {"done", "raised"})

=============================================================================
