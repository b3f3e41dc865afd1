----------------------------- MODULE GrpoTrainProofs -----------------------------
(***************************************************************************)
(* The synchronous loop proved for any number of steps, epochs, batches,   *)
(* prompts and crashes: the engine is in step with the policy, a training  *)
(* batch is full and on-policy, prompts are trained once and in order, the *)
(* metric in a checkpoint is its own, and a crash costs less than a period *)
(* of saving.  Then the refit in each of its steps, for any number and     *)
(* sizes of parameters, any size of buffers and groups, any number of      *)
(* streams, refits and failures and any schedule: what is loaded is what   *)
(* was sent, and both transports implement what the loop relies on.        *)
(***************************************************************************)
EXTENDS GrpoTrain, WeightTransfer, SequenceTheorems, FiniteSetTheorems, WellFoundedInduction, TLAPS

(***************************************************************************)
(* What a step count modulo a period is: save_period acts on its           *)
(* multiples.                                                              *)
(***************************************************************************)
(* What a remainder is, for the multiples of save_period. *)
LEMMA DivMod ==
  ASSUME NEW t \in Nat, NEW P \in Nat \ {0}
  PROVE  t % P \in 0 .. P - 1 /\ \E q \in Int : t = q * P + (t % P)
<1>1. t % P \in 0 .. P - 1 /\ t \div P \in Int
  BY SMT
<1>2. t = (t \div P) * P + (t % P)
  <2>1. t % P = t - (t \div P) * P
    BY SMT
  <2> QED
    BY <1>1, <2>1
<1> QED
  BY <1>1, <1>2

(* Only one remainder fits. *)
LEMMA RemainderUnique ==
  ASSUME NEW P \in Nat \ {0}, NEW q \in Int, NEW u \in Int,
         NEW r \in 0 .. P - 1, NEW v \in 0 .. P - 1, q * P + r = u * P + v
  PROVE  r = v
<1>1. (q - u) * P = v - r
  BY SMT
<1>2. CASE q - u >= 1
  <2>1. (q - u) * P >= P
    BY <1>2, SMT
  <2> QED
    BY <1>1, <2>1
<1>3. CASE q - u <= -1
  <2>1. (q - u) * P <= -P
    BY <1>3, SMT
  <2> QED
    BY <1>1, <2>1
<1>4. CASE q = u
  BY <1>1, <1>4
<1> QED
  BY <1>2, <1>3, <1>4

(* Short of the next multiple the remainder grows with the number.         *)
LEMMA ModSucc ==
  ASSUME NEW t \in Nat, NEW P \in Nat \ {0}, (t + 1) % P # 0
  PROVE  (t + 1) % P = (t % P) + 1
<1> DEFINE r == t % P
           v == (t + 1) % P
<1>0. t + 1 \in Nat
  OBVIOUS
<1>1. r \in 0 .. P - 1 /\ v \in 0 .. P - 1 /\ v # 0
  <2>1. v \in 0 .. P - 1
    BY <1>0, DivMod, Zenon
  <2> QED
    BY <2>1, DivMod
<1>2. PICK q \in Int : t = q * P + r
  BY DivMod
<1>3. PICK u \in Int : t + 1 = u * P + v
  BY <1>0, DivMod, Zenon
<1> HIDE DEF r, v
<1>4. CASE r < P - 1
  <2>1. r + 1 \in 0 .. P - 1 /\ q * P + (r + 1) = u * P + v
    BY <1>1, <1>2, <1>3, <1>4
  <2>2. r + 1 = v
    BY <1>1, <2>1, RemainderUnique
  <2> QED
    BY <2>2 DEF r, v
<1>5. CASE r = P - 1
  <2>1. 0 \in 0 .. P - 1 /\ q + 1 \in Int /\ (q + 1) * P + 0 = u * P + v
    BY <1>1, <1>2, <1>3, <1>5
  <2>2. v = 0
    BY <1>1, <2>1, RemainderUnique
  <2> QED
    BY <1>1, <2>2
<1> QED
  BY <1>1, <1>4, <1>5

-----------------------------------------------------------------------------
Trained == {"validate", "save"}     \* between the training and its being counted

(* The counters, as far as the other parts need them.                      *)
CountInv ==
  /\ config \in Configs /\ phase \in Phases
  /\ currentStep \in Nat /\ totalSteps \in Nat /\ pos \in Nat
  /\ saved.step \in Nat /\ saved.total \in Nat /\ saved.pos \in Nat
  /\ saved.step = 0 => saved.total = 0
  /\ phase = "begin" /\ currentStep = 0 => totalSteps = 0
  /\ policy = IF phase \in Trained THEN totalSteps + 1 ELSE totalSteps

(* The flag is set whenever the engine's weights may differ from the       *)
(* policy's; scales never lag behind a training step.                      *)
FlagInv ==
  /\ stale \in BOOLEAN
  /\ ~stale => engine = policy
  /\ phase = "begin" => stale
  /\ phase = "generate" => ~stale
  /\ config.syncScales =>
       /\ kvScales \in {None, policy}
       /\ phase \in Trained => kvScales = policy
       /\ ~stale => \/ engineScales = policy
                    \/ config.valAtStart /\ totalSteps = 0 /\ phase \notin Trained

(* A metric in the loop is that of the step being finished, or none.       *)
MetricInv ==
  /\ phase \in {"prepare", "generate", "train", "validate"} => valMetrics = None
  /\ phase = "save" => valMetrics \in {None, policy}
  /\ MetricOfCheckpoint

EngineInv == CountInv /\ FlagInv /\ MetricInv

(* grpo_train is entered in step. *)
LEMMA EngineInvInit == Init => EngineInv
<1> SUFFICES ASSUME Init PROVE EngineInv
  OBVIOUS
<1>1. CountInv
  BY DEF Init, CountInv, Phases, Trained
<1>2. FlagInv
  BY DEF Init, FlagInv, Trained
<1>3. MetricInv
  BY DEF Init, MetricInv, MetricOfCheckpoint
<1> QED
  BY <1>1, <1>2, <1>3 DEF EngineInv

(* Every step of the loop, every crash and every resumption keeps it so.   *)
LEMMA EngineInvStep == EngineInv /\ [Next]_vars => EngineInv'
<1> SUFFICES ASSUME EngineInv, [Next]_vars PROVE EngineInv'
  OBVIOUS
<1> USE DEF EngineInv, CountInv, FlagInv, MetricInv, MetricOfCheckpoint, Trained, Phases,
            None, counters, sampling, engineVars, metrics
<1>1. CASE InitialValidation
  <2>1. engine' = policy /\ stale' = FALSE
    BY <1>1 DEF InitialValidation, PrepareEngine
  <2> QED
    BY <1>1, <2>1 DEF InitialValidation
<1>2. CASE NoInitialValidation
  BY <1>2 DEF NoInitialValidation
<1>3. CASE EnterEpoch
  BY <1>3 DEF EnterEpoch
<1>4. CASE LeaveLoop
  BY <1>4 DEF LeaveLoop
<1>5. CASE NextBatch
  BY <1>5 DEF NextBatch
<1>6. CASE EpochEnds
  BY <1>6 DEF EpochEnds
<1>7. CASE PrepareForGeneration
  <2>1. PrepareEngine(kvScales')
    BY <1>7 DEF PrepareForGeneration
  <2>2. engine' = policy /\ stale' = FALSE
    BY <2>1 DEF PrepareEngine
  <2>3. config.syncScales => kvScales' \in {None, policy} /\ (stale => kvScales' = policy)
    BY <1>7 DEF PrepareForGeneration
  <2>4. config.syncScales /\ stale => engineScales' = policy
    BY <2>1, <2>3 DEF PrepareEngine
  <2>5. ~stale => engineScales' = engineScales
    BY <2>1 DEF PrepareEngine
  <2> QED
    BY <1>7, <2>2, <2>3, <2>4, <2>5 DEF PrepareForGeneration
<1>8. CASE GenerateAll
  BY <1>8 DEF GenerateAll
<1>9. ASSUME NEW k \in 0 .. PoolPrompts, GenerateAndFilter(k) PROVE EngineInv'
  BY <1>9 DEF GenerateAndFilter
<1>10. CASE Train
  BY <1>10 DEF Train
<1>11. CASE Validate
  <2>1. CASE ValPeriod > 0 /\ (totalSteps + 1) % ValPeriod = 0
    <3>1. PrepareEngine(kvScales) /\ valMetrics' = engine'
      BY <1>11, <2>1 DEF Validate
    <3>2. engine' = policy /\ stale' = FALSE
      BY <3>1 DEF PrepareEngine
    <3>3. config.syncScales => engineScales' = policy
      BY <1>11, <3>1 DEF Validate, PrepareEngine
    <3> QED
      BY <1>11, <3>1, <3>2, <3>3 DEF Validate
  <2>2. CASE ~(ValPeriod > 0 /\ (totalSteps + 1) % ValPeriod = 0)
    BY <1>11, <2>2 DEF Validate
  <2> QED
    BY <2>1, <2>2
<1>12. ASSUME NEW expired \in BOOLEAN, FinishStep(expired) PROVE EngineInv'
  <2>1. valMetrics' = valMetrics /\ phase' \in {"done", "batch"} /\ phase = "save"
    BY <1>12 DEF FinishStep
  <2>2. CASE Save
    BY <1>12, <2>1, <2>2 DEF FinishStep, Save, MetricToSave
  <2>3. CASE UNCHANGED <<saved, stateMetric>>
    BY <1>12, <2>1, <2>3 DEF FinishStep
  <2> QED
    BY <1>12, <2>2, <2>3 DEF FinishStep
<1>13. CASE Restart
  BY <1>13 DEF Restart, Resume
<1>14. CASE UNCHANGED vars
  BY <1>14 DEF vars
<1> QED
  BY <1>1, <1>2, <1>3, <1>4, <1>5, <1>6, <1>7, <1>8, <1>9, <1>10, <1>11, <1>12, <1>13, <1>14
  DEF Next, LoopStep, Ended

(* Every rollout uses the weights and scales of the policy it trains, and  *)
(* a validation measures them.                                             *)
THEOREM EngineAlwaysInStep == Spec => []EngineInStep
<1>1. EngineInv => EngineInStep
  BY DEF EngineInv, CountInv, FlagInv, MetricInv, EngineInStep, Trained, None
<1> QED
  BY <1>1, EngineInvInit, EngineInvStep, PTL DEF Spec

(* A checkpoint is ranked by the metric of its own weights, or by none.    *)
THEOREM CheckpointMetricOwn == Spec => []MetricOfCheckpoint
<1>1. EngineInv => MetricOfCheckpoint
  BY DEF EngineInv, MetricInv
<1> QED
  BY <1>1, EngineInvInit, EngineInvStep, PTL DEF Spec

-----------------------------------------------------------------------------
(* The samples of the current epoch and weights. *)
Current == [epoch : {currentEpoch}, batch : Nat, weights : {policy}]

(* While samples are collected, the cache holds none but current ones.     *)
CacheInv ==
  /\ phase \in {"batch", "prepare", "generate"} => cache \in Seq(Current)
  /\ phase = "train" => batch \in Seq(Current) /\ Len(batch) = TrainPrompts

(* What the engine answers is current, since the engine is in step.        *)
LEMMA SamplesCurrent ==
  ASSUME EngineInv, phase = "generate", NEW k \in Nat
  PROVE  Samples(k) \in Seq(Current) /\ Len(Samples(k)) = k
BY DEF EngineInv, CountInv, FlagInv, Samples, Current

(* No step leaves an outdated sample in a cache that is still used.        *)
LEMMA CacheInvStep == EngineInv /\ CacheInv /\ [Next]_vars => CacheInv'
<1> SUFFICES ASSUME EngineInv, CacheInv, [Next]_vars PROVE CacheInv'
  OBVIOUS
<1>0. currentEpoch' = currentEpoch /\ policy' = policy => Current' = Current
  BY DEF Current
<1> USE DEF counters, sampling, engineVars, metrics
<1>1. CASE InitialValidation
  BY <1>1 DEF InitialValidation, CacheInv
<1>2. CASE NoInitialValidation
  BY <1>2 DEF NoInitialValidation, CacheInv
<1>3. CASE EnterEpoch
  BY <1>3 DEF EnterEpoch, CacheInv
<1>4. CASE LeaveLoop
  BY <1>4 DEF LeaveLoop, CacheInv
<1>5. CASE NextBatch
  BY <1>0, <1>5 DEF NextBatch, CacheInv
<1>6. CASE EpochEnds
  BY <1>6 DEF EpochEnds, CacheInv
<1>7. CASE PrepareForGeneration
  BY <1>0, <1>7 DEF PrepareForGeneration, CacheInv
<1>8. CASE GenerateAll
  <2>1. batch' \in Seq(Current) /\ Len(batch') = TrainPrompts
    BY <1>8, SamplesCurrent, GrpoAssumption DEF GenerateAll
  <2> QED
    BY <1>0, <1>8, <2>1 DEF GenerateAll, CacheInv
<1>9. ASSUME NEW k \in 0 .. PoolPrompts, GenerateAndFilter(k) PROVE CacheInv'
  <2> DEFINE kept == cache \o Samples(k)
  <2>1. phase = "generate" /\ cache' = kept /\ Current' = Current
    BY <1>0, <1>9 DEF GenerateAndFilter
  <2>2. kept \in Seq(Current)
    <3>1. k \in Nat
      BY GrpoAssumption
    <3>2. Samples(k) \in Seq(Current) /\ cache \in Seq(Current)
      BY <2>1, <3>1, SamplesCurrent DEF CacheInv
    <3> QED
      BY <3>2, ConcatProperties
  <2>3. CASE k > 0 /\ Len(kept) >= TrainPrompts
    <3>1. batch' = SubSeq(kept, 1, TrainPrompts) /\ phase' = "train"
      BY <1>9, <2>3 DEF GenerateAndFilter
    <3>2. 1 \in Int /\ TrainPrompts \in Int /\ 1 <= TrainPrompts
      BY GrpoAssumption
    <3>3. \A i \in 1 .. TrainPrompts : kept[i] \in Current
      <4> HIDE DEF kept
      <4> QED
        BY <2>2, <2>3, <3>2
    <3>4. batch' \in Seq(Current) /\ Len(batch') = TrainPrompts - 1 + 1
      <4> HIDE DEF kept
      <4> QED
        BY <3>1, <3>2, <3>3, SubSeqProperties
    <3>5. batch' \in Seq(Current') /\ Len(batch') = TrainPrompts
      BY <2>1, <3>2, <3>4
    <3> QED
      BY <2>1, <3>1, <3>2, <3>5 DEF CacheInv
  <2>4. CASE ~(k > 0 /\ Len(kept) >= TrainPrompts)
    <3>1. phase' \in {"batch", "raised"}
      BY <1>9, <2>4 DEF GenerateAndFilter
    <3> QED
      BY <2>1, <2>2, <3>1 DEF CacheInv
  <2> QED
    BY <2>3, <2>4
<1>10. CASE Train
  BY <1>10 DEF Train, CacheInv
<1>11. CASE Validate
  BY <1>11 DEF Validate, CacheInv
<1>12. ASSUME NEW expired \in BOOLEAN, FinishStep(expired) PROVE CacheInv'
  BY <1>12 DEF FinishStep, ResetSampling, CacheInv
<1>13. CASE Restart
  BY <1>13 DEF Restart, CacheInv
<1>14. CASE UNCHANGED vars
  BY <1>0, <1>14 DEF vars, CacheInv
<1> QED
  BY <1>1, <1>2, <1>3, <1>4, <1>5, <1>6, <1>7, <1>8, <1>9, <1>10, <1>11, <1>12, <1>13, <1>14
  DEF Next, LoopStep, Ended

(* A training batch is always full, and every prompt in it was answered,   *)
(* in this epoch, by the weights that it trains.                           *)
THEOREM AlwaysOnPolicy == Spec => []OnPolicy
<1>1. Init => CacheInv
  BY DEF Init, CacheInv
<1>2. CacheInv => OnPolicy
  <2> SUFFICES ASSUME CacheInv, phase = "train" PROVE OnPolicy
    BY DEF OnPolicy
  <2>1. batch \in Seq(Current) /\ Len(batch) = TrainPrompts
    BY DEF CacheInv
  <2>2. \A i \in 1 .. TrainPrompts : batch[i] \in Current
    BY <2>1
  <2> QED
    BY <2>1, <2>2 DEF OnPolicy, Current
<1> QED
  BY <1>1, <1>2, EngineInvInit, EngineInvStep, CacheInvStep, PTL DEF Spec

-----------------------------------------------------------------------------
(* Epochs and periods. *)

Inside == {"batch", "prepare", "generate", "train", "validate", "save"}
InStep == {"prepare", "generate", "train", "validate", "save"}

(* Since the last checkpoint there was no multiple of save_period.         *)
PeriodInv ==
  /\ saved.total <= totalSteps
  /\ totalSteps - saved.total <= totalSteps % SavePeriod

(* The loop is in a step only while it has to go on; without dynamic       *)
(* sampling it counts the batches of the epoch, so that it notices the     *)
(* last; and wherever it may end, the last step is saved.                  *)
EpochInv ==
  /\ currentEpoch \in Nat /\ saved.epoch \in Nat
  /\ phase \in Inside => Continues
  /\ phase = "begin" => saved.total = totalSteps
  /\ ~config.dynamic =>
       /\ saved.step = saved.pos
       /\ phase \in {"begin", "epoch", "batch"} => currentStep = pos
       /\ phase \in InStep => currentStep + 1 = pos
       /\ phase = "epoch" /\ (~Continues \/ pos = NumBatches) => saved.total = totalSteps
       /\ phase = "batch" /\ pos = NumBatches /\ currentEpoch + 1 = MaxNumEpochs
            => saved.total = totalSteps
       /\ phase = "done" => saved.total = totalSteps

(* A step that is not saved ends short of a multiple of save_period.       *)
LEMMA PeriodInvStep == EngineInv /\ PeriodInv /\ [Next]_vars => PeriodInv'
<1> SUFFICES ASSUME EngineInv, PeriodInv, [Next]_vars PROVE PeriodInv'
  OBVIOUS
<1>0. totalSteps \in Nat /\ saved.total \in Nat /\ SavePeriod \in Nat \ {0}
  BY GrpoAssumption DEF EngineInv, CountInv
<1>1. CASE UNCHANGED <<totalSteps, saved>>
  BY <1>1 DEF PeriodInv
<1>2. ASSUME NEW expired \in BOOLEAN, FinishStep(expired) PROVE PeriodInv'
  <2>1. totalSteps' = totalSteps + 1
    BY <1>2 DEF FinishStep
  <2>2. CASE Save
    <3>1. saved'.total = totalSteps'
      BY <2>1, <2>2 DEF Save
    <3>2. totalSteps' \in Nat
      BY <1>0, <2>1
    <3>3. totalSteps' % SavePeriod \in 0 .. SavePeriod - 1
      BY <1>0, <3>2, DivMod, Zenon
    <3> QED
      BY <1>0, <3>1, <3>2, <3>3 DEF PeriodInv
  <2>3. CASE (totalSteps + 1) % SavePeriod # 0 /\ saved' = saved
    <3>1. (totalSteps + 1) % SavePeriod = (totalSteps % SavePeriod) + 1
      BY <1>0, <2>3, ModSucc
    <3>2. totalSteps % SavePeriod \in 0 .. SavePeriod - 1
      BY <1>0, DivMod
    <3> QED
      BY <1>0, <2>1, <2>3, <3>1, <3>2 DEF PeriodInv
  <2> QED
    BY <1>2, <2>2, <2>3 DEF FinishStep
<1>3. CASE Restart
  <2>1. saved' = saved /\ totalSteps' = saved.total
    BY <1>3 DEF Restart, Resume
  <2>2. saved.total % SavePeriod \in 0 .. SavePeriod - 1
    BY <1>0, DivMod
  <2> QED
    BY <1>0, <2>1, <2>2 DEF PeriodInv
<1> QED
  BY <1>1, <1>2, <1>3
  DEF Next, LoopStep, Ended, vars, counters, InitialValidation, NoInitialValidation, EnterEpoch,
      LeaveLoop, NextBatch, EpochEnds, PrepareForGeneration, GenerateAll, GenerateAndFilter,
      Train, Validate

(* No step loses count of the batches, or ends unsaved.                    *)
LEMMA EpochInvStep == EngineInv /\ EpochInv /\ [Next]_vars => EpochInv'
<1> SUFFICES ASSUME EngineInv, EpochInv, [Next]_vars PROVE EpochInv'
  OBVIOUS
<1>0. /\ totalSteps \in Nat /\ currentStep \in Nat /\ pos \in Nat
      /\ saved.total \in Nat /\ saved.step \in Nat /\ saved.pos \in Nat
      /\ config.maxNumSteps \in Nat /\ config.dynamic \in BOOLEAN
      /\ MaxNumEpochs \in Nat /\ NumBatches \in Nat \ {0}
  BY GrpoAssumption DEF EngineInv, CountInv, Configs
<1> USE <1>0 DEF EpochInv, Inside, InStep, Continues, counters, sampling, engineVars, metrics
<1>1. CASE InitialValidation
  BY <1>1 DEF InitialValidation
<1>2. CASE NoInitialValidation
  BY <1>2 DEF NoInitialValidation
<1>3. CASE EnterEpoch
  BY <1>3 DEF EnterEpoch
<1>4. CASE LeaveLoop
  BY <1>4 DEF LeaveLoop
<1>5. CASE NextBatch
  BY <1>5 DEF NextBatch
<1>6. CASE EpochEnds
  BY <1>6 DEF EpochEnds
<1>7. CASE PrepareForGeneration
  BY <1>7 DEF PrepareForGeneration
<1>8. CASE GenerateAll
  BY <1>8 DEF GenerateAll
<1>9. ASSUME NEW k \in 0 .. PoolPrompts, GenerateAndFilter(k) PROVE EpochInv'
  BY <1>9 DEF GenerateAndFilter
<1>10. CASE Train
  BY <1>10 DEF Train
<1>11. CASE Validate
  BY <1>11 DEF Validate
<1>12. ASSUME NEW expired \in BOOLEAN, FinishStep(expired) PROVE EpochInv'
  <2>1. CASE Save
    BY <1>12, <2>1 DEF FinishStep, Save
  <2>2. CASE ~IsLastStep /\ ~expired /\ saved' = saved
    BY <1>12, <2>2 DEF FinishStep, IsLastStep
  <2> QED
    BY <1>12, <2>1, <2>2 DEF FinishStep
<1>13. CASE Restart
  BY <1>13 DEF Restart, Resume
<1>14. CASE UNCHANGED vars
  BY <1>14 DEF vars
<1> QED
  BY <1>1, <1>2, <1>3, <1>4, <1>5, <1>6, <1>7, <1>8, <1>9, <1>10, <1>11, <1>12, <1>13, <1>14
  DEF Next, LoopStep, Ended

(* At most save_period - 1 finished steps are missing from the latest      *)
(* checkpoint, and none when a training without dynamic sampling ends.     *)
THEOREM LossAlwaysBounded == Spec => []LossBounded
<1>1. Init => PeriodInv /\ EpochInv
  <2> SUFFICES ASSUME Init PROVE PeriodInv /\ EpochInv
    OBVIOUS
  <2>1. 0 % SavePeriod \in 0 .. SavePeriod - 1
    BY GrpoAssumption, DivMod
  <2> QED
    BY <2>1, GrpoAssumption DEF Init, PeriodInv, EpochInv, Inside, InStep
<1>2. EngineInv /\ PeriodInv /\ EpochInv => LossBounded
  <2> SUFFICES ASSUME EngineInv, PeriodInv, EpochInv PROVE LossBounded
    OBVIOUS
  <2>1. totalSteps \in Nat /\ saved.total \in Nat
    BY DEF EngineInv, CountInv
  <2>2. totalSteps % SavePeriod \in 0 .. SavePeriod - 1
    BY <2>1, GrpoAssumption, DivMod
  <2> QED
    BY <2>1, <2>2, GrpoAssumption DEF PeriodInv, EpochInv, LossBounded
<1> QED
  BY <1>1, <1>2, EngineInvInit, EngineInvStep, PeriodInvStep, EpochInvStep, PTL DEF Spec

-----------------------------------------------------------------------------
(* What is in a sequence. *)
Of(q) == {q[i] : i \in 1 .. Len(q)}

Indices == 0 .. StepBound - 1
AllTrained == UNION {Of(trained[s]) : s \in Indices}

(* A prompt drawn no later than batch n of epoch e. *)
DrawnBy(p, e, n) ==
  /\ p.epoch \in Nat /\ p.batch \in Nat
  /\ p.epoch < e \/ (p.epoch = e /\ p.batch <= n)

AllBefore(P, Q) == \A p \in P, q \in Q : Before(p, q)

Position == [epoch |-> currentEpoch, batch |-> pos]

(* Prompts are trained in the order they are drawn: those of finished      *)
(* steps come before the ones collected and the one drawn last, and those  *)
(* that a checkpoint counts were drawn before its position.                *)
OrderInv ==
  /\ trained = [s \in Indices |-> trained[s]]
  /\ \A s \in Indices : s >= policy => Of(trained[s]) = {}
  /\ saved.total <= policy
  /\ \A s \in Indices : \A p \in Of(trained[s]) : DrawnBy(p, currentEpoch, pos)
  /\ \A s \in Indices : \A p \in Of(trained[s]) :
       s < saved.total => DrawnBy(p, saved.epoch, saved.pos)
  /\ \A s \in Indices, t \in Indices : s < t => AllBefore(Of(trained[s]), Of(trained[t]))

FreshInv ==
  /\ phase \in {"prepare", "generate"} => AllBefore(AllTrained, {Position})
  /\ phase \in {"batch", "prepare", "generate"} =>
       /\ AllBefore(AllTrained, Of(cache))
       /\ \A p \in Of(cache) : DrawnBy(p, currentEpoch, pos)
  /\ phase = "train" =>
       /\ AllBefore(AllTrained, Of(batch))
       /\ \A p \in Of(batch) : DrawnBy(p, currentEpoch, pos)

(* Without dynamic sampling the steps count the batches of all epochs.     *)
NumberInv ==
  ~config.dynamic =>
    /\ \A s \in Indices : \A p \in Of(trained[s]) : p.epoch * NumBatches + p.batch = s + 1
    /\ phase = "train" => \A p \in Of(batch) : p.epoch = currentEpoch /\ p.batch = pos
    /\ phase \in {"begin", "epoch", "batch"} => totalSteps = currentEpoch * NumBatches + pos
    /\ phase \in InStep => totalSteps + 1 = currentEpoch * NumBatches + pos
    /\ saved.total = saved.epoch * NumBatches + saved.pos

LEMMA OfEmpty == Of(<<>>) = {}
BY DEF Of

LEMMA OfSamples ==
  ASSUME NEW k \in Nat, NEW p \in Of(Samples(k))
  PROVE  p.epoch = currentEpoch /\ p.batch = pos
BY DEF Of, Samples

LEMMA OfConcat ==
  ASSUME NEW S, NEW q \in Seq(S), NEW r \in Seq(S)
  PROVE  Of(q \o r) \subseteq Of(q) \cup Of(r)
<1> SUFFICES ASSUME NEW i \in 1 .. Len(q \o r) PROVE (q \o r)[i] \in Of(q) \cup Of(r)
  BY DEF Of
<1>1. /\ Len(q) \in Nat /\ Len(r) \in Nat /\ Len(q \o r) = Len(q) + Len(r)
      /\ (q \o r)[i] = IF i <= Len(q) THEN q[i] ELSE r[i - Len(q)]
  OBVIOUS
<1>2. CASE i <= Len(q)
  BY <1>1, <1>2 DEF Of
<1>3. CASE i > Len(q)
  <2>1. i - Len(q) \in 1 .. Len(r) /\ (q \o r)[i] = r[i - Len(q)]
    BY <1>1, <1>3
  <2> QED
    BY <2>1 DEF Of
<1> QED
  BY <1>1, <1>2, <1>3

LEMMA OfSubSeq ==
  ASSUME NEW S, NEW q \in Seq(S), NEW n \in Nat, n <= Len(q)
  PROVE  Of(SubSeq(q, 1, n)) \subseteq Of(q)
<1> SUFFICES ASSUME NEW i \in 1 .. Len(SubSeq(q, 1, n)) PROVE SubSeq(q, 1, n)[i] \in Of(q)
  BY DEF Of
<1>1. Len(q) \in Nat /\ Len(SubSeq(q, 1, n)) = n /\ SubSeq(q, 1, n)[i] = q[i] /\ i \in 1 .. Len(q)
  OBVIOUS
<1> QED
  BY <1>1 DEF Of

(* No later draw comes before one that was drawn by now. *)
LEMMA DrawnLater ==
  ASSUME NEW p, NEW e \in Nat, NEW n \in Nat, DrawnBy(p, e, n)
  PROVE  /\ DrawnBy(p, e, n + 1) /\ DrawnBy(p, e + 1, 0)
         /\ Before(p, [epoch |-> e, batch |-> n + 1])
BY DEF DrawnBy, Before

(* What the order of the steps needs of the other invariants. *)
LEMMA Places ==
  ASSUME EngineInv, EpochInv
  PROVE  /\ currentEpoch \in Nat /\ pos \in Nat /\ totalSteps \in Nat /\ policy \in Nat
         /\ saved.epoch \in Nat /\ saved.pos \in Nat /\ saved.total \in Nat
         /\ phase = "train" => totalSteps \in Indices /\ policy = totalSteps
BY GrpoAssumption DEF EngineInv, CountInv, EpochInv, Inside, Continues, Indices, Configs, Trained

(* Drawing, collecting, training and resuming keep the order.              *)
LEMMA OrderInvStep ==
  EngineInv /\ EpochInv /\ CacheInv /\ OrderInv /\ FreshInv /\ [Next]_vars
    => OrderInv' /\ FreshInv'
<1> SUFFICES ASSUME EngineInv, EpochInv, CacheInv, OrderInv, FreshInv, [Next]_vars
             PROVE  OrderInv' /\ FreshInv'
  OBVIOUS
<1>0. /\ currentEpoch \in Nat /\ pos \in Nat /\ totalSteps \in Nat /\ policy \in Nat
      /\ saved.epoch \in Nat /\ saved.pos \in Nat /\ saved.total \in Nat
  BY Places
<1>a. \A p \in AllTrained : DrawnBy(p, currentEpoch, pos)
  BY DEF AllTrained, OrderInv
<1> USE DEF counters, sampling, engineVars, metrics
<1>1. ASSUME UNCHANGED <<trained, saved, policy, currentEpoch, pos>> PROVE OrderInv'
  BY <1>1 DEF OrderInv
<1>2. ASSUME UNCHANGED <<trained, currentEpoch, pos, cache, batch>>,
             \/ phase' = phase
             \/ phase' \in {"begin", "epoch", "validate", "save", "done", "raised"}
             \/ phase = "prepare" /\ phase' = "generate"
      PROVE  FreshInv'
  BY <1>2 DEF FreshInv, AllTrained, Position
<1>3. CASE InitialValidation \/ NoInitialValidation \/ LeaveLoop \/ PrepareForGeneration
           \/ Validate \/ UNCHANGED vars
  <2>1. UNCHANGED <<trained, saved, policy, currentEpoch, pos, cache, batch>>
    BY <1>3 DEF InitialValidation, NoInitialValidation, LeaveLoop, PrepareForGeneration,
                Validate, vars
  <2>2. \/ phase' = phase
        \/ phase' \in {"begin", "epoch", "validate", "save", "done", "raised"}
        \/ phase = "prepare" /\ phase' = "generate"
    BY <1>3 DEF InitialValidation, NoInitialValidation, LeaveLoop, PrepareForGeneration,
                Validate, vars
  <2> QED
    BY <1>1, <1>2, <2>1, <2>2
<1>4. CASE EnterEpoch
  <2>1. phase' = "batch" /\ cache' = <<>> /\ UNCHANGED <<trained, saved, policy, currentEpoch, pos>>
    BY <1>4 DEF EnterEpoch
  <2> QED
    BY <1>1, <2>1, OfEmpty DEF FreshInv, AllBefore
<1>5. CASE NextBatch
  <2>1. /\ phase = "batch" /\ phase' = "prepare" /\ pos' = pos + 1
        /\ UNCHANGED <<trained, saved, policy, currentEpoch, cache>>
    BY <1>5 DEF NextBatch
  <2>2. OrderInv'
    BY <1>0, <2>1, DrawnLater DEF OrderInv
  <2>3. AllBefore(AllTrained', {Position'})
    BY <1>0, <1>a, <2>1, DrawnLater DEF AllBefore, AllTrained, Position
  <2>4. AllBefore(AllTrained', Of(cache')) /\ \A p \in Of(cache') : DrawnBy(p, currentEpoch', pos')
    BY <1>0, <2>1, DrawnLater DEF FreshInv, AllTrained
  <2> QED
    BY <2>1, <2>2, <2>3, <2>4 DEF FreshInv
<1>6. CASE EpochEnds
  <2>1. /\ phase' = "epoch" /\ pos' = 0 /\ currentEpoch' = currentEpoch + 1
        /\ UNCHANGED <<trained, saved, policy>>
    BY <1>6 DEF EpochEnds
  <2>2. \A s \in Indices : \A p \in Of(trained[s]) : DrawnBy(p, currentEpoch + 1, 0)
    BY <1>0, DrawnLater DEF OrderInv
  <2> QED
    BY <2>1, <2>2 DEF OrderInv, FreshInv
<1>7. ASSUME NEW k \in Nat
      PROVE  \A p \in Of(Samples(k)) :
               /\ DrawnBy(p, currentEpoch, pos)
               /\ phase = "generate" => \A q \in AllTrained : Before(q, p)
  <2> SUFFICES ASSUME NEW p \in Of(Samples(k))
               PROVE  /\ DrawnBy(p, currentEpoch, pos)
                      /\ phase = "generate" => \A q \in AllTrained : Before(q, p)
    OBVIOUS
  <2>1. p.epoch = currentEpoch /\ p.batch = pos
    BY OfSamples
  <2> QED
    BY <1>0, <2>1 DEF DrawnBy, FreshInv, AllBefore, Position, Before
<1>8. CASE GenerateAll
  <2>1. /\ phase = "generate" /\ phase' = "train" /\ batch' = Samples(TrainPrompts)
        /\ UNCHANGED <<trained, saved, policy, currentEpoch, pos>>
    BY <1>8 DEF GenerateAll
  <2>2. TrainPrompts \in Nat
    BY GrpoAssumption
  <2> QED
    BY <1>1, <1>7, <2>1, <2>2 DEF FreshInv, AllBefore, AllTrained
<1>9. ASSUME NEW k \in 0 .. PoolPrompts, GenerateAndFilter(k) PROVE OrderInv' /\ FreshInv'
  <2> DEFINE kept == cache \o Samples(k)
  <2>1. /\ phase = "generate" /\ cache' = kept /\ k \in Nat
        /\ UNCHANGED <<trained, saved, policy, currentEpoch, pos>>
    BY <1>9, GrpoAssumption DEF GenerateAndFilter
  <2>2. Samples(k) \in Seq(Current) /\ cache \in Seq(Current)
    BY <2>1, SamplesCurrent DEF CacheInv
  <2>3. Of(kept) \subseteq Of(cache) \cup Of(Samples(k)) /\ kept \in Seq(Current)
    BY <2>2, OfConcat, ConcatProperties
  <2> HIDE DEF kept
  <2>4. \A p \in Of(kept) : DrawnBy(p, currentEpoch, pos) /\ \A q \in AllTrained : Before(q, p)
    BY <1>7, <2>1, <2>3 DEF FreshInv, AllBefore
  <2>5. CASE phase' = "train"
    <3>1. batch' = SubSeq(kept, 1, TrainPrompts) /\ TrainPrompts <= Len(kept)
      BY <1>9, <2>5 DEF GenerateAndFilter, kept
    <3>2. Of(batch') \subseteq Of(kept)
      BY <2>3, <3>1, OfSubSeq, GrpoAssumption
    <3> QED
      BY <1>1, <2>1, <2>4, <2>5, <3>2 DEF FreshInv, AllBefore, AllTrained
  <2>6. CASE phase' \in {"batch", "raised"}
    BY <1>1, <2>1, <2>4, <2>6 DEF FreshInv, AllBefore, AllTrained
  <2> QED
    BY <1>9, <2>5, <2>6 DEF GenerateAndFilter
<1>10. CASE Train
  <2>1. /\ phase = "train" /\ phase' = "validate" /\ policy' = totalSteps + 1
        /\ trained' = [trained EXCEPT ![totalSteps] = batch]
        /\ UNCHANGED <<saved, currentEpoch, pos>>
    BY <1>10 DEF Train
  <2>2. totalSteps \in Indices /\ policy = totalSteps
    BY <2>1, Places
  <2>3. /\ trained' = [s \in Indices |-> trained'[s]]
        /\ trained'[totalSteps] = batch
        /\ \A s \in Indices : s # totalSteps => trained'[s] = trained[s]
    BY <2>1, <2>2 DEF OrderInv
  <2>4. \A s \in Indices : s >= policy' => Of(trained'[s]) = {}
    BY <1>0, <2>1, <2>2, <2>3 DEF OrderInv, Indices
  <2>5. \A s \in Indices : \A p \in Of(trained'[s]) : DrawnBy(p, currentEpoch, pos)
    BY <2>1, <2>3 DEF OrderInv, FreshInv
  <2>6. saved.total <= totalSteps
    BY <2>2 DEF OrderInv
  <2>7. \A s \in Indices : \A p \in Of(trained'[s]) :
          s < saved.total => DrawnBy(p, saved.epoch, saved.pos)
    BY <1>0, <2>3, <2>6 DEF OrderInv, Indices
  <2>8. ASSUME NEW s \in Indices, NEW t \in Indices, s < t
        PROVE  AllBefore(Of(trained'[s]), Of(trained'[t]))
    <3>1. CASE t = totalSteps
      <4>1. trained'[s] = trained[s] /\ trained'[t] = batch
        BY <2>3, <2>8, <3>1 DEF Indices
      <4> QED
        BY <2>1, <4>1 DEF FreshInv, AllBefore, AllTrained
    <3>2. CASE s = totalSteps
      <4>1. Of(trained'[t]) = {}
        BY <2>2, <2>3, <2>8, <3>2 DEF OrderInv, Indices
      <4> QED
        BY <4>1 DEF AllBefore
    <3>3. CASE s # totalSteps /\ t # totalSteps
      BY <2>3, <2>8, <3>3 DEF OrderInv
    <3> QED
      BY <3>1, <3>2, <3>3
  <2>9. OrderInv'
    BY <1>0, <2>1, <2>3, <2>4, <2>5, <2>6, <2>7, <2>8 DEF OrderInv
  <2> QED
    BY <2>1, <2>9 DEF FreshInv
<1>11. ASSUME NEW expired \in BOOLEAN, FinishStep(expired) PROVE OrderInv' /\ FreshInv'
  <2>1. /\ phase = "save" /\ phase' \in {"done", "batch"} /\ cache' = <<>>
        /\ UNCHANGED <<trained, policy, currentEpoch, pos>>
    BY <1>11 DEF FinishStep, ResetSampling
  <2>2. FreshInv'
    BY <2>1, OfEmpty DEF FreshInv, AllBefore
  <2>3. CASE Save
    <3>1. saved'.epoch = currentEpoch /\ saved'.pos = pos /\ saved'.total = policy
      BY <2>1, <2>3 DEF Save, EngineInv, CountInv, Trained
    <3> QED
      BY <1>0, <2>1, <2>2, <3>1 DEF OrderInv
  <2>4. CASE saved' = saved
    BY <1>1, <2>1, <2>2, <2>4
  <2> QED
    BY <1>11, <2>3, <2>4 DEF FinishStep
<1>12. CASE Restart
  <2>1. /\ phase' = "begin" /\ saved' = saved /\ policy' = saved.total
        /\ currentEpoch' = saved.epoch /\ pos' = saved.pos
    BY <1>12 DEF Restart, Resume
  <2>2. trained' = [s \in Indices |-> IF s < saved.total THEN trained[s] ELSE <<>>]
    BY <1>12 DEF Restart, Indices
  <2>3. \A s \in Indices :
          \/ s < saved.total /\ trained'[s] = trained[s]
          \/ ~(s < saved.total) /\ Of(trained'[s]) = {}
    <3> SUFFICES ASSUME NEW s \in Indices
                 PROVE  \/ s < saved.total /\ trained'[s] = trained[s]
                        \/ ~(s < saved.total) /\ Of(trained'[s]) = {}
      OBVIOUS
    <3>1. CASE s < saved.total
      BY <2>2, <3>1
    <3>2. CASE ~(s < saved.total)
      <4>1. trained'[s] = <<>>
        BY <2>2, <3>2
      <4> QED
        BY <3>2, <4>1, OfEmpty
    <3> QED
      BY <3>1, <3>2
  <2>4. trained' = [s \in Indices |-> trained'[s]]
    BY <2>2
  <2>5. ASSUME NEW s \in Indices, s >= saved.total PROVE Of(trained'[s]) = {}
    <3>1. ~(s < saved.total)
      BY <1>0, <2>5 DEF Indices
    <3> QED
      BY <2>3, <3>1
  <2>6. \A s \in Indices : \A p \in Of(trained'[s]) : DrawnBy(p, saved.epoch, saved.pos)
    BY <2>3 DEF OrderInv
  <2>7. ASSUME NEW s \in Indices, NEW t \in Indices, s < t
        PROVE  AllBefore(Of(trained'[s]), Of(trained'[t]))
    BY <2>3, <2>7 DEF OrderInv, AllBefore
  <2>8. OrderInv'
    BY <1>0, <2>1, <2>4, <2>5, <2>6, <2>7 DEF OrderInv
  <2> QED
    BY <2>1, <2>8 DEF FreshInv
<1> QED
  BY <1>3, <1>4, <1>5, <1>6, <1>8, <1>9, <1>10, <1>11, <1>12 DEF Next, LoopStep, Ended

(* Without dynamic sampling no step leaves a batch out.                    *)
LEMMA NumberInvStep ==
  EngineInv /\ EpochInv /\ OrderInv /\ NumberInv /\ [Next]_vars => NumberInv'
<1> SUFFICES ASSUME EngineInv, EpochInv, OrderInv, NumberInv, [Next]_vars, ~config'.dynamic
             PROVE  NumberInv'
  BY DEF NumberInv
<1>0. /\ currentEpoch \in Nat /\ pos \in Nat /\ totalSteps \in Nat /\ NumBatches \in Nat
      /\ saved.epoch \in Nat /\ saved.pos \in Nat /\ saved.total \in Nat
  BY Places, GrpoAssumption
<1> USE DEF counters, sampling, engineVars, metrics, InStep
<1>1. config' = config /\ ~config.dynamic
  BY DEF Next, LoopStep, Ended, vars, InitialValidation, NoInitialValidation, EnterEpoch,
         LeaveLoop, NextBatch, EpochEnds, PrepareForGeneration, GenerateAll, GenerateAndFilter,
         Train, Validate, FinishStep, Restart
<1>2. CASE InitialValidation \/ NoInitialValidation \/ EnterEpoch \/ LeaveLoop
  BY <1>1, <1>2 DEF InitialValidation, NoInitialValidation, EnterEpoch, LeaveLoop, NumberInv
<1>3. CASE NextBatch
  BY <1>0, <1>1, <1>3 DEF NextBatch, NumberInv
<1>4. CASE EpochEnds
  <2>1. (currentEpoch + 1) * NumBatches = currentEpoch * NumBatches + NumBatches
    BY <1>0
  <2> QED
    BY <1>0, <1>1, <1>4, <2>1 DEF EpochEnds, NumberInv
<1>5. CASE PrepareForGeneration \/ Validate \/ UNCHANGED vars
  BY <1>1, <1>5 DEF PrepareForGeneration, Validate, vars, NumberInv
<1>6. CASE GenerateAll
  <2>1. \A p \in Of(batch') : p.epoch = currentEpoch /\ p.batch = pos
    BY <1>6, OfSamples, GrpoAssumption DEF GenerateAll
  <2> QED
    BY <1>1, <1>6, <2>1 DEF GenerateAll, NumberInv
<1>7. ASSUME NEW k \in 0 .. PoolPrompts, GenerateAndFilter(k) PROVE NumberInv'
  BY <1>1, <1>7 DEF GenerateAndFilter
<1>8. CASE Train
  <2>1. /\ phase = "train" /\ phase' = "validate"
        /\ trained' = [trained EXCEPT ![totalSteps] = batch]
        /\ UNCHANGED <<saved, currentEpoch, pos, totalSteps>>
    BY <1>8 DEF Train
  <2>2. totalSteps \in Indices
    BY <2>1, Places
  <2>3. /\ trained'[totalSteps] = batch
        /\ \A s \in Indices : s # totalSteps => trained'[s] = trained[s]
    BY <2>1, <2>2 DEF OrderInv
  <2>4. ASSUME NEW s \in Indices, NEW p \in Of(trained'[s])
        PROVE  p.epoch * NumBatches + p.batch = s + 1
    BY <1>1, <2>1, <2>3, <2>4 DEF NumberInv
  <2> QED
    BY <1>1, <2>1, <2>4 DEF NumberInv
<1>9. ASSUME NEW expired \in BOOLEAN, FinishStep(expired) PROVE NumberInv'
  <2>1. /\ phase = "save" /\ phase' \in {"done", "batch"} /\ totalSteps' = totalSteps + 1
        /\ UNCHANGED <<trained, currentEpoch, pos>>
    BY <1>9 DEF FinishStep
  <2>2. saved'.total = saved'.epoch * NumBatches + saved'.pos
    BY <1>1, <1>9, <2>1 DEF FinishStep, Save, NumberInv
  <2> QED
    BY <1>1, <2>1, <2>2 DEF NumberInv
<1>10. CASE Restart
  <2>1. /\ phase' = "begin" /\ saved' = saved /\ totalSteps' = saved.total
        /\ currentEpoch' = saved.epoch /\ pos' = saved.pos
    BY <1>10 DEF Restart, Resume
  <2>2. trained' = [s \in Indices |-> IF s < saved.total THEN trained[s] ELSE <<>>]
    BY <1>10 DEF Restart, Indices
  <2>3. ASSUME NEW s \in Indices, NEW p \in Of(trained'[s])
        PROVE  p.epoch * NumBatches + p.batch = s + 1
    <3>1. CASE s < saved.total
      <4>1. trained'[s] = trained[s]
        BY <2>2, <3>1
      <4> QED
        BY <1>1, <2>3, <4>1 DEF NumberInv
    <3>2. CASE ~(s < saved.total)
      <4>1. trained'[s] = <<>>
        BY <2>2, <3>2
      <4> QED
        BY <2>3, <4>1, OfEmpty
    <3> QED
      BY <3>1, <3>2
  <2> QED
    BY <1>1, <2>1, <2>3 DEF NumberInv
<1> QED
  BY <1>2, <1>3, <1>4, <1>5, <1>6, <1>7, <1>8, <1>9, <1>10 DEF Next, LoopStep, Ended

(* No prompt is trained twice in an epoch or out of order, whatever is     *)
(* filtered, saved and resumed; and without dynamic sampling step s trains *)
(* on batch number s.                                                      *)
THEOREM EachPromptAlwaysOnce == Spec => []EachPromptOnce
<1>1. Init => CacheInv /\ EpochInv /\ OrderInv /\ FreshInv /\ NumberInv
  <2> SUFFICES ASSUME Init PROVE CacheInv /\ EpochInv /\ OrderInv /\ FreshInv /\ NumberInv
    OBVIOUS
  <2>1. trained = [s \in Indices |-> <<>>]
    BY DEF Init, Indices
  <2>2. \A s \in Indices : Of(trained[s]) = {}
    BY <2>1, OfEmpty
  <2>3. trained = [s \in Indices |-> trained[s]]
    BY <2>1
  <2>4. saved.total = 0 /\ saved.epoch = 0 /\ saved.pos = 0 /\ saved.step = 0 /\ policy = 0
    BY DEF Init
  <2>5. OrderInv
    BY <2>2, <2>3, <2>4 DEF OrderInv, AllBefore
  <2>6. CacheInv /\ FreshInv
    BY DEF Init, CacheInv, FreshInv
  <2>7. EpochInv
    BY <2>4, GrpoAssumption DEF Init, EpochInv, Inside, InStep
  <2>8. NumberInv
    <3>1. 0 * NumBatches + 0 = 0
      BY GrpoAssumption
    <3>2. phase = "begin" /\ totalSteps = 0 /\ currentEpoch = 0 /\ pos = 0
      BY DEF Init
    <3> QED
      BY <2>2, <2>4, <3>1, <3>2 DEF NumberInv, InStep
  <2> QED
    BY <2>5, <2>6, <2>7, <2>8
<1>2. OrderInv /\ NumberInv => EachPromptOnce
  <2> SUFFICES ASSUME OrderInv, NumberInv, NEW s \in 0 .. StepBound - 1,
                      NEW i \in 1 .. Len(trained[s])
               PROVE  /\ \A t \in s + 1 .. StepBound - 1 : \A j \in 1 .. Len(trained[t]) :
                            Before(trained[s][i], trained[t][j])
                      /\ ~config.dynamic =>
                           trained[s][i].epoch * NumBatches + trained[s][i].batch = s + 1
    BY DEF EachPromptOnce
  <2>1. s \in Indices /\ trained[s][i] \in Of(trained[s])
    BY DEF Indices, Of
  <2>2. ASSUME NEW t \in s + 1 .. StepBound - 1, NEW j \in 1 .. Len(trained[t])
        PROVE  Before(trained[s][i], trained[t][j])
    <3>1. t \in Indices /\ s < t /\ trained[t][j] \in Of(trained[t])
      BY GrpoAssumption, SMTT(40) DEF Indices, Of
    <3> QED
      BY <2>1, <3>1 DEF OrderInv, AllBefore
  <2> QED
    BY <2>1, <2>2 DEF NumberInv
<1> QED
  BY <1>1, <1>2, EngineInvInit, EngineInvStep, EpochInvStep, CacheInvStep, OrderInvStep,
     NumberInvStep, PTL DEF Spec

-----------------------------------------------------------------------------
(* Types and bounds. *)

Collecting == {"batch", "prepare", "generate"}

(* A sampling that goes on lacks prompts and has batches left to draw.     *)
TypeInv ==
  /\ TypeOK
  /\ currentStep <= totalSteps /\ saved.step <= saved.total
  /\ phase \in Collecting => Len(cache) < TrainPrompts
  /\ phase \in {"batch", "prepare"} => genBatches <= config.maxGenBatches

LEMMA SamplesTyped ==
  ASSUME TypeOK, engine \in Weights, pos \in 1 .. NumBatches, NEW k \in Nat
  PROVE  Samples(k) \in Seq(Sample) /\ Len(Samples(k)) = k
BY DEF TypeOK, Samples, Sample

(* A batch is drawn before anything is generated from it. *)
DrawnInv == phase \in InStep => pos # 0

LEMMA DrawnInvStep == CountInv /\ DrawnInv /\ [Next]_vars => DrawnInv'
BY DEF CountInv, DrawnInv, InStep, Next, LoopStep, Ended, vars, counters, InitialValidation,
       NoInitialValidation, EnterEpoch, LeaveLoop, NextBatch, EpochEnds, PrepareForGeneration,
       GenerateAll, GenerateAndFilter, Train, Validate, FinishStep, Restart

LEMMA TypeInvStep ==
  EngineInv /\ EpochInv /\ DrawnInv /\ TypeInv /\ [Next]_vars => TypeInv'
<1> SUFFICES ASSUME EngineInv, EpochInv, DrawnInv, TypeInv, [Next]_vars PROVE TypeInv'
  OBVIOUS
<1>0. /\ StepBound \in Nat /\ MaxNumEpochs \in Nat /\ NumBatches \in Nat \ {0}
      /\ TrainPrompts \in Nat \ {0} /\ PoolPrompts \in Nat /\ MaxCrashes \in Nat
      /\ config.maxNumSteps \in 0 .. StepBound /\ config.maxGenBatches \in Nat
      /\ config.syncScales \in BOOLEAN
  BY GrpoAssumption, SMTT(40) DEF TypeInv, TypeOK, Configs
<1>a. phase \in Inside => totalSteps < StepBound /\ currentEpoch < MaxNumEpochs
  BY <1>0 DEF EpochInv, Continues, TypeInv, TypeOK, Weights
<1>b. config \in Configs /\ policy \in Weights
  BY DEF TypeInv, TypeOK
<1> USE DEF TypeInv, TypeOK, Collecting, Phases, Weights, counters, sampling, engineVars, metrics
<1>1. CASE InitialValidation
  BY <1>1 DEF InitialValidation, PrepareEngine
<1>2. CASE NoInitialValidation
  BY <1>2 DEF NoInitialValidation
<1>3. CASE EnterEpoch
  BY <1>0, <1>3 DEF EnterEpoch
<1>4. CASE LeaveLoop
  BY <1>4 DEF LeaveLoop
<1>5. CASE NextBatch
  BY <1>0, <1>5 DEF NextBatch
<1>6. CASE EpochEnds
  BY <1>0, <1>a, <1>6 DEF EpochEnds, Inside
<1>7. CASE PrepareForGeneration
  <2>1. /\ phase = "prepare" /\ phase' = "generate" /\ genBatches' = genBatches + 1
        /\ UNCHANGED <<config, currentStep, totalSteps, currentEpoch, pos, cache, batch, policy,
                       valMetrics, stateMetric, saved, trained, crashes>>
    BY <1>7 DEF PrepareForGeneration
  <2>2. kvScales' \in 0 .. StepBound \cup {None}
    BY <1>7 DEF PrepareForGeneration
  <2>3. /\ engine' \in 0 .. StepBound \cup {None} /\ stale' \in BOOLEAN
        /\ engineScales' \in 0 .. StepBound \cup {None}
    BY <1>7, <2>2 DEF PrepareForGeneration, PrepareEngine
  <2>4. genBatches' \in 0 .. config'.maxGenBatches + 1
    BY <1>0, <2>1
  <2> QED
    BY <2>1, <2>2, <2>3, <2>4
<1>8. ASSUME phase = "generate"
      PROVE  engine \in Weights /\ pos \in 1 .. NumBatches
  BY <1>0, <1>8 DEF EngineInv, FlagInv, DrawnInv, InStep
<1>9. CASE GenerateAll
  <2>1. Samples(TrainPrompts) \in Seq(Sample) /\ Len(Samples(TrainPrompts)) = TrainPrompts
    BY <1>0, <1>8, <1>9, SamplesTyped DEF GenerateAll
  <2> QED
    BY <1>0, <1>9, <2>1 DEF GenerateAll
<1>10. ASSUME NEW k \in 0 .. PoolPrompts, GenerateAndFilter(k) PROVE TypeInv'
  <2> DEFINE kept == cache \o Samples(k)
  <2>1. Samples(k) \in Seq(Sample) /\ Len(Samples(k)) = k
    BY <1>0, <1>8, <1>10, SamplesTyped DEF GenerateAndFilter
  <2>2. /\ kept \in Seq(Sample) /\ Len(kept) = Len(cache) + k
        /\ Len(kept) < TrainPrompts + PoolPrompts
    <3>1. phase = "generate"
      BY <1>10 DEF GenerateAndFilter
    <3>2. cache \in Seq(Sample) /\ Len(cache) < TrainPrompts /\ Len(cache) \in Nat
      BY <3>1
    <3>3. kept \in Seq(Sample) /\ Len(kept) = Len(cache) + Len(Samples(k))
      BY <2>1, <3>2, ConcatProperties
    <3> HIDE DEF kept, TypeOK, TypeInv
    <3> QED
      BY <1>0, <2>1, <3>2, <3>3
  <2>3. /\ phase = "generate" /\ cache' = kept
        /\ UNCHANGED <<config, counters, pos, genBatches, policy, engineVars, metrics, saved,
                       trained, crashes>>
    BY <1>10 DEF GenerateAndFilter
  <2>4. CASE k > 0 /\ Len(kept) >= TrainPrompts
    <3>1. batch' = SubSeq(kept, 1, TrainPrompts) /\ phase' = "train"
      BY <1>10, <2>4 DEF GenerateAndFilter
    <3>2. batch' \in Seq(Sample) /\ Len(batch') = TrainPrompts
      <4> HIDE DEF kept, TypeOK, TypeInv
      <4>1. 1 \in Int /\ TrainPrompts \in Int /\ 1 <= TrainPrompts + 1
        BY <1>0
      <4>2. \A i \in 1 .. TrainPrompts : i \in 1 .. Len(kept)
        BY <1>0, <2>2, <2>4, LenProperties
      <4>3. \A i \in 1 .. TrainPrompts : kept[i] \in Sample
        BY <2>2, <4>2, ElementOfSeq
      <4>4. SubSeq(kept, 1, TrainPrompts) \in Seq(Sample)
        BY <4>1, <4>3, SubSeqProperties
      <4>5. Len(SubSeq(kept, 1, TrainPrompts)) = TrainPrompts - 1 + 1
        BY <4>1, SubSeqProperties
      <4> QED
        BY <1>0, <3>1, <4>4, <4>5
    <3>3. cache' \in Seq(Sample) /\ Len(cache') < TrainPrompts + PoolPrompts
      BY <2>2, <2>3
    <3> HIDE DEF kept
    <3> QED
      BY <1>0, <2>3, <3>1, <3>2, <3>3
  <2>5. CASE ~(k > 0 /\ Len(kept) >= TrainPrompts)
    <3>1. UNCHANGED batch /\ phase' = IF MayGoOn THEN "batch" ELSE "raised"
      BY <1>10, <2>5 DEF GenerateAndFilter
    <3>2. Len(kept) < TrainPrompts
      BY <1>0, <2>2, <2>3, <2>5
    <3> HIDE DEF kept
    <3> QED
      BY <2>2, <2>3, <3>1, <3>2 DEF MayGoOn
  <2> QED
    BY <2>4, <2>5
<1>11. CASE Train
  <2>1. policy' \in Weights
    BY <1>0, <1>a, <1>11 DEF Train, Inside
  <2> QED
    BY <1>11, <2>1 DEF Train
<1>12. CASE Validate
  BY <1>12 DEF Validate, PrepareEngine
<1>13. ASSUME NEW expired \in BOOLEAN, FinishStep(expired) PROVE TypeInv'
  <2>1. /\ phase = "save" /\ phase' \in {"done", "batch"} /\ cache' = <<>> /\ genBatches' = 0
        /\ currentStep' = currentStep + 1 /\ totalSteps' = totalSteps + 1
        /\ UNCHANGED <<config, currentEpoch, pos, batch, policy, engineVars, valMetrics, trained,
                       crashes>>
    BY <1>13 DEF FinishStep, ResetSampling
  <2>2. /\ totalSteps' \in Weights /\ currentStep' \in 0 .. StepBound
        /\ currentStep' <= totalSteps'
    BY <1>0, <1>a, <2>1 DEF Inside
  <2>3. saved' \in Checkpoint /\ saved'.step <= saved'.total
        /\ stateMetric' \in Weights \cup {None}
    <3>1. CASE Save
      BY <1>0, <2>1, <2>2, <3>1 DEF Save, MetricToSave, Checkpoint
    <3>2. CASE UNCHANGED <<saved, stateMetric>>
      BY <3>2
    <3> QED
      BY <1>13, <3>1, <3>2 DEF FinishStep
  <2>4. cache' \in Seq(Sample) /\ Len(cache') = 0
    BY <2>1
  <2> QED
    BY <1>0, <2>1, <2>2, <2>3, <2>4, SMTT(40)
<1>14. CASE Restart
  <2>1. saved \in Checkpoint
    OBVIOUS
  <2>2. trained' \in [0 .. StepBound - 1 -> Seq(Sample)]
    BY <1>14 DEF Restart
  <2>3. /\ saved.step \in 0 .. StepBound /\ saved.total \in 0 .. StepBound
        /\ saved.epoch \in 0 .. MaxNumEpochs /\ saved.pos \in 0 .. NumBatches
        /\ saved.metric \in 0 .. StepBound \cup {None} /\ saved.step <= saved.total
    BY <2>1 DEF Checkpoint
  <2>4. /\ phase' = "begin" /\ cache' = <<>> /\ genBatches' = 0 /\ batch' = <<>>
        /\ engine' = None /\ stale' = TRUE /\ kvScales' = None /\ engineScales' = None
        /\ valMetrics' = None /\ crashes' = crashes + 1 /\ crashes < MaxCrashes
        /\ UNCHANGED <<config, saved>>
    BY <1>14 DEF Restart
  <2>5. /\ currentStep' = saved.step /\ totalSteps' = saved.total
        /\ currentEpoch' = saved.epoch /\ pos' = saved.pos
        /\ policy' = saved.total /\ stateMetric' = saved.metric
    BY <1>14 DEF Restart, Resume
  <2>6. <<>> \in Seq(Sample) /\ Len(<<>>) = 0
    BY EmptySeq
  <2>7. crashes' \in 0 .. MaxCrashes
    BY <1>0, <2>4
  <2>8. cache' \in Seq(Sample) /\ Len(cache') < TrainPrompts + PoolPrompts
    BY <1>0, <2>4, <2>6
  <2>9. batch' \in Seq(Sample) /\ Len(batch') <= TrainPrompts
    BY <1>0, <2>4, <2>6
  <2>10. genBatches' \in 0 .. config'.maxGenBatches + 1
    BY <1>0, <2>4
  <2> QED
    BY <2>1, <2>2, <2>3, <2>4, <2>5, <2>7, <2>8, <2>9, <2>10
<1>15. CASE UNCHANGED vars
  BY <1>15 DEF vars
<1> QED
  BY <1>1, <1>2, <1>3, <1>4, <1>5, <1>6, <1>7, <1>9, <1>10, <1>11, <1>12, <1>13, <1>14, <1>15
  DEF Next, LoopStep, Ended

(* Every variable keeps its type and bound: dynamic sampling reads at most *)
(* one batch more than dynamic_sampling_max_gen_batches, and keeps fewer   *)
(* prompts than two steps could use.                                       *)
THEOREM TypesAndBounds == Spec => []TypeOK
<1>1. Init => EpochInv /\ DrawnInv /\ TypeInv
  <2> SUFFICES ASSUME Init PROVE EpochInv /\ DrawnInv /\ TypeInv
    OBVIOUS
  <2>1. EpochInv
    BY GrpoAssumption DEF Init, EpochInv, Inside, InStep
  <2>2. TypeOK
    BY GrpoAssumption DEF Init, TypeOK, Configs, Phases, Weights, Checkpoint
  <2> QED
    BY <2>1, <2>2, GrpoAssumption DEF Init, DrawnInv, InStep, TypeInv, Collecting
<1>2. EngineInv => CountInv
  BY DEF EngineInv
<1>3. TypeInv => TypeOK
  BY DEF TypeInv
<1> QED
  BY <1>1, <1>2, <1>3, EngineInvInit, EngineInvStep, EpochInvStep, DrawnInvStep, TypeInvStep,
     PTL DEF Spec

-----------------------------------------------------------------------------
(* The refit.                                                              *)

(***************************************************************************)
(* The inductive invariant of the stream.  The group that the sender packs *)
(* is the interval of parameters that ends before the next one; the group  *)
(* on its way is the interval before that, in the other buffer.            *)
(***************************************************************************)
First == next - Len(names)

StreamTypes ==
  /\ sender \in {"pack", "await", "complete", "done", "failed"}
  /\ next \in 1 .. NumParams + 1 /\ names \in Seq(Params)
  /\ copied \in Nat /\ current \in {0, 1} /\ awaiting \in BOOLEAN
  /\ buffers \in [{0, 1} -> Seq(Params)]
  /\ reply \in BOOLEAN
  /\ receiver \in {"recv", "load", "finish", "post", "true", "false"}
  /\ loaded \in Nat
  /\ Len(names) < next
  /\ \A i \in 1 .. Len(names) : names[i] = First + i - 1

(* What the sender has of the group that it packs.                         *)
Packed ==
  /\ copied <= Len(names)
  /\ sender = "await" => names # <<>> /\ copied = Len(names)
  /\ sender \in {"complete", "done"} => next > NumParams /\ names = <<>>
  /\ sender # "failed" /\ copied > 0 =>
       /\ Len(buffers[current]) = copied
       /\ \A i \in 1 .. copied : buffers[current][i] = names[i]

(* A message tells of the group before this one, and where it is.          *)
Tells(m) ==
  /\ m.kind = "group" /\ m.buffer = 1 - current
  /\ m.names \in Seq(Params) /\ Len(m.names) < First
  /\ \A i \in 1 .. Len(m.names) : m.names[i] = First - Len(m.names) + i - 1

Held(m) ==
  /\ Len(buffers[1 - current]) = Len(m.names)
  /\ \A i \in 1 .. Len(m.names) : buffers[1 - current][i] = m.names[i]

Handle(m) == Tells(m) /\ (sender # "failed" => Held(m))

Asking == request \notin {Nothing, Complete}

Channel ==
  /\ reply => request = Nothing /\ receiver \notin {"load", "finish"}
  /\ receiver \in {"load", "finish"} => request = Nothing
  /\ Asking => Handle(request)
  /\ receiver = "load" => Handle(message) /\ loaded <= Len(message.names)
  /\ sender \in {"pack", "await"} =>
       /\ request # Complete /\ receiver \notin {"finish", "post", "true"}
       /\ ~awaiting => ~reply /\ request = Nothing /\ receiver # "load"
  /\ sender = "complete" =>
       ~Asking /\ receiver # "load" /\ (reply => receiver \in {"post", "true", "false"})
  /\ sender = "done" => request = Nothing /\ ~reply /\ receiver \in {"post", "true", "false"}

(* Every parameter before the group on its way has this refit's value.     *)
LoadedTo(n) == \A p \in Params : p < n => weights[p] = refit

Arrived ==
  /\ ~Asking /\ receiver # "load" => LoadedTo(First)
  /\ Asking => LoadedTo(First - Len(request.names))
  /\ receiver = "load" => LoadedTo(First - Len(message.names) + loaded)

StreamInv ==
  /\ asked = <<>>
  /\ StreamTypes /\ Packed /\ Channel
  /\ sender # "failed" /\ receiver # "false" => Arrived
  /\ sender # "failed" => \A p \in Params : weights[p] # Corrupt
  /\ outcome = "success" => sender = "done" /\ receiver = "true"

TransferTypes ==
  /\ weights \in [Params -> Int] /\ refit \in Nat \ {0}
  /\ outcome \in {"none", "success", "error"}

USE RefitAssumption, StreamAssumption, BroadcastAssumption
-----------------------------------------------------------------------------
(* The stream. *)

LEMMA Kinds == /\ Nothing # Complete /\ Complete.kind = "complete" /\ Nothing.kind = "nothing"
               /\ \A b, ps : /\ Group(b, ps).kind = "group" /\ Group(b, ps).buffer = b
                             /\ Group(b, ps).names = ps
                             /\ Group(b, ps) # Nothing /\ Group(b, ps) # Complete
BY DEF Nothing, Complete, Group

LEMMA EmptyTyped ==
  /\ <<>> \in Seq(Params) /\ Len(<<>>) = 0
  /\ [b \in {0, 1} |-> <<>>] \in [{0, 1} -> Seq(Params)]
OBVIOUS

LEMMA StreamStarts ==
  ASSUME Ready, request = Nothing, reply = FALSE, asked = <<>>, outcome # "success",
         \A p \in Params : weights[p] # Corrupt
  PROVE  StreamInv
<1>1. StreamTypes /\ Packed
  BY DEF Ready, StreamTypes, Packed
<1>2. Channel /\ ~Asking
  BY Kinds DEF Ready, Channel, Asking
<1>3. Arrived
  BY <1>2 DEF Ready, Arrived, LoadedTo, First, Params
<1>4. QED
  BY <1>1, <1>2, <1>3 DEF StreamInv, Ready

LEMMA PackKeeps ==
  ASSUME TransferTypes, StreamInv, Pack, UNCHANGED <<refitVars, receiverVars, asked>>
  PROVE  StreamInv'
<1> USE DEF StreamInv, refitVars, receiverVars, Pack, channel
<1>1. /\ names' \in Seq(Params) /\ Len(names') = Len(names) + 1 /\ Len(names) \in Nat
      /\ \A i \in 1 .. Len(names) : names'[i] = names[i]
      /\ names'[Len(names) + 1] = next
  <2>1. names \in Seq(Params) /\ next \in Params
    BY DEF StreamTypes, NextFits, Params
  <2>2. QED
    BY <2>1, AppendProperties
<1>2. next \in Nat /\ next <= NumParams /\ Len(names) < next
  BY DEF StreamTypes, NextFits
<1>3. First' = First
  BY <1>1, <1>2 DEF First
<1>4. \A i \in 1 .. Len(names') : names'[i] = First + i - 1
  <2> TAKE i \in 1 .. Len(names')
  <2>1. CASE i \in 1 .. Len(names)
    BY <1>1, <2>1 DEF StreamTypes
  <2>2. CASE i = Len(names) + 1
    BY <1>1, <1>2, <2>2 DEF First
  <2>3. QED
    BY <1>1, <2>1, <2>2
<1>5. StreamTypes'
  BY <1>1, <1>2, <1>3, <1>4 DEF StreamTypes
<1>6. Packed'
  BY <1>1 DEF Packed, StreamTypes
<1>7. Channel' /\ Arrived' = Arrived
  BY <1>3 DEF Channel, Arrived, LoadedTo, Asking, Handle, Tells, Held
<1>8. QED
  BY <1>5, <1>6, <1>7

LEMMA CopyKeeps ==
  ASSUME TransferTypes, StreamInv, Copy, UNCHANGED <<refitVars, receiverVars, asked>>
  PROVE  StreamInv'
<1> USE DEF StreamInv, refitVars, receiverVars, Copy, channel
<1>1. names \in Seq(Params) /\ Len(names) \in Nat /\ copied + 1 \in 1 .. Len(names)
  BY DEF StreamTypes
<1> DEFINE part == SubSeq(names, 1, copied + 1)
<1>2. /\ part \in Seq(Params) /\ Len(part) = copied + 1
      /\ \A i \in 1 .. copied + 1 : part[i] = names[i]
  BY <1>1, SubSeqProperties
<1> HIDE DEF part
<1>3. buffers'[current] = part /\ buffers'[1 - current] = buffers[1 - current]
      /\ buffers' \in [{0, 1} -> Seq(Params)]
  BY <1>2 DEF StreamTypes, part
<1>4. First' = First
  BY DEF First
<1>5. StreamTypes'
  BY <1>1, <1>3, <1>4 DEF StreamTypes
<1>6. Packed'
  BY <1>1, <1>2, <1>3 DEF Packed
<1>7. Channel' /\ Arrived' = Arrived
  BY <1>3, <1>4 DEF Channel, Arrived, LoadedTo, Asking, Handle, Tells, Held
<1>8. QED
  BY <1>5, <1>6, <1>7

(* Freeing the buffers ends what the sender answers for.                   *)
LEMMA GivingUpKeeps ==
  ASSUME TransferTypes, StreamInv, TooLarge \/ SenderTimeout,
         UNCHANGED <<refitVars, receiverVars, asked>>
  PROVE  StreamInv'
<1> USE DEF StreamInv, refitVars, receiverVars, TooLarge, SenderTimeout, SenderWaits, AllSent, channel
<1>1. First' = First /\ sender' = "failed" /\ sender \notin {"failed", "done"}
  BY DEF First
<1>2. UNCHANGED <<next, names, copied, current, awaiting, request, reply>>
  OBVIOUS
<1>3. StreamTypes'
  <2>1. buffers' \in [{0, 1} -> Seq(Params)]
    BY EmptyTyped
  <2>2. QED
    BY <1>1, <1>2, <2>1 DEF StreamTypes
<1>4. Packed'
  BY <1>1, <1>2 DEF Packed
<1>5. Channel'
  BY <1>1, <1>2 DEF Channel, Asking, Handle, Tells
<1>6. outcome # "success"
  BY <1>1
<1>7. QED
  BY <1>1, <1>3, <1>4, <1>5, <1>6

LEMMA GroupReadyKeeps ==
  ASSUME TransferTypes, StreamInv, GroupReady, UNCHANGED <<refitVars, receiverVars, asked>>
  PROVE  StreamInv'
<1> USE DEF StreamInv, refitVars, receiverVars, GroupReady, channel
<1>1. First' = First
  BY DEF First
<1>2. StreamTypes' /\ Packed'
  BY <1>1 DEF StreamTypes, Packed
<1>3. Channel' /\ Arrived' = Arrived
  BY <1>1 DEF Channel, Arrived, LoadedTo, Asking, Handle, Tells, Held
<1>4. QED
  BY <1>2, <1>3

LEMMA SendKeeps ==
  ASSUME TransferTypes, StreamInv, Send, UNCHANGED <<refitVars, receiverVars, asked>>
  PROVE  StreamInv'
<1> USE DEF StreamInv, refitVars, receiverVars, Send
<1>1. /\ names \in Seq(Params) /\ Len(names) \in Nat /\ next \in Nat /\ Len(names) < next
      /\ copied = Len(names) /\ copied > 0
  BY EmptySeq DEF StreamTypes, Packed
<1>2. ~Asking /\ receiver # "load" /\ receiver \notin {"finish", "post", "true"}
  BY Kinds DEF Channel, Asking
<1>3. First' = next /\ Len(names') = 0
  BY <1>1 DEF First
<1>4. Tells(request)' /\ Held(request)'
  <2>1. /\ request'.kind = "group" /\ request'.buffer = current /\ request'.names = names
        /\ current' = 1 - current /\ 1 - current' = current
    BY Kinds DEF StreamTypes
  <2>2. Tells(request)'
    BY <1>1, <1>3, <2>1 DEF Tells, StreamTypes, First
  <2>3. Held(request)'
    BY <1>1, <2>1 DEF Held, Packed
  <2>4. QED
    BY <2>2, <2>3
<1>5. Asking' /\ request' # Nothing
  BY Kinds DEF Asking
<1>6. StreamTypes'
  <2>1. names' \in Seq(Params) /\ Len(names') < next'
    BY <1>1, <1>3, EmptyTyped
  <2>2. \A i \in 1 .. Len(names') : names'[i] = First' + i - 1
    BY <1>3
  <2>3. current' \in {0, 1}
    BY DEF StreamTypes
  <2>4. QED
    BY <2>1, <2>2, <2>3 DEF StreamTypes
<1>7. Packed'
  BY <1>3 DEF Packed
<1>8. Channel'
  BY <1>2, <1>4, <1>5 DEF Channel, Handle, Asking
<1>9. Arrived => Arrived'
  <2>1. request'.names = names /\ First = next - Len(names)
    BY Kinds DEF First
  <2>2. QED
    BY <1>2, <1>3, <1>5, <2>1 DEF Arrived, LoadedTo
<1>10. QED
  BY <1>6, <1>7, <1>8, <1>9

LEMMA SendCompleteKeeps ==
  ASSUME TransferTypes, StreamInv, SendComplete, UNCHANGED <<refitVars, receiverVars, asked>>
  PROVE  StreamInv'
<1> USE DEF StreamInv, refitVars, receiverVars, SendComplete, AllSent
<1>1. ~Asking /\ receiver \notin {"load", "finish", "post", "true"}
  BY Kinds DEF Channel, Asking
<1>2. First' = First /\ ~Asking'
  BY DEF First, Asking
<1>3. StreamTypes' /\ Packed'
  BY <1>2 DEF StreamTypes, Packed
<1>4. Channel'
  BY <1>1, <1>2 DEF Channel
<1>5. Arrived => Arrived'
  BY <1>1, <1>2 DEF Arrived, LoadedTo
<1>6. QED
  BY <1>3, <1>4, <1>5

LEMMA SenderDoneKeeps ==
  ASSUME TransferTypes, StreamInv, SenderDone, UNCHANGED <<refitVars, receiverVars, asked>>
  PROVE  StreamInv'
<1> USE DEF StreamInv, refitVars, receiverVars, SenderDone
<1>1. request = Nothing /\ receiver # "load" /\ ~Asking
  BY DEF Channel, Asking
<1>2. First' = First /\ ~Asking'
  BY <1>1 DEF First, Asking
<1>3. StreamTypes' /\ Packed'
  <2>1. buffers' \in [{0, 1} -> Seq(Params)]
    BY EmptyTyped
  <2>2. copied = 0
    BY EmptyTyped DEF Packed, StreamTypes
  <2>3. QED
    BY <1>2, <2>1, <2>2 DEF StreamTypes, Packed
<1>4. Channel'
  BY <1>1, <1>2 DEF Channel
<1>5. Arrived => Arrived'
  BY <1>1, <1>2 DEF Arrived, LoadedTo
<1>6. QED
  BY <1>3, <1>4, <1>5

LEMMA SenderKeeps ==
  ASSUME TransferTypes, StreamInv, StreamSenderStep, UNCHANGED asked
  PROVE  StreamInv'
BY PackKeeps, CopyKeeps, GivingUpKeeps, GroupReadyKeeps, SendKeeps, SendCompleteKeeps,
   SenderDoneKeeps DEF StreamSenderStep

LEMMA ReceiveKeeps ==
  ASSUME TransferTypes, StreamInv, Receive, UNCHANGED <<refit, outcome, size, senderVars, asked>>
  PROVE  StreamInv'
<1> USE DEF StreamInv, senderVars, Receive
<1>1. First' = First /\ request' = Nothing /\ ~Asking' /\ ~reply
  BY DEF First, Asking, Channel
<1>2. StreamTypes' /\ Packed'
  BY <1>1 DEF StreamTypes, Packed
<1>3. CASE request = Complete
  <2>1. Channel'
    BY <1>1, <1>3 DEF Channel
  <2>2. Arrived => Arrived'
    BY <1>1, <1>3 DEF Arrived, LoadedTo, Asking
  <2>3. QED
    BY <1>1, <1>2, <1>3, <2>1, <2>2
<1>4. CASE request # Complete
  <2>1. Asking /\ message' = request /\ receiver' = "load"
    BY <1>4 DEF Asking
  <2>2. Handle(message)' /\ loaded' <= Len(message'.names)
    <3>1. Handle(request)
      BY <2>1 DEF Channel
    <3>2. Handle(message)'
      BY <1>1, <2>1, <3>1 DEF Handle, Tells, Held
    <3>3. Len(message'.names) \in Nat
      BY <3>2 DEF Handle, Tells
    <3>4. QED
      BY <3>2, <3>3
  <2>3. sender \notin {"complete", "done"} /\ (sender \in {"pack", "await"} => awaiting)
    BY <2>1 DEF Channel
  <2>4. Channel'
    <3>1. UNCHANGED <<sender, awaiting, reply>> /\ request' = Nothing /\ receiver' = "load"
      BY <2>1
    <3>2. request' # Complete
      BY <3>1, Kinds
    <3>3. QED
      BY <1>1, <2>2, <2>3, <3>1, <3>2 DEF Channel
  <2>5. Arrived => Arrived'
    <3>1. First - Len(request.names) \in Int
      BY <2>1 DEF Channel, Handle, Tells, First, StreamTypes
    <3>2. QED
      BY <1>1, <2>1, <3>1 DEF Arrived, LoadedTo
  <2>6. QED
    BY <1>1, <1>2, <2>1, <2>4, <2>5
<1>5. QED
  BY <1>3, <1>4

(* The parameter is loaded from its place in the buffer that still holds   *)
(* the whole group.                                                        *)
LEMMA LoadKeeps ==
  ASSUME TransferTypes, StreamInv, Load, UNCHANGED <<refit, outcome, size, senderVars, asked>>
  PROVE  StreamInv'
<1> USE DEF StreamInv, senderVars, channel
<1>1. /\ receiver = "load" /\ loaded < Len(message.names) /\ loaded' = loaded + 1
      /\ UNCHANGED <<receiver, message, channel, failures>>
  BY DEF Load
<1>2. Handle(message) /\ loaded \in Nat /\ First \in Nat
  BY <1>1 DEF Channel, StreamTypes, First
<1>3. Len(message.names) \in Nat /\ loaded + 1 \in 1 .. Len(message.names)
  BY <1>1, <1>2 DEF Handle, Tells
<1> DEFINE p == message.names[loaded + 1]
<1>4. p = First - Len(message.names) + loaded /\ p \in Params
  <2>1. p = First - Len(message.names) + (loaded + 1) - 1 /\ Len(message.names) < First
    BY <1>2, <1>3 DEF Handle, Tells
  <2>2. First <= NumParams + 1
    BY DEF First, StreamTypes
  <2>3. PICK f, l : f = First /\ l = Len(message.names)
    OBVIOUS
  <2>4. f \in Nat /\ f <= NumParams + 1 /\ l \in Nat /\ loaded \in Nat /\ loaded + 1 \in 1 .. l /\ l < f
    BY <1>2, <1>3, <2>1, <2>2, <2>3
  <2>5. p = f - l + (loaded + 1) - 1
    BY <2>1, <2>3
  <2>6. p = f - l + loaded /\ p \in 1 .. NumParams
    <3> HIDE DEF p
    <3>1. QED
      BY <2>4, <2>5, RefitAssumption
  <2>7. QED
    BY <2>3, <2>6, Zenon DEF Params
<1>5. sender # "failed" => weights' = [weights EXCEPT ![p] = refit]
  <2>1. sender # "failed" => loaded < Len(buffers[message.buffer])
                             /\ buffers[message.buffer][loaded + 1] = p
    BY <1>1, <1>2, <1>3 DEF Handle, Held, Tells
  <2>2. QED
    BY <2>1 DEF Load
<1>6. \A q \in Params : q # p => weights'[q] = weights[q]
  BY <1>4 DEF TransferTypes, Load
<1>7. sender # "failed" => weights'[p] = refit
  BY <1>4, <1>5 DEF TransferTypes
<1> HIDE DEF p
<1>8. First' = First
  BY DEF First
<1>9. StreamTypes' /\ Packed'
  BY <1>1, <1>3, <1>8 DEF StreamTypes, Packed
<1>10. Channel'
  <2>1. Handle(message)'
    BY <1>1, <1>2, <1>8 DEF Handle, Tells, Held
  <2>2. loaded' <= Len(message'.names)
    BY <1>1, <1>3
  <2>3. ~Asking /\ ~Asking'
    BY <1>1 DEF Asking, Channel
  <2>4. QED
    BY <1>1, <2>1, <2>2, <2>3 DEF Channel
<1>11. sender # "failed" /\ Arrived => Arrived'
  <2> DEFINE m == First - Len(message.names)
  <2>1. m \in Int /\ p = m + loaded /\ loaded' = loaded + 1 /\ loaded \in Nat
    BY <1>1, <1>2, <1>3, <1>4
  <2> HIDE DEF m
  <2>2. \A q \in Params : q < m + loaded' => q = p \/ q < m + loaded
    BY <2>1 DEF Params
  <2>3. ASSUME sender # "failed", LoadedTo(m + loaded), NEW q \in Params, q < m + loaded'
        PROVE  weights'[q] = refit
    BY <1>6, <1>7, <2>3, <2>2 DEF LoadedTo
  <2>4. ~Asking /\ ~Asking'
    BY <1>1 DEF Asking, Channel
  <2>5. QED
    BY <1>1, <1>8, <2>3, <2>4 DEF Arrived, LoadedTo, m
<1>12. sender # "failed" => \A q \in Params : weights'[q] # Corrupt
  BY <1>6, <1>7 DEF Corrupt, TransferTypes
<1>13. outcome # "success"
  BY <1>1
<1>14. QED
  BY <1>1, <1>9, <1>10, <1>11, <1>12, <1>13

LEMMA AcknowledgeKeeps ==
  ASSUME TransferTypes, StreamInv, Acknowledge,
         UNCHANGED <<refit, outcome, size, senderVars, asked>>
  PROVE  StreamInv'
<1> USE DEF StreamInv, senderVars, Acknowledge
<1>1. First' = First /\ request = Nothing /\ ~Asking /\ ~Asking'
  BY DEF First, Asking, Channel
<1>2. StreamTypes' /\ Packed'
  BY <1>1 DEF StreamTypes, Packed
<1>3. sender \in {"pack", "await"} => awaiting
  BY DEF Channel
<1>4. Channel'
  BY <1>1, <1>3, Kinds DEF Channel
<1>5. Arrived => Arrived'
  <2>1. First - Len(message.names) + loaded = First
    BY DEF Channel, Handle, Tells, StreamTypes, First
  <2>2. QED
    BY <1>1, <2>1 DEF Arrived, LoadedTo
<1>6. QED
  BY <1>2, <1>4, <1>5

LEMMA FinishKeeps ==
  ASSUME TransferTypes, StreamInv, AcknowledgeComplete \/ PostProcess \/ ReceiverFails,
         UNCHANGED <<refit, outcome, size, senderVars, asked>>
  PROVE  StreamInv'
<1> USE DEF StreamInv, senderVars, AcknowledgeComplete, PostProcess, ReceiverFails, channel
<1>1. First' = First /\ UNCHANGED <<request, weights, message, loaded>> /\ Asking' = Asking
  BY DEF First, Asking
<1>2. StreamTypes' /\ Packed'
  BY <1>1 DEF StreamTypes, Packed
<1>3. Channel'
  <2>1. \A m : Handle(m)' = Handle(m)
    BY <1>1 DEF Handle, Tells, Held
  <2>2. CASE AcknowledgeComplete
    <3>1. sender \in {"complete", "failed"} /\ request = Nothing /\ ~Asking
      BY <2>2 DEF Channel, StreamTypes, Asking
    <3>2. QED
      BY <1>1, <2>2, <3>1 DEF Channel
  <2>3. CASE PostProcess
    BY <1>1, <2>1, <2>3 DEF Channel, Handle, Tells, Held
  <2>4. CASE ReceiverFails
    BY <1>1, <2>1, <2>4 DEF Channel, Handle, Tells, Held
  <2>5. QED
    BY <2>2, <2>3, <2>4
<1>4. receiver' # "false" => receiver \notin {"false", "load"} /\ (Arrived => Arrived')
  BY <1>1 DEF Arrived, LoadedTo
<1>5. outcome # "success"
  OBVIOUS
<1>6. QED
  BY <1>1, <1>2, <1>3, <1>4, <1>5

LEMMA ReceiverKeeps ==
  ASSUME TransferTypes, StreamInv, StreamReceiverStep, UNCHANGED asked
  PROVE  StreamInv'
BY ReceiveKeeps, LoadKeeps, AcknowledgeKeeps, FinishKeeps DEF StreamReceiverStep
-----------------------------------------------------------------------------
(* The broadcast. *)

(***************************************************************************)
(* The inductive invariant of the broadcast.  The groups of either side    *)
(* cut the parameters at increasing places, and where one begins decides   *)
(* where it ends, from the sizes alone: so the two sides cut alike however *)
(* far either is.                                                          *)
(***************************************************************************)
TotalOf(sizes, group) == MapThenSumSet(LAMBDA p : sizes[p], group)

Closing(sizes, taken) ==
  LET rest == Params \ taken
      upTo(p) == {q \in rest : q <= p}
  IN  upTo(Min({p \in rest : TotalOf(sizes, upTo(p)) > Target \/ p = NumParams}))

Cuts(s, cut) ==
  /\ cut[0] = 0 /\ Taken(s) = 1 .. cut[Len(s)]
  /\ \A g \in 1 .. Len(s) :
       /\ g <= cut[g] /\ cut[g - 1] < cut[g]
       /\ s[g] = cut[g - 1] + 1 .. cut[g] /\ s[g] = Closing(bytes, 1 .. cut[g - 1])

Laid(s) == s \in Seq(SUBSET Params) /\ \E cut \in [0 .. Len(s) -> 0 .. NumParams] : Cuts(s, cut)

Agreed == \A g \in 1 .. Len(sent) : g <= Len(asked) => sent[g] = asked[g]

(* What of a group that was asked for is loaded is its beginning.          *)
InOrder ==
  /\ unpacked \in [Params -> Nat]
  /\ \A g \in Params : g > carried => unpacked[g] = 0
  /\ \A g \in 1 .. Len(asked) :
       /\ unpacked[g] <= Cardinality(asked[g])
       /\ \A p \in asked[g] : p < Min(asked[g]) + unpacked[g] => weights[p] = refit

HostsInv ==
  /\ producer \in {"send", "done", "failed"} /\ consumer \in {"ask", "true", "false"}
  /\ Laid(sent) /\ Laid(asked) /\ Agreed
  /\ producer = "done" => Taken(sent) = Params
  /\ consumer = "true" => Taken(asked) = Params

BroadcastInv ==
  /\ HostsInv
  /\ carried \in Nat /\ carried <= Len(sent) /\ carried <= Len(asked)
  /\ InOrder /\ OwedAreLast
  /\ \A p \in Params : weights[p] # Corrupt
  /\ outcome = "success" => producer = "done" /\ consumer = "true"

LEMMA LeastOf ==
  ASSUME NEW S, S \subseteq Nat, S # {}
  PROVE  Min(S) \in S /\ \A x \in S : Min(S) <= x
<1>1. PICK s \in S : \A x \in S : <<x, s>> \notin OpToRel(<, Nat)
  BY WFMin, NatLessThanWellFounded, Zenon
<1>2. \A x \in S : ~(x < s)
  BY <1>1, Zenon DEF OpToRel
<1>3. \A x \in S : s <= x
  BY <1>2
<1>4. QED
  BY <1>3, Zenon DEF Min

LEMMA LeastOfInterval ==
  ASSUME NEW a \in Nat, NEW b \in Nat, a <= b
  PROVE  Min(a .. b) = a /\ Cardinality(a .. b) = b - a + 1
<1>1. a .. b \subseteq Nat /\ a \in a .. b
  OBVIOUS
<1>2. Min(a .. b) \in a .. b /\ Min(a .. b) <= a
  BY <1>1, LeastOf
<1>3. Cardinality(a .. b) = b - a + 1
  BY FS_Interval
<1>4. QED
  BY <1>2, <1>3

LEMMA NextClosing ==
  ASSUME NEW s
  PROVE  /\ NextGroup(SendingFull, s) = Closing(bytes, Taken(s))
         /\ NextGroup(ReceivingFull, s) = Closing(bytes, Taken(s))
<1>1. \A group : Total(group) = TotalOf(bytes, group)
  BY DEF Total, TotalOf
<1>2. QED
  BY <1>1 DEF NextGroup, SendingFull, ReceivingFull, Closing

(* A group goes on where those before it end.                              *)
LEMMA ClosingInterval ==
  ASSUME NEW sizes, NEW c \in 0 .. NumParams - 1
  PROVE  \E b \in c + 1 .. NumParams : Closing(sizes, 1 .. c) = c + 1 .. b
<1> DEFINE rest == Params \ (1 .. c)
           upTo(p) == {q \in rest : q <= p}
           ends == {p \in rest : TotalOf(sizes, upTo(p)) > Target \/ p = NumParams}
<1>1. rest = c + 1 .. NumParams
  BY DEF Params
<1>2. ends \subseteq Nat /\ NumParams \in ends
  BY <1>1
<1>3. Min(ends) \in ends
  <2> HIDE DEF ends
  <2> QED
    BY <1>2, LeastOf
<1>4. Min(ends) \in c + 1 .. NumParams
  BY <1>1, <1>3
<1>5. Closing(sizes, 1 .. c) = upTo(Min(ends))
  BY DEF Closing
<1>6. upTo(Min(ends)) = c + 1 .. Min(ends)
  <2> DEFINE m == Min(ends)
  <2> HIDE DEF m
  <2>1. m \in c + 1 .. NumParams
    BY <1>4 DEF m
  <2>2. upTo(m) = c + 1 .. m
    BY <1>1, <2>1
  <2>3. QED
    BY <2>2 DEF m
<1>7. QED
  BY <1>4, <1>5, <1>6

LEMMA TakenAppend ==
  ASSUME NEW s \in Seq(SUBSET Params), NEW e \in SUBSET Params
  PROVE  Taken(Append(s, e)) = Taken(s) \cup e
<1> DEFINE t == Append(s, e)
<1>1. /\ t \in Seq(SUBSET Params) /\ Len(t) = Len(s) + 1
      /\ \A i \in 1 .. Len(s) : t[i] = s[i]
      /\ t[Len(s) + 1] = e
  BY AppendProperties
<1>2. DOMAIN s = 1 .. Len(s) /\ Len(s) \in Nat /\ DOMAIN t = 1 .. Len(s) + 1
  BY <1>1, LenProperties
<1> HIDE DEF t
<1>3. Taken(t) = Taken(s) \cup e
  BY <1>1, <1>2 DEF Taken
<1>4. QED
  BY <1>3 DEF t

LEMMA LaidEmpty == Laid(<<>>)
<1> DEFINE cut == [k \in 0 .. 0 |-> 0]
           none == <<>>
<1>1. none \in Seq(SUBSET Params) /\ Len(none) = 0 /\ DOMAIN none = {}
  OBVIOUS
<1> HIDE DEF none
<1>2. Taken(none) = {}
  BY <1>1 DEF Taken
<1>3. cut \in [0 .. Len(none) -> 0 .. NumParams]
  BY <1>1
<1>4. Cuts(none, cut)
  BY <1>1, <1>2 DEF Cuts
<1>5. Laid(none)
  BY <1>1, <1>3, <1>4 DEF Laid
<1>6. QED
  BY <1>5 DEF none

LEMMA LaidAppend ==
  ASSUME NEW s, Laid(s), Taken(s) # Params
  PROVE  Laid(Append(s, Closing(bytes, Taken(s))))
<1>1. s \in Seq(SUBSET Params) /\ Len(s) \in Nat
  BY DEF Laid
<1>2. PICK cut \in [0 .. Len(s) -> 0 .. NumParams] : Cuts(s, cut)
  BY DEF Laid
<1> DEFINE c == cut[Len(s)]
<1>3. c \in 0 .. NumParams - 1 /\ Taken(s) = 1 .. c
  <2>1. c \in 0 .. NumParams /\ Taken(s) = 1 .. c
    BY <1>1, <1>2 DEF Cuts
  <2>2. c # NumParams
    BY <2>1 DEF Params
  <2>3. QED
    BY <2>1, <2>2
<1>4. PICK b \in c + 1 .. NumParams : Closing(bytes, 1 .. c) = c + 1 .. b
  <2> HIDE DEF c
  <2> QED
    BY <1>3, ClosingInterval
<1> DEFINE e == c + 1 .. b
           t == Append(s, e)
           longer == [k \in 0 .. Len(s) + 1 |-> IF k = Len(s) + 1 THEN b ELSE cut[k]]
<1>5. e \subseteq Params /\ e = Closing(bytes, Taken(s))
  BY <1>3, <1>4 DEF Params
<1>6. /\ t \in Seq(SUBSET Params) /\ Len(t) = Len(s) + 1
      /\ \A i \in 1 .. Len(s) : t[i] = s[i]
      /\ t[Len(s) + 1] = e
  <2> HIDE DEF e
  <2> QED
    BY <1>1, <1>5, AppendProperties
<1>7. Taken(t) = 1 .. b
  <2>1. Taken(t) = Taken(s) \cup e
    <3> HIDE DEF e
    <3> QED
      BY <1>1, <1>5, TakenAppend
  <2>2. (1 .. c) \cup (c + 1 .. b) = 1 .. b
    <3> HIDE DEF c
    <3> QED
      BY <1>3
  <2>3. QED
    BY <1>3, <2>1, <2>2
<1>8. c <= NumParams /\ Len(s) <= c
  BY <1>1, <1>2, <1>3 DEF Cuts
<1>9. longer \in [0 .. Len(t) -> 0 .. NumParams]
  BY <1>1, <1>3, <1>6
<1>10. /\ longer[Len(s) + 1] = b /\ longer[Len(s)] = c
       /\ \A k \in 0 .. Len(s) : longer[k] = cut[k]
  BY <1>1
<1> HIDE DEF longer, t, c
<1>11. Cuts(t, longer)
  <2>1. longer[0] = 0 /\ Taken(t) = 1 .. longer[Len(t)]
    BY <1>1, <1>2, <1>6, <1>7, <1>10 DEF Cuts
  <2>2. ASSUME NEW g \in 1 .. Len(t)
        PROVE  /\ g <= longer[g] /\ longer[g - 1] < longer[g]
               /\ t[g] = longer[g - 1] + 1 .. longer[g]
               /\ t[g] = Closing(bytes, 1 .. longer[g - 1])
    <3>1. CASE g \in 1 .. Len(s)
      <4>1. longer[g] = cut[g] /\ longer[g - 1] = cut[g - 1] /\ t[g] = s[g]
        BY <1>1, <1>6, <1>10, <3>1
      <4>2. QED
        BY <1>2, <3>1, <4>1 DEF Cuts
    <3>2. CASE g = Len(s) + 1
      BY <1>1, <1>3, <1>4, <1>6, <1>8, <1>10, <3>2
    <3>3. QED
      BY <1>1, <1>6, <3>1, <3>2
  <2>3. QED
    BY <2>1, <2>2 DEF Cuts
<1>12. Laid(t)
  BY <1>6, <1>9, <1>11 DEF Laid
<1>13. t = Append(s, Closing(bytes, Taken(s)))
  BY <1>5 DEF t
<1>14. QED
  BY <1>12, <1>13

LEMMA GroupsOf ==
  ASSUME NEW s, Laid(s), NEW g \in 1 .. Len(s)
  PROVE  /\ g \in Params /\ s[g] \subseteq Params
         /\ \E a, b \in Params : /\ a <= b /\ s[g] = a .. b
                                 /\ Min(s[g]) = a /\ Cardinality(s[g]) = b - a + 1
<1>1. Len(s) \in Nat
  BY DEF Laid
<1>2. PICK cut \in [0 .. Len(s) -> 0 .. NumParams] : Cuts(s, cut)
  BY DEF Laid
<1> DEFINE a == cut[g - 1] + 1
           b == cut[g]
<1>3. /\ g <= cut[g] /\ cut[g - 1] < cut[g] /\ s[g] = a .. b
      /\ cut[g - 1] \in 0 .. NumParams /\ cut[g] \in 0 .. NumParams
  BY <1>1, <1>2 DEF Cuts
<1>4. a \in Params /\ b \in Params /\ a <= b /\ g \in Params
  BY <1>1, <1>3 DEF Params
<1> HIDE DEF a, b
<1>5. a \in Nat /\ b \in Nat
  BY <1>4 DEF Params
<1>6. Min(s[g]) = a /\ Cardinality(s[g]) = b - a + 1
  BY <1>3, <1>4, <1>5, LeastOfInterval
<1>7. s[g] \subseteq Params
  BY <1>3, <1>4 DEF Params
<1>8. QED
  BY <1>3, <1>4, <1>6, <1>7

(* The side that is behind makes the group that the other has made.        *)
LEMMA NextAgrees ==
  ASSUME NEW s, NEW t, Laid(s), Laid(t), Len(s) < Len(t),
         \A g \in 1 .. Len(s) : s[g] = t[g]
  PROVE  t[Len(s) + 1] = Closing(bytes, Taken(s))
<1>1. Len(s) \in Nat /\ Len(t) \in Nat
  BY DEF Laid
<1>2. PICK cs \in [0 .. Len(s) -> 0 .. NumParams] : Cuts(s, cs)
  BY DEF Laid
<1>3. PICK ct \in [0 .. Len(t) -> 0 .. NumParams] : Cuts(t, ct)
  BY DEF Laid
<1> DEFINE n == Len(s)
<1>4. cs[n] = ct[n]
  <2>1. CASE n = 0
    BY <1>2, <1>3, <2>1 DEF Cuts
  <2>2. CASE n # 0
    <3>1. n \in 1 .. Len(s) /\ n \in 1 .. Len(t) /\ n - 1 \in 0 .. Len(s) /\ n - 1 \in 0 .. Len(t)
      BY <1>1, <2>2
    <3>2. s[n] = cs[n - 1] + 1 .. cs[n] /\ cs[n - 1] < cs[n]
      BY <1>2, <3>1 DEF Cuts
    <3>3. s[n] = ct[n - 1] + 1 .. ct[n] /\ ct[n - 1] < ct[n]
      BY <1>3, <3>1 DEF Cuts
    <3>4. cs[n] \in Nat /\ ct[n] \in Nat /\ cs[n - 1] \in Nat /\ ct[n - 1] \in Nat
      <4>1. 0 .. NumParams \subseteq Nat /\ n \in 0 .. Len(s) /\ n \in 0 .. Len(t)
        BY <3>1
      <4>2. /\ cs[n] \in 0 .. NumParams /\ ct[n] \in 0 .. NumParams
            /\ cs[n - 1] \in 0 .. NumParams /\ ct[n - 1] \in 0 .. NumParams
        BY <1>2, <1>3, <3>1, <4>1
      <4>3. QED
        BY <4>1, <4>2
    <3> DEFINE i == cs[n]
               j == ct[n]
    <3>5. i \in s[n] /\ j \in s[n]
      BY <3>2, <3>3, <3>4
    <3>6. i <= j /\ j <= i
      BY <3>2, <3>3, <3>4, <3>5
    <3>7. QED
      BY <3>4, <3>6
  <2>3. QED
    BY <2>1, <2>2
<1>5. Taken(s) = 1 .. ct[n]
  BY <1>2, <1>4 DEF Cuts
<1>6. n + 1 \in 1 .. Len(t) /\ (n + 1) - 1 = n
  BY <1>1
<1>7. t[n + 1] = Closing(bytes, 1 .. ct[n])
  BY <1>3, <1>6 DEF Cuts
<1>8. QED
  BY <1>5, <1>7

LEMMA AppendGroup ==
  ASSUME NEW s, Laid(s), Taken(s) # Params
  PROVE  LET t == Append(s, Closing(bytes, Taken(s)))
         IN  /\ Laid(t) /\ Len(t) = Len(s) + 1 /\ DOMAIN t = 1 .. Len(s) + 1
             /\ \A i \in 1 .. Len(s) : t[i] = s[i]
             /\ t[Len(s) + 1] = Closing(bytes, Taken(s))
<1> DEFINE e == Closing(bytes, Taken(s))
<1>1. s \in Seq(SUBSET Params) /\ Len(s) \in Nat
  BY DEF Laid
<1>2. Laid(Append(s, e))
  BY LaidAppend
<1>3. e \in SUBSET Params
  <2>1. PICK cut \in [0 .. Len(s) -> 0 .. NumParams] : Cuts(s, cut)
    BY DEF Laid
  <2>2. cut[Len(s)] \in 0 .. NumParams - 1
    <3>1. cut[Len(s)] \in 0 .. NumParams
      BY <1>1, <2>1
    <3>2. cut[Len(s)] # NumParams
      BY <2>1 DEF Cuts, Params
    <3>3. QED
      BY <3>1, <3>2
  <2>3. Taken(s) = 1 .. cut[Len(s)]
    BY <2>1 DEF Cuts
  <2>4. QED
    BY <2>2, <2>3, ClosingInterval DEF Params
<1> HIDE DEF e
<1>4. /\ Len(Append(s, e)) = Len(s) + 1 /\ DOMAIN Append(s, e) = 1 .. Len(s) + 1
      /\ \A i \in 1 .. Len(s) : Append(s, e)[i] = s[i]
      /\ Append(s, e)[Len(s) + 1] = e
  BY <1>1, <1>3, AppendProperties, LenProperties
<1>5. QED
  BY <1>2, <1>4 DEF e

LEMMA SendGroupKeeps ==
  ASSUME HostsInv, SendGroup, UNCHANGED bytes
  PROVE  /\ HostsInv' /\ Len(sent') = Len(sent) + 1 /\ DOMAIN sent' = 1 .. Len(sent) + 1
         /\ \A i \in 1 .. Len(sent) : sent'[i] = sent[i]
<1> USE DEF SendGroup, consumerVars
<1>1. sent' = Append(sent, Closing(bytes, Taken(sent)))
  BY NextClosing
<1>2. /\ Laid(sent)' /\ Len(sent') = Len(sent) + 1 /\ DOMAIN sent' = 1 .. Len(sent) + 1
      /\ \A i \in 1 .. Len(sent) : sent'[i] = sent[i]
      /\ sent'[Len(sent) + 1] = Closing(bytes, Taken(sent))
  <2>1. Laid(sent)' <=> Laid(sent')
    BY DEF Laid, Cuts
  <2>2. QED
    BY <1>1, <2>1, AppendGroup DEF HostsInv
<1>3. Laid(asked)'
  <2>1. UNCHANGED <<asked, bytes>>
    OBVIOUS
  <2>2. Laid(asked)' <=> Laid(asked)
    BY <2>1 DEF Laid, Cuts
  <2>3. QED
    BY <2>2 DEF HostsInv
<1>4. Len(sent) \in Nat /\ Len(asked) \in Nat
  BY DEF Laid, HostsInv
<1>5. Agreed'
  <2> SUFFICES ASSUME NEW g \in 1 .. Len(sent'), g <= Len(asked)
               PROVE  sent'[g] = asked[g]
    BY DEF Agreed
  <2>1. CASE g \in 1 .. Len(sent)
    BY <1>2, <2>1 DEF HostsInv, Agreed
  <2>2. CASE g = Len(sent) + 1
    <3>1. Len(sent) < Len(asked) /\ \A i \in 1 .. Len(sent) : sent[i] = asked[i]
      BY <1>4, <2>2 DEF HostsInv, Agreed
    <3>2. QED
      BY <1>2, <2>2, <3>1, NextAgrees DEF HostsInv
  <2>3. QED
    BY <1>2, <1>4, <2>1, <2>2
<1>6. QED
  BY <1>2, <1>3, <1>5 DEF HostsInv

LEMMA AskGroupKeeps ==
  ASSUME HostsInv, AskGroup, UNCHANGED bytes
  PROVE  /\ HostsInv' /\ Laid(asked')
         /\ Len(asked') = Len(asked) + 1 /\ DOMAIN asked' = 1 .. Len(asked) + 1
         /\ \A i \in 1 .. Len(asked) : asked'[i] = asked[i]
<1> USE DEF AskGroup, producerVars
<1>1. asked' = Append(asked, Closing(bytes, Taken(asked)))
  BY NextClosing
<1>2. /\ Laid(asked)' /\ Laid(asked')
      /\ Len(asked') = Len(asked) + 1 /\ DOMAIN asked' = 1 .. Len(asked) + 1
      /\ \A i \in 1 .. Len(asked) : asked'[i] = asked[i]
      /\ asked'[Len(asked) + 1] = Closing(bytes, Taken(asked))
  <2>1. Laid(asked)' <=> Laid(asked')
    BY DEF Laid, Cuts
  <2>2. QED
    BY <1>1, <2>1, AppendGroup DEF HostsInv
<1>3. Laid(sent)'
  <2>1. UNCHANGED <<sent, bytes>>
    OBVIOUS
  <2>2. Laid(sent)' <=> Laid(sent)
    BY <2>1 DEF Laid, Cuts
  <2>3. QED
    BY <2>2 DEF HostsInv
<1>4. Len(sent) \in Nat /\ Len(asked) \in Nat
  BY DEF Laid, HostsInv
<1>5. Agreed'
  <2> SUFFICES ASSUME NEW g \in 1 .. Len(sent), g <= Len(asked')
               PROVE  sent[g] = asked'[g]
    BY DEF Agreed
  <2>1. CASE g \in 1 .. Len(asked)
    BY <1>2, <2>1 DEF HostsInv, Agreed
  <2>2. CASE g = Len(asked) + 1
    <3>1. Len(asked) < Len(sent) /\ \A i \in 1 .. Len(asked) : asked[i] = sent[i]
      BY <1>4, <2>2 DEF HostsInv, Agreed
    <3>2. QED
      BY <1>2, <2>2, <3>1, NextAgrees DEF HostsInv
  <2>3. QED
    BY <1>2, <1>4, <2>1, <2>2
<1>6. QED
  BY <1>2, <1>3, <1>5 DEF HostsInv

LEMMA HostsEnd ==
  ASSUME HostsInv, SendEnds \/ AskEnds \/ SendFails \/ AskFails, UNCHANGED bytes
  PROVE  HostsInv'
<1>1. UNCHANGED <<bytes, sent, asked>>
  BY DEF SendEnds, AskEnds, SendFails, AskFails, producerVars, consumerVars
<1>2. Laid(sent)' /\ Laid(asked)' /\ Agreed'
  <2>1. (Laid(sent)' <=> Laid(sent)) /\ (Laid(asked)' <=> Laid(asked))
    BY <1>1 DEF Laid, Cuts, Taken
  <2>2. Agreed' <=> Agreed
    BY <1>1 DEF Agreed
  <2>3. QED
    BY <2>1, <2>2 DEF HostsInv
<1>3. Taken(sent)' = Taken(sent) /\ Taken(asked)' = Taken(asked)
  BY <1>1
<1>4. CASE SendEnds \/ SendFails
  BY <1>2, <1>3, <1>4 DEF HostsInv, SendEnds, SendFails, consumerVars
<1>5. CASE AskEnds \/ AskFails
  BY <1>2, <1>3, <1>5 DEF HostsInv, AskEnds, AskFails, producerVars
<1>6. QED
  BY <1>4, <1>5

LEMMA HostsOfSame ==
  ASSUME HostsInv, UNCHANGED <<bytes, producer, sent, consumer, asked>>
  PROVE  HostsInv'
<1>1. (Laid(sent)' <=> Laid(sent)) /\ (Laid(asked)' <=> Laid(asked))
  BY DEF Laid, Cuts, Taken
<1>2. (Agreed' <=> Agreed) /\ Taken(sent)' = Taken(sent) /\ Taken(asked)' = Taken(asked)
  BY DEF Agreed
<1>3. QED
  BY <1>1, <1>2 DEF HostsInv

LEMMA BroadcastStarts ==
  ASSUME producer = "send", sent = <<>>, consumer = "ask", asked = <<>>, carried = 0,
         unpacked = [g \in Params |-> 0], outcome # "success",
         \A p \in Params : weights[p] # Corrupt
  PROVE  BroadcastInv
<1>1. Laid(sent) /\ Laid(asked) /\ Len(sent) = 0 /\ Len(asked) = 0 /\ DOMAIN asked = {}
  BY LaidEmpty
<1>2. Agreed /\ InOrder /\ OwedAreLast
  BY <1>1 DEF Agreed, InOrder, OwedAreLast
<1>3. QED
  BY <1>1, <1>2 DEF BroadcastInv, HostsInv

LEMMA SendKeepsBroadcast ==
  ASSUME TransferTypes, BroadcastInv, SendGroup, UNCHANGED <<refit, outcome, bytes>>
  PROVE  BroadcastInv'
<1> USE DEF BroadcastInv
<1>1. HostsInv' /\ Len(sent') = Len(sent) + 1
  BY SendGroupKeeps
<1>2. UNCHANGED <<consumer, asked, carried, unpacked, weights, producer>> /\ producer = "send"
  BY DEF SendGroup, consumerVars
<1>3. InOrder' <=> InOrder
  BY <1>2 DEF InOrder
<1>4. OwedAreLast' <=> OwedAreLast
  BY <1>2 DEF OwedAreLast, Unpacked
<1>5. Len(sent) \in Nat
  BY DEF HostsInv, Laid
<1>6. QED
  BY <1>1, <1>2, <1>3, <1>4, <1>5

LEMMA AskKeepsBroadcast ==
  ASSUME TransferTypes, BroadcastInv, AskGroup, UNCHANGED <<refit, outcome, bytes>>
  PROVE  BroadcastInv'
<1> USE DEF BroadcastInv
<1>1. /\ HostsInv' /\ Laid(asked')
      /\ Len(asked') = Len(asked) + 1 /\ DOMAIN asked' = 1 .. Len(asked) + 1
      /\ \A i \in 1 .. Len(asked) : asked'[i] = asked[i]
  BY AskGroupKeeps
<1>2. UNCHANGED <<producer, sent, carried, unpacked, weights, consumer>> /\ consumer = "ask"
  BY DEF AskGroup, producerVars
<1>3. Len(asked) \in Nat /\ DOMAIN asked = 1 .. Len(asked)
  BY LenProperties DEF HostsInv, Laid
<1> DEFINE n == Len(asked) + 1
<1>4. n \in Params /\ unpacked[n] = 0 /\ n \in 1 .. Len(asked')
  <2>1. n \in Params
    BY <1>1, <1>3, GroupsOf
  <2>2. QED
    BY <1>1, <1>3, <2>1 DEF InOrder
<1>5. InOrder'
  <2>1. ASSUME NEW g \in 1 .. Len(asked')
        PROVE  /\ unpacked[g] <= Cardinality(asked'[g])
               /\ \A p \in asked'[g] : p < Min(asked'[g]) + unpacked[g] => weights[p] = refit
    <3>1. CASE g \in 1 .. Len(asked)
      BY <1>1, <3>1 DEF InOrder
    <3>2. CASE g = n
      <4>1. PICK a, b \in Params : /\ a <= b /\ asked'[n] = a .. b
                                   /\ Min(asked'[n]) = a /\ Cardinality(asked'[n]) = b - a + 1
        BY <1>1, <1>4, GroupsOf
      <4>2. unpacked[n] <= Cardinality(asked'[n])
        BY <1>4, <4>1 DEF Params
      <4>3. \A p \in asked'[n] : ~(p < Min(asked'[n]) + unpacked[n])
        BY <1>4, <4>1 DEF Params
      <4>4. QED
        BY <3>2, <4>2, <4>3
    <3>3. QED
      BY <1>1, <1>3, <3>1, <3>2
  <2>2. QED
    BY <1>2, <2>1 DEF InOrder
<1>6. OwedAreLast'
  <2> SUFFICES ASSUME NEW g \in (DOMAIN asked)' \ Unpacked'
               PROVE  g > Len(asked') - NumBuffers
    BY <1>2 DEF OwedAreLast
  <2>1. g \in 1 .. Len(asked) + 1 /\ unpacked[g] # Cardinality(asked'[g])
    BY <1>1, <1>2 DEF Unpacked
  <2>2. CASE g \in 1 .. Len(asked)
    <3>1. g \notin Unpacked
      BY <1>1, <2>1, <2>2 DEF Unpacked
    <3>2. g > Len(asked) - NumBuffers
      BY <1>3, <2>2, <3>1 DEF OwedAreLast
    <3>3. n > NumBuffers => n - NumBuffers \in Unpacked
      BY DEF AskGroup, Synchronized
    <3>4. g # n - NumBuffers
      BY <1>3, <2>2, <3>1, <3>3
    <3>5. QED
      BY <1>1, <1>3, <3>2, <3>4
  <2>3. CASE g = n
    BY <1>1, <1>3, <2>3
  <2>4. QED
    BY <1>3, <2>1, <2>2, <2>3
<1>7. QED
  BY <1>1, <1>2, <1>3, <1>5, <1>6

LEMMA EndKeepsBroadcast ==
  ASSUME TransferTypes, BroadcastInv, SendEnds \/ AskEnds \/ SendFails \/ AskFails,
         UNCHANGED <<refit, outcome, bytes>>
  PROVE  BroadcastInv'
<1> USE DEF BroadcastInv
<1>1. HostsInv'
  BY HostsEnd
<1>2. UNCHANGED <<sent, asked, carried, unpacked, weights>> /\ outcome # "success"
  BY DEF SendEnds, AskEnds, SendFails, AskFails, producerVars, consumerVars
<1>3. (InOrder' <=> InOrder) /\ (OwedAreLast' <=> OwedAreLast)
  BY <1>2 DEF InOrder, OwedAreLast, Unpacked
<1>4. QED
  BY <1>1, <1>2, <1>3

LEMMA CarryKeepsBroadcast ==
  ASSUME TransferTypes, BroadcastInv, Carry, UNCHANGED <<refit, outcome, bytes>>
  PROVE  BroadcastInv'
<1> USE DEF BroadcastInv, Carry, producerVars, consumerVars
<1>1. HostsInv'
  BY HostsOfSame
<1>2. Len(sent) \in Nat /\ Len(asked) \in Nat
  BY DEF HostsInv, Laid
<1>3. InOrder'
  <2>1. \A g \in Params : g > carried' => unpacked'[g] = 0
    BY DEF InOrder, Params
  <2>2. QED
    BY <2>1 DEF InOrder
<1>4. OwedAreLast' <=> OwedAreLast
  BY DEF OwedAreLast, Unpacked
<1>5. QED
  BY <1>1, <1>2, <1>3, <1>4

LEMMA UnpackKeepsBroadcast ==
  ASSUME TransferTypes, BroadcastInv, Unpack, UNCHANGED <<refit, outcome, bytes>>
  PROVE  /\ BroadcastInv' /\ weights' \in [Params -> Int]
         /\ \E q \in Params, g \in 1 .. carried :
              q \in asked[g] /\ weights' = [weights EXCEPT ![q] = refit]
<1> USE DEF BroadcastInv
<1>1. UNCHANGED <<producer, sent, consumer, asked, carried>>
  BY DEF Unpack, producerVars, consumerVars
<1>2. Len(sent) \in Nat /\ Len(asked) \in Nat /\ DOMAIN asked = 1 .. Len(asked)
  BY LenProperties DEF HostsInv, Laid
<1>3. PICK g \in 1 .. carried :
        /\ g \notin Unpacked
        /\ weights' = [weights EXCEPT ![Min(asked[g]) + unpacked[g]] = Crossing(g)]
        /\ unpacked' = [unpacked EXCEPT ![g] = @ + 1]
  BY DEF Unpack
<1>4. g \in 1 .. Len(asked) /\ g \in 1 .. Len(sent) /\ g \in Params
  <2>1. g \in 1 .. Len(asked) /\ g \in 1 .. Len(sent)
    BY <1>2
  <2>2. QED
    BY <2>1, GroupsOf DEF HostsInv
<1>5. Crossing(g) = refit
  BY <1>2, <1>4 DEF Crossing, HostsInv, Agreed
<1>6. PICK a, b \in Params : /\ a <= b /\ asked[g] = a .. b
                             /\ Min(asked[g]) = a /\ Cardinality(asked[g]) = b - a + 1
  BY <1>4, GroupsOf DEF HostsInv
<1> DEFINE q == a + unpacked[g]
<1>7. unpacked[g] \in Nat /\ unpacked[g] < b - a + 1
  <2>1. unpacked[g] \in Nat /\ unpacked[g] <= b - a + 1
    BY <1>4, <1>6 DEF InOrder
  <2>2. unpacked[g] # b - a + 1
    BY <1>2, <1>3, <1>4, <1>6 DEF Unpacked
  <2>3. QED
    BY <2>1, <2>2, <1>6 DEF Params
<1>8. q \in a .. b /\ q \in Params
  BY <1>6, <1>7 DEF Params
<1>9. weights' = [weights EXCEPT ![q] = refit]
  BY <1>3, <1>5, <1>6
<1> HIDE DEF q
<1>10. /\ weights' \in [Params -> Int] /\ weights'[q] = refit
       /\ \A p \in Params : weights'[p] = weights[p] \/ weights'[p] = refit
       /\ \A p \in Params : weights[p] = refit => weights'[p] = refit
  BY <1>8, <1>9 DEF TransferTypes
<1>11. /\ unpacked' \in [Params -> Nat] /\ unpacked'[g] = unpacked[g] + 1
       /\ \A h \in Params : h # g => unpacked'[h] = unpacked[h]
  <2>1. unpacked \in [Params -> Nat]
    BY DEF InOrder
  <2>2. QED
    BY <1>3, <1>4, <1>7, <2>1
<1>12. HostsInv'
  BY <1>1, HostsOfSame
<1>13. InOrder'
  <2>1. \A h \in Params : h > carried => unpacked'[h] = 0
    BY <1>11 DEF InOrder
  <2>2. ASSUME NEW h \in 1 .. Len(asked)
        PROVE  /\ unpacked'[h] <= Cardinality(asked[h])
               /\ \A p \in asked[h] : p < Min(asked[h]) + unpacked'[h] => weights'[p] = refit
    <3>1. h \in Params /\ asked[h] \subseteq Params
      BY GroupsOf DEF HostsInv
    <3>2. CASE h # g
      BY <1>10, <1>11, <3>1, <3>2 DEF InOrder
    <3>3. CASE h = g
      <4>1. unpacked'[g] <= b - a + 1
        <5>1. \A x, y \in Int, u \in Nat : u < y - x + 1 => u + 1 <= y - x + 1
          OBVIOUS
        <5>2. a \in Int /\ b \in Int
          BY DEF Params
        <5>3. QED
          BY <1>7, <1>11, <5>1, <5>2
      <4>2. ASSUME NEW p \in a .. b, p < a + unpacked'[g]
            PROVE  weights'[p] = refit
        <5>1. p \in Params
          BY <1>6, <3>1, <3>3
        <5>2. CASE p = q
          BY <1>10, <5>2
        <5>3. CASE p # q
          <6>1. p < a + unpacked[g]
            <7> DEFINE u == unpacked[g]
            <7>1. u \in Nat /\ p < a + (u + 1) /\ p # a + u
              BY <1>7, <1>11, <4>2, <5>3 DEF q
            <7>2. a \in Nat /\ p \in Int
              BY <4>2 DEF Params
            <7> HIDE DEF u
            <7>3. p < a + u
              BY <7>1, <7>2
            <7>4. QED
              BY <7>3 DEF u
          <6>2. weights[p] = refit
            BY <1>4, <1>6, <6>1 DEF InOrder
          <6>3. QED
            BY <1>10, <5>1, <6>2
        <5>4. QED
          BY <5>2, <5>3
      <4>3. QED
        BY <1>6, <3>3, <4>1, <4>2
    <3>4. QED
      BY <3>2, <3>3
  <2>3. QED
    BY <1>1, <1>11, <2>1, <2>2 DEF InOrder
<1>14. OwedAreLast'
  <2>1. ASSUME NEW h \in DOMAIN asked, h \in Unpacked
        PROVE  h \in Unpacked'
    <3>1. h # g /\ h \in Params
      BY <1>2, <1>3, <2>1, GroupsOf DEF HostsInv
    <3>2. QED
      BY <1>1, <1>11, <2>1, <3>1 DEF Unpacked
  <2>2. QED
    BY <1>1, <2>1 DEF OwedAreLast
<1>15. \A p \in Params : weights'[p] # Corrupt
  BY <1>10 DEF TransferTypes, Corrupt
<1>16. BroadcastInv'
  BY <1>1, <1>12, <1>13, <1>14, <1>15
<1>17. q \in asked[g]
  BY <1>6, <1>8
<1>18. QED
  BY <1>8, <1>9, <1>10, <1>16, <1>17

LEMMA BroadcastKeeps ==
  ASSUME TransferTypes, BroadcastInv, HostStep \/ DeviceStep \/ BroadcastFails
  PROVE  BroadcastInv' /\ TransferTypes'
<1>1. UNCHANGED <<refit, outcome, bytes>>
  BY DEF HostStep, DeviceStep, BroadcastFails
<1>2. CASE Unpack
  BY <1>1, <1>2, UnpackKeepsBroadcast DEF TransferTypes
<1>3. CASE ~Unpack
  <2>1. weights' = weights
    BY <1>3 DEF HostStep, DeviceStep, BroadcastFails, Hosts, Devices, SendGroup, SendEnds, AskGroup,
                AskEnds, SendFails, AskFails, Carry
  <2>2. SendGroup \/ AskGroup \/ SendEnds \/ AskEnds \/ SendFails \/ AskFails \/ Carry
    BY <1>3 DEF HostStep, DeviceStep, BroadcastFails, Hosts, Devices
  <2>3. BroadcastInv'
    BY <1>1, <2>2, SendKeepsBroadcast, AskKeepsBroadcast, EndKeepsBroadcast, CarryKeepsBroadcast
  <2>4. QED
    BY <1>1, <2>1, <2>3 DEF TransferTypes
<1>4. QED
  BY <1>2, <1>3

-----------------------------------------------------------------------------
(* Both transports. *)

(***************************************************************************)
(* The inductive invariant of the refit: that of the path which is taken.  *)
(***************************************************************************)
TransferInv ==
  /\ TransferTypes
  /\ colocated \in BOOLEAN
  /\ colocated => StreamInv
  /\ ~colocated => BroadcastInv

StreamFresh ==
  /\ Ready /\ request = Nothing /\ reply = FALSE /\ asked = <<>> /\ outcome # "success"
  /\ \A p \in Params : weights[p] # Corrupt

BroadcastFresh ==
  /\ producer = "send" /\ sent = <<>> /\ consumer = "ask" /\ asked = <<>> /\ carried = 0
  /\ unpacked = [g \in Params |-> 0] /\ outcome # "success"
  /\ \A p \in Params : weights[p] # Corrupt

LEMMA FreshStream == StreamFresh => StreamInv
BY StreamStarts DEF StreamFresh

LEMMA FreshStreamNext == StreamFresh' => StreamInv'
BY FreshStream, PTL

LEMMA FreshBroadcast == BroadcastFresh => BroadcastInv
BY BroadcastStarts DEF BroadcastFresh

LEMMA FreshBroadcastNext == BroadcastFresh' => BroadcastInv'
BY FreshBroadcast, PTL

LEMMA TransferStarts == TransferInit => TransferInv
<1> SUFFICES ASSUME TransferInit PROVE TransferInv
  OBVIOUS
<1>1. TransferTypes /\ outcome # "success" /\ \A p \in Params : weights[p] # Corrupt
  BY DEF TransferInit, RefitInit, TransferTypes, Corrupt
<1>2. CASE colocated = TRUE
  <2>1. StreamFresh
    BY <1>1, <1>2 DEF TransferInit, StreamInit, StreamReady, BroadcastReady, StreamFresh
  <2>2. QED
    BY <1>1, <1>2, <2>1, FreshStream DEF TransferInv
<1>3. CASE colocated = FALSE
  <2>1. BroadcastFresh
    BY <1>1, <1>3 DEF TransferInit, BroadcastInit, BroadcastReady, BroadcastFresh
  <2>2. QED
    BY <1>1, <1>3, <2>1, FreshBroadcast DEF TransferInv
<1>4. QED
  BY <1>2, <1>3 DEF TransferInit

LEMMA AgainKeeps ==
  ASSUME TransferInv, Again
  PROVE  TransferInv'
<1>1. UNCHANGED <<weights, channel, colocated>> /\ outcome' = "none" /\ refit' = refit + 1
  BY DEF Again
<1>2. TransferTypes'
  BY <1>1 DEF TransferInv, TransferTypes
<1>3. \A p \in Params : weights'[p] # Corrupt
  BY <1>1 DEF TransferInv, StreamInv, BroadcastInv, Again
<1>4. CASE colocated
  <2>1. request = Nothing /\ ~reply
    BY <1>4 DEF TransferInv, StreamInv, Channel, Again
  <2>2. reply' = FALSE
    BY <1>1, <1>4, <2>1 DEF TransferInv, StreamInv, StreamTypes, channel
  <2>3. Ready'
    BY DEF Again, Ready
  <2>4. request' = Nothing /\ asked' = <<>> /\ outcome' # "success"
    BY <1>1, <2>1 DEF Again, channel
  <2>5. StreamFresh'
    BY <1>3, <2>2, <2>3, <2>4 DEF StreamFresh
  <2>6. QED
    BY <1>1, <1>2, <1>4, <2>5, FreshStreamNext DEF TransferInv
<1>5. CASE ~colocated
  <2>1. BroadcastFresh'
    BY <1>1, <1>3 DEF Again, BroadcastFresh
  <2>2. QED
    BY <1>1, <1>2, <1>5, <2>1, FreshBroadcastNext DEF TransferInv
<1>6. QED
  BY <1>4, <1>5

LEMMA EndKeeps ==
  ASSUME TransferInv, Succeed \/ Fail
  PROVE  TransferInv'
<1>1. UNCHANGED <<weights, refit, streamVars, broadcastVars, colocated>>
  BY DEF Succeed, Fail
<1>2. /\ outcome' \in {"success", "error"}
      /\ outcome' = "success" => IF colocated THEN sender = "done" /\ receiver = "true"
                                 ELSE producer = "done" /\ consumer = "true"
  BY DEF Succeed, Fail
<1>3. UNCHANGED <<size, sender, next, names, used, copied, current, awaiting, buffers, request, reply,
                  receiver, message, loaded>>
  BY <1>1 DEF streamVars, senderVars, channel, receiverVars
<1>4. UNCHANGED <<bytes, producer, sent, consumer, asked, carried, unpacked>>
  BY <1>1 DEF broadcastVars, producerVars, consumerVars
<1>5. TransferTypes'
  BY <1>1, <1>2 DEF TransferInv, TransferTypes
<1>6. CASE colocated
  <2>1. (StreamTypes' <=> StreamTypes) /\ (Packed' <=> Packed)
    BY <1>3 DEF StreamTypes, Packed, First
  <2>2. (Channel' <=> Channel) /\ (Arrived' <=> Arrived)
    BY <1>1, <1>3 DEF Channel, Arrived, LoadedTo, Asking, First, Handle, Tells, Held
  <2>3. StreamInv'
    BY <1>1, <1>2, <1>3, <1>4, <1>6, <2>1, <2>2 DEF TransferInv, StreamInv
  <2>4. QED
    BY <1>1, <1>5, <1>6, <2>3 DEF TransferInv
<1>7. CASE ~colocated
  <2>1. HostsInv'
    BY <1>4, <1>7, HostsOfSame DEF TransferInv, BroadcastInv
  <2>2. (InOrder' <=> InOrder) /\ (OwedAreLast' <=> OwedAreLast)
    BY <1>1, <1>4 DEF InOrder, OwedAreLast, Unpacked
  <2>3. BroadcastInv'
    BY <1>1, <1>2, <1>4, <1>7, <2>1, <2>2 DEF TransferInv, BroadcastInv
  <2>4. QED
    BY <1>1, <1>5, <1>7, <2>3 DEF TransferInv
<1>8. QED
  BY <1>6, <1>7 DEF TransferInv

LEMMA StreamStepKeeps ==
  ASSUME TransferInv, SenderStep \/ ReceiverStep
  PROVE  TransferInv'
<1>1. colocated /\ UNCHANGED <<colocated, asked>> /\ TransferTypes /\ StreamInv
  BY DEF TransferInv, SenderStep, ReceiverStep, broadcastVars, consumerVars
<1>2. StreamInv'
  BY <1>1, SenderKeeps, ReceiverKeeps DEF SenderStep, ReceiverStep
<1>3. TransferTypes'
  <2>1. refit' = refit /\ outcome' = outcome
    BY DEF SenderStep, ReceiverStep, StreamSenderStep, StreamReceiverStep, refitVars
  <2>2. CASE Load /\ ReceiverStep
    <3>1. \E q, v : v \in {refit, Corrupt} /\ weights' = [weights EXCEPT ![q] = v]
      BY <2>2 DEF Load
    <3>2. {refit, Corrupt} \subseteq Int
      BY <1>1 DEF TransferTypes, Corrupt
    <3>3. weights' \in [Params -> Int]
      BY <1>1, <3>1, <3>2 DEF TransferTypes
    <3>4. QED
      BY <1>1, <2>1, <3>3 DEF TransferTypes
  <2>3. CASE ~(Load /\ ReceiverStep)
    <3>1. weights' = weights
      BY <2>3 DEF SenderStep, ReceiverStep, StreamSenderStep, StreamReceiverStep, refitVars, Receive,
                  Acknowledge, AcknowledgeComplete, PostProcess, ReceiverFails
    <3>2. QED
      BY <1>1, <2>1, <3>1 DEF TransferTypes
  <2>4. QED
    BY <2>2, <2>3
<1>4. QED
  BY <1>1, <1>2, <1>3 DEF TransferInv

LEMMA TransferKeeps == TransferInv /\ [TransferNext]_transferVars => TransferInv'
<1> SUFFICES ASSUME TransferInv, [TransferNext]_transferVars PROVE TransferInv'
  OBVIOUS
<1>1. CASE SenderStep \/ ReceiverStep
  BY <1>1, StreamStepKeeps
<1>2. CASE HostStep \/ DeviceStep \/ BroadcastFails
  <2>1. ~colocated /\ colocated' = colocated
    BY <1>2 DEF HostStep, DeviceStep, BroadcastFails
  <2>2. QED
    BY <1>2, <2>1, BroadcastKeeps DEF TransferInv
<1>3. CASE Succeed \/ Fail
  BY <1>3, EndKeeps
<1>4. CASE Again
  BY <1>4, AgainKeeps
<1>5. CASE UNCHANGED transferVars
  <2>1. UNCHANGED <<weights, refit, outcome, size, sender, next, names, used, copied, current, awaiting,
                    buffers, request, reply, receiver, message, loaded, colocated>>
    BY <1>5 DEF transferVars, refitVars, streamVars, senderVars, channel, receiverVars
  <2>2. UNCHANGED <<bytes, producer, sent, consumer, asked, carried, unpacked>>
    BY <1>5 DEF transferVars, broadcastVars, producerVars, consumerVars
  <2>3. TransferTypes' <=> TransferTypes
    BY <2>1 DEF TransferTypes
  <2>4. (StreamTypes' <=> StreamTypes) /\ (Packed' <=> Packed)
    BY <2>1 DEF StreamTypes, Packed, First
  <2>5. (Channel' <=> Channel) /\ (Arrived' <=> Arrived)
    BY <2>1 DEF Channel, Arrived, LoadedTo, Asking, First, Handle, Tells, Held
  <2>6. StreamInv' <=> StreamInv
    BY <2>1, <2>2, <2>4, <2>5 DEF StreamInv
  <2>7. HostsInv => HostsInv'
    BY <2>2, HostsOfSame
  <2>8. (InOrder' <=> InOrder) /\ (OwedAreLast' <=> OwedAreLast)
    BY <2>1, <2>2 DEF InOrder, OwedAreLast, Unpacked
  <2>9. BroadcastInv => BroadcastInv'
    BY <2>1, <2>2, <2>7, <2>8 DEF BroadcastInv
  <2>10. QED
    BY <2>1, <2>3, <2>6, <2>9 DEF TransferInv
<1>6. QED
  BY <1>1, <1>2, <1>3, <1>4, <1>5 DEF TransferNext, TrainerStep

LEMMA TransferAlways == TransferSpec => []TransferInv
BY TransferStarts, TransferKeeps, PTL DEF TransferSpec

(* No parameter is ever loaded from bytes of another one while the policy  *)
(* worker has not given up, and a broadcast refit that succeeded owes only *)
(* its last groups (stream_weights_via_ipc_zmq_impl, packed_tensor.py).    *)
THEOREM NothingTorn == TransferSpec => []NoTornLoad
<1>1. TransferInv => NoTornLoad
  BY DEF TransferInv, StreamInv, BroadcastInv, NoTornLoad
<1>2. QED
  BY <1>1, TransferAlways, PTL

-----------------------------------------------------------------------------
(* The refinement. *)

(* What both hosts have asked for.                                         *)
Coming == {p \in Params : \E g \in 1 .. Len(asked) : g <= Len(sent) /\ p \in asked[g]}

LEMMA SettledIs ==
  HostsInv => Settled = [p \in Params |-> IF p \in Coming THEN refit ELSE weights[p]]
<1> SUFFICES ASSUME HostsInv, NEW p \in Params
             PROVE  Settled[p] = IF p \in Coming THEN refit ELSE weights[p]
  <2>1. Settled = [p \in Params |-> Settled[p]]
    BY DEF Settled
  <2>2. QED
    BY <2>1
<1> DEFINE both == {g \in DOMAIN asked : g <= Len(sent)}
           of == {g \in both : p \in asked[g]}
<1>1. DOMAIN asked = 1 .. Len(asked) /\ Len(asked) \in Nat /\ Len(sent) \in Nat
  BY LenProperties DEF HostsInv, Laid
<1>2. Settled[p] = IF of = {} THEN weights[p] ELSE Crossing(Min(of))
  BY DEF Settled
<1>3. p \in Coming <=> of # {}
  BY <1>1 DEF Coming
<1>4. of # {} => Crossing(Min(of)) = refit
  <2>1. of \subseteq Nat
    BY <1>1
  <2>2. of # {} => Min(of) \in of
    <3> HIDE DEF of
    <3> QED
      BY <2>1, LeastOf
  <2>3. \A g \in of : g \in 1 .. Len(sent) /\ g <= Len(asked)
    BY <1>1
  <2>4. QED
    <3> HIDE DEF of
    <3> QED
      BY <2>2, <2>3 DEF Crossing, HostsInv, Agreed
<1>5. QED
  BY <1>2, <1>3, <1>4

LEMMA SettledNext ==
  (HostsInv => Settled = [p \in Params |-> IF p \in Coming THEN refit ELSE weights[p]])'
BY SettledIs, PTL

LEMMA SettledStream ==
  asked = <<>> /\ weights \in [Params -> Int] => Settled = weights
<1> SUFFICES ASSUME asked = <<>>, weights \in [Params -> Int] PROVE Settled = weights
  OBVIOUS
<1>1. DOMAIN asked = {}
  OBVIOUS
<1>2. Settled = [p \in Params |-> weights[p]]
  BY <1>1 DEF Settled
<1>3. QED
  BY <1>2

LEMMA SettledStreamNext ==
  (asked = <<>> /\ weights \in [Params -> Int] => Settled = weights)'
BY SettledStream, PTL

(* Both sides get to every parameter in the same group.                    *)
LEMMA AllComing ==
  ASSUME HostsInv, producer = "done", consumer = "true"
  PROVE  Coming = Params
<1>1. Taken(sent) = Params /\ Taken(asked) = Params
  BY DEF HostsInv
<1>2. /\ DOMAIN asked = 1 .. Len(asked) /\ Len(asked) \in Nat
      /\ DOMAIN sent = 1 .. Len(sent) /\ Len(sent) \in Nat
  BY LenProperties DEF HostsInv, Laid
<1>3. ASSUME NEW p \in Params
      PROVE  p \in Coming
  <2>1. PICK g \in 1 .. Len(sent) : p \in sent[g]
    BY <1>1, <1>2 DEF Taken
  <2>2. PICK h \in 1 .. Len(asked) : p \in asked[h]
    BY <1>1, <1>2 DEF Taken
  <2>3. CASE g <= Len(asked)
    BY <1>2, <2>1, <2>3 DEF Coming, HostsInv, Agreed
  <2>4. CASE ~(g <= Len(asked))
    <3>1. h <= Len(sent)
      BY <1>2, <2>4
    <3>2. QED
      BY <2>2, <3>1 DEF Coming
  <2>5. QED
    BY <2>3, <2>4
<1>4. QED
  BY <1>3 DEF Coming

(* A group of which everything is loaded has only this refit's values.     *)
LEMMA AllLoaded ==
  ASSUME BroadcastInv, Drained, producer = "done", consumer = "true"
  PROVE  \A p \in Params : weights[p] = refit
<1> SUFFICES ASSUME NEW p \in Params PROVE weights[p] = refit
  OBVIOUS
<1>1. p \in Coming
  BY AllComing DEF BroadcastInv
<1>2. PICK g \in 1 .. Len(asked) : p \in asked[g]
  BY <1>1 DEF Coming
<1>3. unpacked[g] = Cardinality(asked[g])
  <2>1. DOMAIN asked = 1 .. Len(asked)
    BY LenProperties DEF BroadcastInv, HostsInv, Laid
  <2>2. QED
    BY <2>1 DEF Drained, Unpacked
<1>4. PICK a, b \in Params : /\ a <= b /\ asked[g] = a .. b
                             /\ Min(asked[g]) = a /\ Cardinality(asked[g]) = b - a + 1
  BY GroupsOf DEF BroadcastInv, HostsInv
<1>5. p < Min(asked[g]) + unpacked[g]
  BY <1>2, <1>3, <1>4 DEF Params
<1>6. QED
  BY <1>2, <1>5 DEF BroadcastInv, InOrder

USE DEF Refined!Params, Refined!Corrupt, Refined!RefitLoad, Refined!RefitSucceeds, Refined!RefitFails,
        Refined!RefitBegins, Refined!RefitNext, Refined!refitVars

LEMMA StreamRefines ==
  ASSUME TransferInv, TransferInv', SenderStep \/ ReceiverStep
  PROVE  [Refined!RefitNext]_(Refined!refitVars)
<1>1. colocated /\ UNCHANGED <<colocated, asked, refit, outcome>> /\ StreamInv
  BY DEF TransferInv, SenderStep, ReceiverStep, broadcastVars, consumerVars, StreamSenderStep,
         StreamReceiverStep, refitVars
<1>2. /\ Settled = weights /\ Settled' = weights'
      /\ weights \in [Params -> Int] /\ weights' \in [Params -> Int]
  BY <1>1, SettledStream, SettledStreamNext DEF TransferInv, TransferTypes, StreamInv
<1>3. CASE Load /\ ReceiverStep
  <2>1. \E q, v : v \in {refit, Corrupt} /\ weights' = [weights EXCEPT ![q] = v]
    BY <1>3 DEF Load
  <2>2. \A p \in Params : weights'[p] \in {weights[p], refit, Corrupt}
    BY <1>2, <2>1
  <2>3. outcome # "success"
    BY <1>1, <1>3 DEF StreamInv, Load
  <2>4. DOMAIN Settled' = Params
    BY <1>2
  <2>5. Refined!RefitLoad
    BY <1>1, <1>2, <2>2, <2>3, <2>4 DEF Params, Corrupt
  <2>6. QED
    BY <2>5
<1>4. CASE ~(Load /\ ReceiverStep)
  <2>1. weights' = weights
    BY <1>4 DEF SenderStep, ReceiverStep, StreamSenderStep, StreamReceiverStep, refitVars, Receive,
                Acknowledge, AcknowledgeComplete, PostProcess, ReceiverFails
  <2>2. QED
    BY <1>1, <1>2, <2>1
<1>5. QED
  BY <1>3, <1>4

(* What is asked for settles the parameters it tells of, and no others.    *)
LEMMA AskedSettles ==
  ASSUME HostsInv, HostsInv', Coming \subseteq Coming', UNCHANGED <<refit, weights>>
  PROVE  DOMAIN Settled' = Params /\ \A p \in Params : Settled'[p] \in {Settled[p], refit}
<1>1. Settled = [p \in Params |-> IF p \in Coming THEN refit ELSE weights[p]]
  BY SettledIs
<1>2. Settled' = [p \in Params |-> IF p \in Coming' THEN refit ELSE weights[p]]
  BY SettledNext
<1>3. QED
  BY <1>1, <1>2

LEMMA BroadcastRefines ==
  ASSUME TransferInv, TransferInv', HostStep \/ DeviceStep \/ BroadcastFails
  PROVE  [Refined!RefitNext]_(Refined!refitVars)
<1>1. ~colocated /\ UNCHANGED <<refit, outcome, colocated, bytes>> /\ BroadcastInv /\ BroadcastInv'
  BY DEF TransferInv, HostStep, DeviceStep, BroadcastFails
<1>2. HostsInv /\ HostsInv' /\ weights \in [Params -> Int]
  BY <1>1 DEF BroadcastInv, TransferInv, TransferTypes
<1>3. /\ Settled = [p \in Params |-> IF p \in Coming THEN refit ELSE weights[p]]
      /\ Settled' = [p \in Params |-> IF p \in Coming' THEN refit ELSE weights'[p]]
  BY <1>1, <1>2, SettledIs, SettledNext
<1>4. Len(sent) \in Nat /\ Len(asked) \in Nat
  BY <1>2 DEF HostsInv, Laid
<1>5. CASE SendGroup \/ AskGroup
  <2>1. UNCHANGED weights /\ outcome # "success"
    BY <1>1, <1>5 DEF SendGroup, AskGroup, BroadcastInv
  <2>2. Coming \subseteq Coming'
    <3>1. CASE SendGroup
      <4>1. asked' = asked /\ Len(sent') = Len(sent) + 1
        BY <1>1, <1>2, <3>1, SendGroupKeeps DEF SendGroup, consumerVars
      <4>2. QED
        BY <1>4, <4>1 DEF Coming
    <3>2. CASE AskGroup
      <4>1. /\ sent' = sent /\ Len(asked') = Len(asked) + 1
            /\ \A i \in 1 .. Len(asked) : asked'[i] = asked[i]
        BY <1>1, <1>2, <3>2, AskGroupKeeps DEF AskGroup, producerVars
      <4>2. QED
        BY <1>4, <4>1 DEF Coming
    <3>3. QED
      BY <1>5, <3>1, <3>2
  <2>3. DOMAIN Settled' = Params /\ \A p \in Params : Settled'[p] \in {Settled[p], refit}
    BY <1>1, <1>2, <2>1, <2>2, AskedSettles
  <2>4. Refined!RefitLoad
    BY <1>1, <2>1, <2>3 DEF Params
  <2>5. QED
    BY <2>4
<1>6. CASE Unpack
  <2>1. PICK q \in Params, g \in 1 .. carried :
          q \in asked[g] /\ weights' = [weights EXCEPT ![q] = refit]
    BY <1>1, <1>6, UnpackKeepsBroadcast DEF TransferInv
  <2>2. q \in Coming
    <3>1. g \in 1 .. Len(asked) /\ g <= Len(sent)
      BY <1>1, <1>4 DEF BroadcastInv
    <3>2. QED
      BY <2>1, <3>1 DEF Coming
  <2>3. Coming' = Coming
    BY <1>6 DEF Unpack, producerVars, consumerVars, Coming
  <2>4. Settled' = Settled
    BY <1>1, <1>2, <1>3, <2>1, <2>2, <2>3
  <2>5. QED
    BY <1>1, <2>4
<1>7. CASE SendEnds \/ AskEnds \/ SendFails \/ AskFails \/ Carry
  <2>1. UNCHANGED <<weights, sent, asked>>
    BY <1>7 DEF SendEnds, AskEnds, SendFails, AskFails, Carry, producerVars, consumerVars
  <2>2. Coming' = Coming
    BY <2>1 DEF Coming
  <2>3. Settled' = Settled
    BY <1>1, <1>3, <2>1, <2>2
  <2>4. QED
    BY <1>1, <2>3
<1>8. QED
  BY <1>5, <1>6, <1>7 DEF HostStep, DeviceStep, BroadcastFails, Hosts, Devices

LEMMA EndRefines ==
  ASSUME TransferInv, TransferInv', Succeed \/ Fail
  PROVE  Refined!RefitNext
<1>1. UNCHANGED <<weights, refit, asked, sent, colocated>> /\ weights \in [Params -> Int]
  BY DEF Succeed, Fail, broadcastVars, producerVars, consumerVars, TransferInv, TransferTypes
<1>2. Settled' = Settled
  <2>1. CASE colocated
    BY <1>1, <2>1, SettledStream, SettledStreamNext DEF TransferInv, StreamInv
  <2>2. CASE ~colocated
    <3>1. HostsInv /\ HostsInv' /\ Coming' = Coming
      BY <1>1, <2>2 DEF TransferInv, BroadcastInv, Coming
    <3>2. QED
      BY <1>1, <3>1, SettledIs, SettledNext
  <2>3. QED
    BY <2>1, <2>2
<1>3. CASE Fail
  <2>1. Refined!RefitFails
    BY <1>1, <1>2, <1>3 DEF Fail
  <2>2. QED
    BY <2>1
<1>4. CASE Succeed
  <2>1. \A p \in Params : Settled[p] = refit
    <3>1. CASE colocated
      <4>1. First = NumParams + 1
        <5>1. next \in 1 .. NumParams + 1 /\ next > NumParams /\ names = <<>>
          BY <1>4, <3>1 DEF Succeed, TransferInv, StreamInv, StreamTypes, Packed
        <5>2. Len(names) = 0
          BY <5>1, EmptyTyped
        <5>3. QED
          BY <5>1, <5>2 DEF First
      <4>2. ~Asking
        BY <1>4, <3>1 DEF Succeed, TransferInv, StreamInv, Channel, Asking
      <4>3. LoadedTo(First)
        BY <1>4, <3>1, <4>2 DEF Succeed, TransferInv, StreamInv, Arrived
      <4>4. Settled = weights
        BY <1>1, <3>1, SettledStream DEF TransferInv, StreamInv
      <4>5. QED
        BY <4>1, <4>3, <4>4 DEF LoadedTo, Params
    <3>2. CASE ~colocated
      <4>1. HostsInv /\ producer = "done" /\ consumer = "true"
        BY <1>4, <3>2 DEF Succeed, TransferInv, BroadcastInv
      <4>2. Coming = Params
        BY <4>1, AllComing
      <4>3. QED
        BY <4>1, <4>2, SettledIs
    <3>3. QED
      BY <3>1, <3>2
  <2>2. Refined!RefitSucceeds
    BY <1>1, <1>2, <1>4, <2>1 DEF Succeed, Params
  <2>3. QED
    BY <2>2
<1>5. QED
  BY <1>3, <1>4

LEMMA AgainRefines ==
  ASSUME TransferInv, TransferInv', Again
  PROVE  Refined!RefitNext
<1>1. UNCHANGED <<weights, colocated>> /\ asked' = <<>> /\ outcome = "success"
  BY DEF Again
<1>2. weights \in [Params -> Int] /\ weights' \in [Params -> Int]
  BY DEF TransferInv, TransferTypes
<1>3. Settled' = weights
  BY <1>1, <1>2, SettledStreamNext
<1>4. Settled = weights
  <2>1. CASE colocated
    BY <1>2, <2>1, SettledStream DEF TransferInv, StreamInv
  <2>2. CASE ~colocated
    <3>1. BroadcastInv /\ Drained /\ producer = "done" /\ consumer = "true"
      BY <1>1, <2>2 DEF TransferInv, BroadcastInv, Again
    <3>2. \A p \in Params : weights[p] = refit
      BY <3>1, AllLoaded
    <3>3. Settled = [p \in Params |-> weights[p]]
      BY <3>1, <3>2, SettledIs DEF BroadcastInv
    <3>4. QED
      BY <1>2, <3>3
  <2>3. QED
    BY <2>1, <2>2
<1>5. Refined!RefitBegins
  BY <1>3, <1>4 DEF Again
<1>6. QED
  BY <1>5

LEMMA RefitStarts == TransferInit => Refined!RefitInit
<1> SUFFICES ASSUME TransferInit PROVE Refined!RefitInit
  OBVIOUS
<1>1. asked = <<>> /\ weights = [p \in Params |-> 0] /\ refit = 1 /\ outcome = "none"
  BY DEF TransferInit, RefitInit, BroadcastReady, BroadcastInit
<1>2. Settled = weights
  BY <1>1, SettledStream
<1>3. QED
  BY <1>1, <1>2 DEF Refined!RefitInit, Params

LEMMA TransferRefines ==
  TransferInv /\ TransferInv' /\ [TransferNext]_transferVars => [Refined!RefitNext]_(Refined!refitVars)
<1> SUFFICES ASSUME TransferInv, TransferInv', [TransferNext]_transferVars
             PROVE  [Refined!RefitNext]_(Refined!refitVars)
  OBVIOUS
<1>1. CASE SenderStep \/ ReceiverStep
  BY <1>1, StreamRefines
<1>2. CASE HostStep \/ DeviceStep \/ BroadcastFails
  BY <1>2, BroadcastRefines
<1>3. CASE Succeed \/ Fail
  BY <1>3, EndRefines
<1>4. CASE Again
  BY <1>4, AgainRefines
<1>5. CASE UNCHANGED transferVars
  <2>1. UNCHANGED <<weights, refit, outcome, sent, asked>>
    BY <1>5 DEF transferVars, refitVars, broadcastVars, producerVars, consumerVars
  <2>2. Settled' = Settled
    BY <2>1 DEF Settled, Crossing
  <2>3. QED
    BY <2>1, <2>2
<1>6. QED
  BY <1>1, <1>2, <1>3, <1>4, <1>5 DEF TransferNext, TrainerStep

(* Both transports keep what the training loop relies on: each of their    *)
(* steps is a load, the end or the beginning of a refit, or nothing that   *)
(* the loop can see (refit_policy_generation, grpo.py:903-976).            *)
THEOREM RefitImplemented == TransferSpec => ImplementsRefit
<1>1. TransferSpec => Refined!RefitInit /\ [][Refined!RefitNext]_(Refined!refitVars)
  BY RefitStarts, TransferRefines, TransferAlways, PTL DEF TransferSpec
<1>2. QED
  BY <1>1, PTL DEF ImplementsRefit, Refined!RefitSpec

=============================================================================
