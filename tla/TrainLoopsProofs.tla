---------------------------- MODULE TrainLoopsProofs ----------------------------
(***************************************************************************)
(* The training loops proved for every configuration, any number of epochs *)
(* and batches, any duration of the steps and any number of crashes: each  *)
(* batch is trained once and in its place, a checkpoint is of its own step *)
(* and never far behind, whoever computes has its parameters where it      *)
(* needs them, and the deadline is kept.                                   *)
(***************************************************************************)
EXTENDS TrainLoops, TLAPS

(***************************************************************************)
(* What a step count modulo a period is: val_period and save_period act on *)
(* their multiples.                                                        *)
(***************************************************************************)
(* What a remainder is, for the multiples of save_period. *)
LEMMA DivMod ==
  ASSUME NEW t \in Nat, NEW P \in Nat \ {0}
  PROVE  t % P \in 0 .. P - 1 /\ \E q \in Int : t = q * P + (t % P)
<1>1. t % P \in 0 .. P - 1 /\ t \div P \in Int
  BY SMT
<1>2. t = (t \div P) * P + (t % P)
  <2>1. t % P = t - (t \div P) * P
    BY SMT
  <2> QED
    BY <1>1, <2>1
<1> QED
  BY <1>1, <1>2

(* Only one remainder fits. *)
LEMMA RemainderUnique ==
  ASSUME NEW P \in Nat \ {0}, NEW q \in Int, NEW u \in Int,
         NEW r \in 0 .. P - 1, NEW v \in 0 .. P - 1, q * P + r = u * P + v
  PROVE  r = v
<1>1. (q - u) * P = v - r
  BY SMT
<1>2. CASE q - u >= 1
  <2>1. (q - u) * P >= P
    BY <1>2, SMT
  <2> QED
    BY <1>1, <2>1
<1>3. CASE q - u <= -1
  <2>1. (q - u) * P <= -P
    BY <1>3, SMT
  <2> QED
    BY <1>1, <2>1
<1>4. CASE q = u
  BY <1>1, <1>4
<1> QED
  BY <1>2, <1>3, <1>4

(* Short of the next multiple the remainder grows with the number.         *)
LEMMA ModSucc ==
  ASSUME NEW t \in Nat, NEW P \in Nat \ {0}, (t + 1) % P # 0
  PROVE  (t + 1) % P = (t % P) + 1
<1> DEFINE r == t % P
           v == (t + 1) % P
<1>0. t + 1 \in Nat
  OBVIOUS
<1>1. r \in 0 .. P - 1 /\ v \in 0 .. P - 1 /\ v # 0
  <2>1. v \in 0 .. P - 1
    BY <1>0, DivMod, Zenon
  <2> QED
    BY <2>1, DivMod
<1>2. PICK q \in Int : t = q * P + r
  BY DivMod
<1>3. PICK u \in Int : t + 1 = u * P + v
  BY <1>0, DivMod, Zenon
<1> HIDE DEF r, v
<1>4. CASE r < P - 1
  <2>1. r + 1 \in 0 .. P - 1 /\ q * P + (r + 1) = u * P + v
    BY <1>1, <1>2, <1>3, <1>4
  <2>2. r + 1 = v
    BY <1>1, <2>1, RemainderUnique
  <2> QED
    BY <2>2 DEF r, v
<1>5. CASE r = P - 1
  <2>1. 0 \in 0 .. P - 1 /\ q + 1 \in Int /\ (q + 1) * P + 0 = u * P + v
    BY <1>1, <1>2, <1>3, <1>5
  <2>2. v = 0
    BY <1>1, <2>1, RemainderUnique
  <2> QED
    BY <1>1, <2>2
<1> QED
  BY <1>1, <1>4, <1>5

(* A number below the modulus is its own remainder. *)
LEMMA SmallRemainder ==
  ASSUME NEW P \in Nat \ {0}
  PROVE  P % P = 0 /\ \A t \in 0 .. P - 1 : t % P = t
<1>1. ASSUME NEW t \in 0 .. P - 1 PROVE t % P = t
  <2>1. t \in Nat
    OBVIOUS
  <2>2. PICK q \in Int : t = q * P + (t % P)
    BY <2>1, DivMod
  <2> DEFINE v == t % P
  <2>3. v \in 0 .. P - 1 /\ 0 \in Int /\ 0 * P + t = q * P + v
    BY <2>1, <2>2, DivMod
  <2> HIDE DEF v
  <2>4. t = v
    BY <2>3, RemainderUnique
  <2> QED
    BY <2>4 DEF v
<1>2. P % P = 0
  <2>1. PICK q \in Int : P = q * P + (P % P)
    BY DivMod
  <2> DEFINE v == P % P
  <2>2. v \in 0 .. P - 1 /\ 0 \in 0 .. P - 1 /\ 1 \in Int /\ 1 * P + 0 = q * P + v
    BY <2>1, DivMod
  <2> HIDE DEF v
  <2>3. 0 = v
    BY <2>2, RemainderUnique
  <2> QED
    BY <2>3 DEF v
<1> QED
  BY <1>1, <1>2

-----------------------------------------------------------------------------
Refitting == {"prepare", "offload_optimizer", "stream", "offload", "wake"}
Generating == {"rollout", "validation", "first_validation"}
Working == {"reference", "in_reference", "topk", "logprobs", "logprobs_done", "train", "validate",
            "save", "rollout", "validation"}
Places == {"gpu", "cpu"}

Workers == [model : Places, optimizer : Places, weights : Int, reference : {0}, kept : Int]
Engines == [weights : Int, held : SUBSET {"weights", "kv_cache"}, prefix : {NoWeights}]
Checkpoints == [step : Nat, total : Nat, epoch : Nat, pos : Nat, metric : Int, weights : Int]
Clocks == [elapsed : Nat, iterations : Nat, last : Nat]

Counters ==
  /\ config \in Configs
  /\ currentStep \in Nat /\ totalSteps \in Nat /\ currentEpoch \in Nat /\ pos \in Nat
  /\ saved \in Checkpoints /\ clock \in Clocks /\ valMetric \in Int

Memories ==
  /\ policy \in Workers /\ engine \in Engines /\ teacher \in Places /\ stale \in BOOLEAN

(* The loop returns to what it was about to do once the engine is ready;   *)
(* a supervised loop never needs one.                                      *)
Shape ==
  /\ phase \in {"begin", "ready", "epoch", "batch", "done", "first_validation"}
       \cup Refitting \cup Working
  /\ after \in Generating \cup {"none"}
  /\ after # "none" <=> phase \in Refitting
  /\ config.kind \in Supervised =>
       phase \in {"begin", "ready", "epoch", "batch", "train", "validate", "save", "done"}
                   \cup IF config.kind = "dpo" THEN {"reference", "in_reference"} ELSE {}
  /\ phase = "reference" => config.kind = "dpo"

TypeInv == Counters /\ Memories /\ Shape

(* A batch was drawn and its step is not yet counted; the optimizer has    *)
(* taken that step.                                                        *)
InStep == phase \in Working \/ (phase \in Refitting /\ after # "first_validation")
Updated == phase \in {"validate", "save", "validation"} \/ after = "validation"

-----------------------------------------------------------------------------
(* Types. *)

LEMMA ConfigFields ==
  ASSUME config \in Configs
  PROVE  /\ config.kind \in {"sft", "dpo", "rm", "distillation", "grpo"}
         /\ config.engine \in {"none", "colocated", "separate", "self"}
         /\ config.engine = "self" => config.megatron
         /\ config.maxNumSteps \in Int /\ config.valPeriod \in Nat
         /\ config.savePeriod \in Nat \ {0} /\ config.deadline \in Nat
         /\ {config.valAtStart, config.megatron, config.cpuOffload, config.offloadForLogprob}
              \subseteq BOOLEAN
BY LoopsAssumption

LEMMA Remainder ==
  ASSUME NEW t \in Nat
  PROVE  t % NumBatches \in Nat /\ t % NumBatches < NumBatches
BY LoopsAssumption, DivMod

(* The moves of a worker leave its weights alone, but for the reference's. *)
LEMMA WorkerMoves ==
  ASSUME NEW m, NEW w \in Workers
  PROVE  /\ \A v \in {PrepareForLogprobs(m, w), PrepareForTraining(m, w), OffloadBeforeRefit(w),
                      OffloadAfterRefit(w), Streamed(m, w), Broadcasted(m, w)} :
              v \in Workers /\ v.weights = w.weights /\ v.kept = w.kept
         /\ EnterReference(w) \in Workers /\ EnterReference(w).kept = w.weights
         /\ EnterReference(w).weights = 0
         /\ LeaveReference(w) \in Workers /\ LeaveReference(w).weights = w.kept
<1>1. /\ PrepareForLogprobs(m, w) \in Workers
      /\ PrepareForLogprobs(m, w).weights = w.weights /\ PrepareForLogprobs(m, w).kept = w.kept
  BY DEF Workers, Places, PrepareForLogprobs
<1>2. /\ PrepareForTraining(m, w) \in Workers
      /\ PrepareForTraining(m, w).weights = w.weights /\ PrepareForTraining(m, w).kept = w.kept
  BY DEF Workers, Places, PrepareForTraining
<1>3. /\ OffloadBeforeRefit(w) \in Workers
      /\ OffloadBeforeRefit(w).weights = w.weights /\ OffloadBeforeRefit(w).kept = w.kept
  BY DEF Workers, Places, OffloadBeforeRefit
<1>4. /\ OffloadAfterRefit(w) \in Workers
      /\ OffloadAfterRefit(w).weights = w.weights /\ OffloadAfterRefit(w).kept = w.kept
  BY DEF Workers, Places, OffloadBeforeRefit, OffloadAfterRefit
<1>5. /\ Streamed(m, w) \in Workers
      /\ Streamed(m, w).weights = w.weights /\ Streamed(m, w).kept = w.kept
  BY DEF Workers, Places, Streamed
<1>6. /\ Broadcasted(m, w) \in Workers
      /\ Broadcasted(m, w).weights = w.weights /\ Broadcasted(m, w).kept = w.kept
  BY DEF Workers, Places, Streamed, Broadcasted
<1>7. ASSUME NEW i \in Int, NEW k \in Int
      PROVE  LET v == [w EXCEPT !.weights = i, !.kept = k]
             IN  v \in Workers /\ v.weights = i /\ v.kept = k
  <2> DEFINE u == [w EXCEPT !.weights = i]
             v == [u EXCEPT !.kept = k]
  <2>1. u \in Workers /\ u.weights = i
    BY DEF Workers
  <2> HIDE DEF u
  <2>2. v \in Workers /\ v.weights = u.weights /\ v.kept = k
    BY <2>1 DEF Workers
  <2>3. [w EXCEPT !.weights = i, !.kept = k] = v
    BY DEF u
  <2> QED
    BY <2>1, <2>2, <2>3, Zenon
<1>8. w.weights \in Int /\ w.kept \in Int /\ w.reference = 0 /\ NoWeights \in Int
  BY DEF Workers, NoWeights
<1>9. /\ EnterReference(w) \in Workers /\ EnterReference(w).kept = w.weights
      /\ EnterReference(w).weights = 0
  <2>1. w.reference \in Int
    BY <1>8
  <2>2. /\ EnterReference(w) \in Workers /\ EnterReference(w).kept = w.weights
        /\ EnterReference(w).weights = w.reference
    BY <1>7, <1>8, <2>1, Zenon DEF EnterReference
  <2> QED
    BY <1>8, <2>2
<1>10. LeaveReference(w) \in Workers /\ LeaveReference(w).weights = w.kept
  BY <1>7, <1>8, Zenon DEF LeaveReference
<1> QED
  BY <1>1, <1>2, <1>3, <1>4, <1>5, <1>6, <1>9, <1>10

LEMMA EngineMoves ==
  ASSUME NEW m, NEW e \in Engines
  PROVE  /\ \A tags \in SUBSET {"weights", "kv_cache"} :
              WakeUp(m, e, tags) \in Engines /\ WakeUp(m, e, tags).weights = e.weights
         /\ \A w \in Int : Loaded(e, w) \in Engines /\ Loaded(e, w).weights = w
                           /\ Loaded(e, w).held = e.held
         /\ Finished(m, Generated(e)) \in Engines
         /\ Finished(m, Generated(e)).weights = e.weights
         /\ Finished(m, Generated(e)).held = IF m.colocated THEN {} ELSE e.held
BY DEF Engines, WakeUp, Loaded, Generated, Finished, NoWeights

(* Validation of a supervised loop moves its worker and gives the metric.  *)
LEMMA ValidateLossMoves ==
  ASSUME TypeInv, config.kind \in Supervised, ValidateLoss
  PROVE  /\ policy' \in Workers /\ policy'.weights = policy.weights /\ valMetric' = policy.weights
         /\ UNCHANGED <<teacher, engine, stale>>
<1>1. policy \in Workers /\ policy.weights \in Int
  BY DEF TypeInv, Memories, Workers
<1>2. \A w \in Workers : PrepareForTraining(Setting, w) \in Workers
                         /\ PrepareForTraining(Setting, w).weights = w.weights
  BY WorkerMoves
<1>3. LET v == LeaveReference(EnterReference(policy))
      IN  v \in Workers /\ v.weights = policy.weights
  BY <1>1, WorkerMoves
<1>4. CASE config.kind = "sft"
  BY <1>1, <1>2, <1>4 DEF ValidateLoss, SftValidated
<1>5. CASE config.kind = "dpo"
  BY <1>1, <1>2, <1>3, <1>5 DEF ValidateLoss, DpoValidated
<1>6. CASE config.kind = "rm"
  BY <1>1, <1>2, <1>6 DEF ValidateLoss, RmValidated
<1> QED
  BY <1>4, <1>5, <1>6 DEF Supervised, ValidateLoss

LEMMA TypeInvInit == Init => TypeInv
<1> SUFFICES ASSUME Init PROVE TypeInv
  OBVIOUS
<1>1. Counters
  BY DEF Init, Counters, Checkpoints, Clocks, NoMetric
<1>2. Memories
  BY DEF Init, Memories, Workers, Engines, Places, Built, Launched, ModelHome, OptimizerHome,
         NoWeights
<1>3. Shape
  BY DEF Init, Shape, Refitting, Generating, Working
<1> QED
  BY <1>1, <1>2, <1>3 DEF TypeInv

(* The moves as the steps below need them. *)
LEMMA Typed ==
  ASSUME TypeInv
  PROVE  /\ policy \in Workers /\ engine \in Engines /\ config \in Configs
         /\ policy.weights \in Int /\ engine.weights \in Int
BY DEF TypeInv, Counters, Memories, Workers, Engines

LEMMA CountersStep == TypeInv /\ [Next]_vars => Counters'
<1> SUFFICES ASSUME TypeInv, [Next]_vars PROVE Counters'
  OBVIOUS
<1>0. Counters /\ policy.weights \in Int /\ engine.weights \in Int
  BY Typed DEF TypeInv
<1> USE DEF Counters, counters
<1>1. CASE Begin
  <2>1. valMetric' \in Int
    BY <1>0, <1>1 DEF Begin, ValidateLoss
  <2> QED
    BY <1>0, <1>1, <2>1 DEF Begin
<1>2. CASE Ready \/ EnterEpoch \/ EnterReferenceModel \/ LeaveReferenceModel \/ PrepareEngine
           \/ OffloadOptimizer \/ StreamWeights \/ Offload \/ Wake \/ Rollout \/ TeacherDone
           \/ LogprobsDone \/ Train \/ UNCHANGED vars
  BY <1>0, <1>2
  DEF Ready, EnterEpoch, EnterReferenceModel, LeaveReferenceModel, PrepareEngine,
      OffloadOptimizer, StreamWeights, Offload, Wake, Rollout, TeacherDone, LogprobsDone, Train,
      vars
<1>3. CASE NextBatch
  BY <1>0, <1>3 DEF NextBatch, NoMetric
<1>4. CASE EpochEnds
  BY <1>0, <1>4 DEF EpochEnds
<1>5. CASE ValidateAnswers
  BY <1>0, <1>5 DEF ValidateAnswers
<1>6. CASE Validate
  <2>1. valMetric' \in Int
    BY <1>0, <1>6 DEF Validate, ValidateLoss
  <2> QED
    BY <1>0, <1>6, <2>1 DEF Validate
<1>7. ASSUME NEW d \in Durations, FinishStep(d) PROVE Counters'
  <2>1. clock' \in Clocks
    BY <1>0, <1>7, LoopsAssumption DEF FinishStep, Marked, Clocks
  <2>2. saved' \in Checkpoints
    <3>1. SavedStep \in Nat
      <4>1. currentStep + 1 \in Nat
        BY <1>0
      <4> QED
        BY <4>1, Remainder DEF SavedStep
    <3>2. CASE Save
      BY <1>0, <3>1, <3>2 DEF Save, Checkpoints
    <3>3. CASE UNCHANGED saved
      BY <1>0, <3>3
    <3> QED
      BY <1>7, <3>2, <3>3 DEF FinishStep
  <2>3. /\ currentStep' = currentStep + 1 /\ totalSteps' = totalSteps + 1
        /\ UNCHANGED <<config, currentEpoch, pos, valMetric>>
    BY <1>7 DEF FinishStep
  <2> QED
    BY <1>0, <2>1, <2>2, <2>3
<1>8. CASE Restart
  <2>1. /\ saved.step \in Nat /\ saved.total \in Nat /\ saved.epoch \in Nat /\ saved.pos \in Nat
    BY <1>0 DEF Checkpoints
  <2> QED
    BY <1>0, <1>8, <2>1 DEF Restart, Clocks, NoMetric
<1> QED
  BY <1>1, <1>2, <1>3, <1>4, <1>5, <1>6, <1>7, <1>8 DEF Next, LoopStep, Done

LEMMA MemoriesStep == TypeInv /\ [Next]_vars => Memories'
<1> SUFFICES ASSUME TypeInv, [Next]_vars PROVE Memories'
  OBVIOUS
<1>0. Memories /\ policy \in Workers /\ engine \in Engines /\ policy.weights \in Int
  BY Typed DEF TypeInv
<1>a. "gpu" \in Places /\ "cpu" \in Places
  BY DEF Places
<1> USE DEF Memories, memory
<1>1. CASE Begin
  BY <1>0, <1>1, ValidateLossMoves DEF Begin
<1>2. CASE EnterEpoch \/ NextBatch \/ EpochEnds \/ PrepareEngine \/ UNCHANGED vars
  BY <1>0, <1>2 DEF EnterEpoch, NextBatch, EpochEnds, PrepareEngine, vars
<1>3. CASE Ready \/ Offload
  BY <1>0, <1>3, WorkerMoves DEF Ready, Offload
<1>4. CASE EnterReferenceModel \/ LeaveReferenceModel
  BY <1>0, <1>4, WorkerMoves DEF EnterReferenceModel, LeaveReferenceModel
<1>5. CASE OffloadOptimizer
  <2>1. OffloadBeforeRefit(policy) \in Workers
    BY <1>0, WorkerMoves
  <2>2. WakeUp(Setting, engine, {"weights"}) \in Engines
    BY <1>0, EngineMoves
  <2> QED
    BY <1>0, <1>5, <2>1, <2>2 DEF OffloadOptimizer
<1>6. CASE StreamWeights
  <2>1. Streamed(Setting, policy) \in Workers /\ Broadcasted(Setting, policy) \in Workers
    BY <1>0, WorkerMoves
  <2>2. Loaded(engine, policy.weights) \in Engines
    BY <1>0, EngineMoves
  <2> QED
    BY <1>0, <1>6, <2>1, <2>2 DEF StreamWeights
<1>7. CASE Wake
  <2>1. [policy EXCEPT !.model = "gpu"] \in Workers
    BY <1>0, <1>a DEF Workers
  <2>2. /\ Loaded(engine, policy.weights) \in Engines
        /\ WakeUp(Setting, engine, {"weights", "kv_cache"}) \in Engines
    BY <1>0, EngineMoves
  <2> QED
    BY <1>0, <1>7, <2>1, <2>2 DEF Wake
<1>8. CASE Rollout
  <2>1. PrepareForLogprobs(Setting, policy) \in Workers
    BY <1>0, WorkerMoves
  <2>2. Finished(Setting, Generated(engine)) \in Engines
    BY <1>0, EngineMoves
  <2> QED
    BY <1>0, <1>8, <1>a, <2>1, <2>2 DEF Rollout, GenerateAndFinish
<1>9. CASE ValidateAnswers
  BY <1>0, <1>9, EngineMoves DEF ValidateAnswers, GenerateAndFinish
<1>10. CASE TeacherDone \/ LogprobsDone
  BY <1>0, <1>10, <1>a, WorkerMoves DEF TeacherDone, LogprobsDone
<1>11. CASE Train
  BY <1>0, <1>11 DEF Train, Workers
<1>12. CASE Validate
  BY <1>0, <1>12, ValidateLossMoves DEF Validate
<1>13. ASSUME NEW d \in Durations, FinishStep(d) PROVE Memories'
  BY <1>0, <1>13, WorkerMoves DEF FinishStep
<1>14. CASE Restart
  <2>1. saved.weights \in Int
    BY DEF TypeInv, Counters, Checkpoints
  <2>2. Built(Setting, saved.weights) \in Workers
    BY <2>1, <1>a DEF Built, Workers, ModelHome, OptimizerHome, NoWeights
  <2>3. Launched(Setting) \in Engines
    BY DEF Launched, Engines, NoWeights
  <2> QED
    BY <1>14, <1>a, <2>2, <2>3 DEF Restart, Setup
<1> QED
  BY <1>1, <1>2, <1>3, <1>4, <1>5, <1>6, <1>7, <1>8, <1>9, <1>10, <1>11, <1>12, <1>13, <1>14
  DEF Next, LoopStep, Done

LEMMA ShapeStep == TypeInv /\ [Next]_vars => Shape'
<1> SUFFICES ASSUME Shape, config.kind \in {"sft", "dpo", "rm", "distillation", "grpo"}, [Next]_vars
             PROVE  Shape'
  BY ConfigFields DEF TypeInv, Counters
<1> USE DEF Shape, Goto, Supervised, Refitting, Generating, Working
<1>1. CASE Begin
  BY <1>1 DEF Begin
<1>2. CASE Ready \/ EnterEpoch \/ EpochEnds
  BY <1>2 DEF Ready, EnterEpoch, EpochEnds
<1>3. CASE NextBatch
  BY <1>3 DEF NextBatch
<1>4. CASE EnterReferenceModel \/ LeaveReferenceModel
  BY <1>4 DEF EnterReferenceModel, LeaveReferenceModel
<1>5. CASE PrepareEngine
  BY <1>5 DEF PrepareEngine
<1>6. CASE OffloadOptimizer \/ Offload
  BY <1>6 DEF OffloadOptimizer, Offload
<1>7. CASE StreamWeights
  BY <1>7 DEF StreamWeights
<1>8. CASE Wake
  BY <1>8 DEF Wake
<1>9. CASE Rollout
  BY <1>9 DEF Rollout
<1>10. CASE ValidateAnswers
  BY <1>10 DEF ValidateAnswers
<1>11. CASE TeacherDone \/ LogprobsDone \/ Train
  BY <1>11 DEF TeacherDone, LogprobsDone, Train
<1>12. CASE Validate
  BY <1>12 DEF Validate
<1>13. ASSUME NEW d \in Durations, FinishStep(d) PROVE Shape'
  BY <1>13 DEF FinishStep
<1>14. CASE Restart
  BY <1>14 DEF Restart
<1>15. CASE UNCHANGED vars
  BY <1>15 DEF vars
<1> QED
  BY <1>1, <1>2, <1>3, <1>4, <1>5, <1>6, <1>7, <1>8, <1>9, <1>10, <1>11, <1>12, <1>13, <1>14,
     <1>15 DEF Next, LoopStep, Done

LEMMA TypeInvStep == TypeInv /\ [Next]_vars => TypeInv'
BY CountersStep, MemoriesStep, ShapeStep DEF TypeInv

-----------------------------------------------------------------------------
(* Counters. *)

(* Where the counters, the dataloader and the checkpoint are, batches laid *)
(* end to end; a resumed supervised loop counts the steps of a finished    *)
(* epoch from zero.                                                        *)
PlaceInv ==
  /\ pos <= NumBatches /\ currentEpoch <= MaxNumEpochs
  /\ saved.pos <= NumBatches /\ saved.epoch <= MaxNumEpochs
  /\ InStep => totalSteps + 1 = ThisBatch /\ currentStep + 1 = pos
  /\ ~InStep => totalSteps = ThisBatch /\ currentStep \in {pos, pos - NumBatches}
  /\ saved.total = saved.epoch * NumBatches + saved.pos
  /\ saved.step \in {saved.pos, saved.pos - NumBatches}
  /\ InStep \/ phase = "batch" => currentEpoch < MaxNumEpochs /\ BelowLimit(totalSteps)

(* No run goes past the limits, none ends before them unless on its        *)
(* deadline, and since the last checkpoint there was no multiple of        *)
(* save_period and no last step.                                           *)
LimitInv ==
  /\ totalSteps <= LimitOf(config) /\ saved.total <= totalSteps
  /\ totalSteps - saved.total <= totalSteps % config.savePeriod
  /\ ~InStep /\ totalSteps = LimitOf(config) => saved.total = totalSteps
  /\ phase = "done" =>
       saved.total = totalSteps /\ (Expired(clock) \/ totalSteps = LimitOf(config))

(* Most steps of the loop touch no counter. *)
Quiet == Begin \/ Ready \/ EnterReferenceModel \/ LeaveReferenceModel \/ PrepareEngine
           \/ OffloadOptimizer \/ StreamWeights \/ Offload \/ Wake \/ Rollout
           \/ ValidateAnswers \/ TeacherDone \/ LogprobsDone \/ Train \/ Validate

LEMMA QuietKeeps ==
  ASSUME TypeInv, Quiet
  PROVE  /\ UNCHANGED <<config, counters, pos, saved, clock>>
         /\ InStep' <=> InStep
         /\ phase' \notin {"batch", "done"} /\ phase # "batch"
<1> USE DEF TypeInv, Shape, InStep, Refitting, Working, Generating, Goto, counters
<1>1. CASE Begin
  BY <1>1 DEF Begin
<1>2. CASE Ready \/ EnterReferenceModel \/ LeaveReferenceModel
  BY <1>2 DEF Ready, EnterReferenceModel, LeaveReferenceModel
<1>3. CASE PrepareEngine \/ OffloadOptimizer \/ StreamWeights
  BY <1>3 DEF PrepareEngine, OffloadOptimizer, StreamWeights
<1>4. CASE Offload \/ Wake \/ Rollout
  BY <1>4 DEF Offload, Wake, Rollout
<1>5. CASE ValidateAnswers \/ TeacherDone \/ LogprobsDone
  BY <1>5 DEF ValidateAnswers, TeacherDone, LogprobsDone
<1>6. CASE Train \/ Validate
  BY <1>6 DEF Train, Validate
<1> QED
  BY <1>1, <1>2, <1>3, <1>4, <1>5, <1>6 DEF Quiet

LEMMA NextBatchMoves ==
  ASSUME TypeInv, NextBatch
  PROVE  /\ ~InStep /\ InStep' /\ phase = "batch" /\ phase' \notin {"batch", "done"}
         /\ pos < NumBatches /\ pos' = pos + 1
         /\ UNCHANGED <<config, counters, saved, clock>>
BY DEF TypeInv, Shape, NextBatch, InStep, Refitting, Working, Goto, counters

(* What the end of a step does to the counters and the checkpoint. *)
LEMMA FinishStepMoves ==
  ASSUME TypeInv, NEW d \in Durations, FinishStep(d)
  PROVE  /\ phase = "save" /\ InStep /\ ~InStep'
         /\ totalSteps' = totalSteps + 1 /\ currentStep' = currentStep + 1
         /\ UNCHANGED <<config, currentEpoch, pos>>
         /\ \/ phase' = "batch" /\ BelowLimit(totalSteps + 1)
            \/ phase' = "done" /\ (Expired(clock') \/ ~BelowLimit(totalSteps + 1))
         /\ \/ /\ saved' = saved /\ ~IsLastStep /\ ~Expired(clock')
               /\ (totalSteps + 1) % config.savePeriod # 0
            \/ /\ saved'.total = totalSteps + 1 /\ saved'.epoch = currentEpoch /\ saved'.pos = pos
               /\ saved'.step = SavedStep /\ saved'.weights = policy.weights
               /\ saved'.metric = valMetric
<1>1. phase = "save" /\ phase' \in {"batch", "done"} /\ after' = after
  BY DEF FinishStep, Goto
<1>2. InStep /\ ~InStep'
  BY <1>1 DEF TypeInv, Shape, InStep, Refitting, Working
<1> QED
  BY <1>1, <1>2 DEF FinishStep, Goto, Save

LEMMA EndsBetween ==
  ASSUME TypeInv
  PROVE  /\ phase \in {"batch", "epoch", "done", "begin"} => ~InStep
         /\ EnterEpoch \/ EpochEnds \/ Restart => ~InStep'
BY DEF TypeInv, Shape, InStep, Refitting, Working, EnterEpoch, EpochEnds, Restart, Goto

LEMMA StepCases ==
  ASSUME [Next]_vars
  PROVE  \/ Quiet \/ EnterEpoch \/ NextBatch \/ EpochEnds
         \/ \E d \in Durations : FinishStep(d)
         \/ Restart \/ UNCHANGED vars
BY DEF Next, LoopStep, Done, Quiet

-----------------------------------------------------------------------------

LEMMA PlaceInvStep == TypeInv /\ PlaceInv /\ [Next]_vars => PlaceInv'
<1> SUFFICES ASSUME TypeInv, PlaceInv, [Next]_vars PROVE PlaceInv'
  OBVIOUS
<1>0. /\ MaxNumEpochs \in Nat /\ NumBatches \in Nat \ {0}
      /\ currentStep \in Nat /\ totalSteps \in Nat /\ currentEpoch \in Nat /\ pos \in Nat
      /\ saved.step \in Nat /\ saved.total \in Nat /\ saved.epoch \in Nat /\ saved.pos \in Nat
  BY LoopsAssumption DEF TypeInv, Counters, Checkpoints
<1>1. ASSUME config' = config PROVE \A t : BelowLimit(t)' = BelowLimit(t)
  BY <1>1 DEF BelowLimit, RmBelowLimit
<1> USE DEF PlaceInv, ThisBatch, counters
<1>2. CASE Quiet
  BY <1>1, <1>2, QuietKeeps DEF BelowLimit, RmBelowLimit
<1>3. CASE EnterEpoch
  <2>1. /\ ~InStep /\ ~InStep'
        /\ phase' = "batch" => currentEpoch < MaxNumEpochs /\ BelowLimit(totalSteps)
        /\ UNCHANGED <<config, counters, pos, saved>>
    BY <1>3, EndsBetween DEF EnterEpoch, Goto, Continues
  <2> QED
    BY <2>1 DEF BelowLimit, RmBelowLimit
<1>4. CASE NextBatch
  <2>1. /\ ~InStep /\ InStep' /\ phase = "batch" /\ pos < NumBatches /\ pos' = pos + 1
        /\ UNCHANGED <<config, counters, saved, clock>>
    BY <1>4, NextBatchMoves
  <2>2. currentStep \in {pos, pos - NumBatches} /\ pos - NumBatches < 0
    BY <1>0, <2>1
  <2>3. currentStep = pos
    BY <1>0, <2>2
  <2> QED
    BY <1>0, <2>1, <2>3 DEF BelowLimit, RmBelowLimit
<1>5. CASE EpochEnds
  <2>1. /\ ~InStep /\ ~InStep' /\ phase = "batch" /\ phase' = "epoch" /\ pos = NumBatches
        /\ pos' = 0 /\ currentStep' = 0 /\ currentEpoch' = currentEpoch + 1
        /\ UNCHANGED <<totalSteps, saved>>
    BY <1>5, EndsBetween DEF EpochEnds, Goto
  <2>2. (currentEpoch + 1) * NumBatches + 0 = currentEpoch * NumBatches + NumBatches
    BY <1>0
  <2> QED
    BY <1>0, <2>1, <2>2
<1>6. ASSUME NEW d \in Durations, FinishStep(d) PROVE PlaceInv'
  <2>1. SavedStep \in {pos, pos - NumBatches}
    <3>1. currentStep + 1 = pos
      BY <1>6, FinishStepMoves
    <3>a. SavedStep \in {pos, pos % NumBatches}
      BY <3>1, Zenon DEF SavedStep
    <3>2. CASE pos < NumBatches
      <4>1. pos \in 0 .. NumBatches - 1 /\ NumBatches \in Nat \ {0}
        BY <1>0, <3>2
      <4>2. pos % NumBatches = pos
        BY <4>1, SmallRemainder, Zenon
      <4> QED
        BY <3>a, <4>2
    <3>3. CASE pos = NumBatches
      <4>1. pos % NumBatches = pos - NumBatches
        BY <1>0, <3>3, SmallRemainder
      <4> QED
        BY <3>a, <4>1
    <3> QED
      BY <1>0, <3>2, <3>3
  <2> QED
    BY <1>0, <1>6, <2>1, FinishStepMoves DEF BelowLimit, RmBelowLimit
<1>7. CASE Restart
  <2>1. ~InStep'
    BY <1>7, EndsBetween
  <2> QED
    BY <1>0, <1>7, <2>1 DEF Restart
<1>8. CASE UNCHANGED vars
  BY <1>8 DEF vars, InStep, BelowLimit, RmBelowLimit
<1> QED
  BY <1>2, <1>3, <1>4, <1>5, <1>6, <1>7, <1>8, StepCases

LEMMA LimitMeans ==
  ASSUME config \in Configs, NEW t \in Nat, t <= LimitOf(config)
  PROVE  /\ LimitOf(config) \in Nat /\ LimitOf(config) <= TotalBatches /\ TotalBatches \in Nat
         /\ BelowLimit(t) /\ t + 1 <= TotalBatches => t + 1 <= LimitOf(config)
         /\ ~BelowLimit(t) => t = LimitOf(config)
         /\ t = LimitOf(config) => ~BelowLimit(t) \/ t = TotalBatches
<1> DEFINE T == TotalBatches
<1>1. T \in Nat
  BY LoopsAssumption DEF TotalBatches
<1>2. config.maxNumSteps \in Int
  BY ConfigFields
<1>3. LimitOf(config) = IF config.kind = "rm" /\ config.maxNumSteps = -1 THEN T
              ELSE IF config.maxNumSteps < 0 THEN 0
              ELSE IF config.maxNumSteps < T THEN config.maxNumSteps ELSE T
  BY DEF LimitOf
<1>4. BelowLimit(t) <=>
        (config.kind = "rm" /\ config.maxNumSteps = -1) \/ t < config.maxNumSteps
  BY DEF BelowLimit, RmBelowLimit
<1> HIDE DEF T
<1>5. /\ LimitOf(config) \in Nat /\ LimitOf(config) <= T
      /\ BelowLimit(t) /\ t + 1 <= T => t + 1 <= LimitOf(config)
      /\ ~BelowLimit(t) => t = LimitOf(config)
      /\ t = LimitOf(config) => ~BelowLimit(t) \/ t = T
  BY <1>1, <1>2, <1>3, <1>4
<1> QED
  BY <1>1, <1>5 DEF T

(* The batch of a step is one of the epochs'; that of the last step is the *)
(* last of all, and only the end of the last epoch is past it.             *)
LEMMA Laid ==
  ASSUME NEW e \in Nat, NEW p \in Nat, p <= NumBatches
  PROVE  /\ e < MaxNumEpochs => e * NumBatches + p <= TotalBatches
         /\ e < MaxNumEpochs /\ e * NumBatches + p = TotalBatches =>
              e + 1 = MaxNumEpochs /\ p = NumBatches
<1>0. MaxNumEpochs \in Nat /\ NumBatches \in Nat \ {0}
  BY LoopsAssumption
<1> SUFFICES ASSUME e < MaxNumEpochs
             PROVE  /\ e * NumBatches + p <= TotalBatches
                    /\ e * NumBatches + p = TotalBatches => e + 1 = MaxNumEpochs /\ p = NumBatches
  OBVIOUS
<1>1. PICK k \in Nat : MaxNumEpochs = e + 1 + k
  BY <1>0
<1>2. TotalBatches = e * NumBatches + NumBatches + k * NumBatches
  BY <1>0, <1>1 DEF TotalBatches
<1>3. k * NumBatches \in Nat /\ (k > 0 => k * NumBatches >= NumBatches)
  BY <1>0
<1>4. e * NumBatches \in Nat
  BY <1>0
<1> QED
  BY <1>0, <1>1, <1>2, <1>3, <1>4

LEMMA LimitInvStep == TypeInv /\ PlaceInv /\ LimitInv /\ [Next]_vars => LimitInv'
<1> SUFFICES ASSUME TypeInv, PlaceInv, LimitInv, [Next]_vars PROVE LimitInv'
  OBVIOUS
<1>0. /\ MaxNumEpochs \in Nat /\ NumBatches \in Nat \ {0} /\ TotalBatches \in Nat
      /\ currentStep \in Nat /\ totalSteps \in Nat /\ currentEpoch \in Nat /\ pos \in Nat
      /\ saved.total \in Nat /\ config.savePeriod \in Nat \ {0} /\ config \in Configs
      /\ LimitOf(config) \in Nat
  BY LoopsAssumption, ConfigFields, LimitMeans DEF TypeInv, Counters, Checkpoints, LimitInv
<1> USE DEF counters
<1>1. CASE Quiet
  BY <1>1, QuietKeeps DEF LimitInv
<1>2. CASE EnterEpoch
  <2>1. /\ ~InStep /\ ~InStep' /\ UNCHANGED <<config, counters, saved, clock>>
        /\ phase' = "done" => ~Continues
    BY <1>2, EndsBetween DEF EnterEpoch, Goto
  <2>2. ~Continues => totalSteps = LimitOf(config)
    <3>1. CASE ~BelowLimit(totalSteps)
      BY <1>0, <3>1, LimitMeans DEF LimitInv
    <3>2. CASE ~(currentEpoch < MaxNumEpochs)
      <4>1. currentEpoch = MaxNumEpochs /\ totalSteps = TotalBatches + pos
        BY <1>0, <2>1, <3>2 DEF PlaceInv, ThisBatch, TotalBatches
      <4> QED
        BY <1>0, <4>1, LimitMeans DEF LimitInv
    <3> QED
      BY <3>1, <3>2 DEF Continues
  <2> QED
    BY <2>1, <2>2 DEF LimitInv
<1>3. CASE NextBatch
  BY <1>3, NextBatchMoves DEF LimitInv
<1>4. CASE EpochEnds
  <2>1. /\ ~InStep /\ ~InStep' /\ phase' = "epoch"
        /\ UNCHANGED <<config, totalSteps, saved, clock>>
    BY <1>4, EndsBetween DEF EpochEnds, Goto
  <2> QED
    BY <2>1 DEF LimitInv
<1>5. ASSUME NEW d \in Durations, FinishStep(d) PROVE LimitInv'
  <2>1. /\ InStep /\ ~InStep' /\ totalSteps' = totalSteps + 1 /\ config' = config
        /\ phase' = "done" => Expired(clock') \/ ~BelowLimit(totalSteps + 1)
        /\ totalSteps + 1 = ThisBatch /\ currentStep + 1 = pos
        /\ currentEpoch < MaxNumEpochs /\ BelowLimit(totalSteps) /\ pos <= NumBatches
    BY <1>5, FinishStepMoves DEF PlaceInv
  <2>2. totalSteps + 1 <= TotalBatches
    BY <1>0, <2>1, Laid DEF ThisBatch
  <2>3. totalSteps + 1 <= LimitOf(config)
    BY <1>0, <2>1, <2>2, LimitMeans DEF LimitInv
  <2>4. ~BelowLimit(totalSteps + 1) => totalSteps + 1 = LimitOf(config)
    BY <1>0, <2>3, LimitMeans
  <2>5. totalSteps + 1 = LimitOf(config) => IsLastStep
    <3>1. totalSteps + 1 = TotalBatches => currentEpoch + 1 = MaxNumEpochs /\ pos = NumBatches
      BY <1>0, <2>1, Laid DEF ThisBatch
    <3>2. totalSteps + 1 = LimitOf(config) =>
            ~BelowLimit(totalSteps + 1) \/ totalSteps + 1 = TotalBatches
      BY <1>0, <2>3, LimitMeans
    <3> QED
      BY <1>0, <2>1, <3>1, <3>2 DEF IsLastStep
  <2>6. Expired(clock)' = Expired(clock') /\ LimitOf(config)' = LimitOf(config)
    BY <2>1 DEF Expired, LimitOf, TotalBatches
  <2>7. CASE saved'.total = totalSteps + 1
    <3>0. totalSteps + 1 \in Nat
      BY <1>0
    <3>a. (totalSteps + 1) % config.savePeriod \in 0 .. config.savePeriod - 1
      BY <1>0, <3>0, DivMod, Zenon
    <3>1. (totalSteps + 1) % config.savePeriod \in Nat
      BY <1>0, <3>a
    <3> QED
      BY <1>0, <2>1, <2>3, <2>4, <2>6, <2>7, <3>1 DEF LimitInv
  <2>8. CASE /\ saved' = saved /\ ~IsLastStep /\ ~Expired(clock')
             /\ (totalSteps + 1) % config.savePeriod # 0
    <3>1. (totalSteps + 1) % config.savePeriod = (totalSteps % config.savePeriod) + 1
      BY <1>0, <2>8, ModSucc
    <3>2. totalSteps % config.savePeriod \in 0 .. config.savePeriod - 1
      BY <1>0, DivMod
    <3>3. totalSteps + 1 # LimitOf(config) /\ phase' # "done"
      BY <2>1, <2>4, <2>5, <2>8
    <3> QED
      BY <1>0, <2>1, <2>3, <2>6, <2>8, <3>1, <3>2, <3>3 DEF LimitInv
  <2> QED
    BY <1>5, <2>7, <2>8, FinishStepMoves
<1>6. CASE Restart
  <2>1. /\ phase' = "begin" /\ totalSteps' = saved.total /\ UNCHANGED <<config, saved>>
    BY <1>6 DEF Restart
  <2>2. saved.total % config.savePeriod \in 0 .. config.savePeriod - 1
    BY <1>0, DivMod
  <2> QED
    BY <1>0, <2>1, <2>2 DEF LimitInv
<1>7. CASE UNCHANGED vars
  <2>0. UNCHANGED <<config, counters, saved, clock, phase, after>>
    BY <1>7 DEF vars
  <2>1. InStep' <=> InStep
    BY <2>0 DEF InStep
  <2> QED
    BY <2>0, <2>1 DEF LimitInv, Expired
<1> QED
  BY <1>1, <1>2, <1>3, <1>4, <1>5, <1>6, <1>7, StepCases

-----------------------------------------------------------------------------
(* What was trained on, and the weights it made. *)

(* The weights of the policy, also while it holds the reference's. *)
Own == IF phase = "in_reference" THEN policy.kept ELSE policy.weights

(* Every step counted trained on its batch, and so did the one under way   *)
(* once the optimizer has stepped; the policy took as many steps, and the  *)
(* checkpoint as many as it says.                                          *)
TrainedInv ==
  /\ trained \in [0 .. TotalBatches - 1 -> Int]
  /\ \A s \in 0 .. TotalBatches - 1 : trained[s] \in {0, s + 1}
  /\ \A s \in 0 .. TotalBatches - 1 :
       s < totalSteps + (IF Updated THEN 1 ELSE 0) => trained[s] # 0
  /\ Own = totalSteps + (IF Updated THEN 1 ELSE 0)
  /\ saved.weights = saved.total

(* Most of those steps leave the policy's own weights alone, too.          *)
LEMMA WeightsKept ==
  ASSUME TypeInv, Quiet \/ EnterEpoch \/ NextBatch \/ EpochEnds, ~Train
  PROVE  /\ Own' = Own /\ UNCHANGED <<totalSteps, saved, trained>>
         /\ Updated' <=> Updated
<1>1. UNCHANGED <<totalSteps, saved, trained>> /\ (Updated' <=> Updated)
  <2> USE DEF TypeInv, Shape, Updated, Refitting, Working, Generating, Goto, counters
  <2>1. CASE Begin \/ Ready \/ EnterEpoch \/ NextBatch \/ EpochEnds
    BY <2>1 DEF Begin, Ready, EnterEpoch, NextBatch, EpochEnds
  <2>2. CASE EnterReferenceModel \/ LeaveReferenceModel \/ PrepareEngine \/ OffloadOptimizer
    BY <2>2 DEF EnterReferenceModel, LeaveReferenceModel, PrepareEngine, OffloadOptimizer
  <2>3. CASE StreamWeights \/ Offload \/ Wake \/ Rollout
    BY <2>3 DEF StreamWeights, Offload, Wake, Rollout
  <2>4. CASE ValidateAnswers \/ TeacherDone \/ LogprobsDone \/ Validate
    BY <2>4 DEF ValidateAnswers, TeacherDone, LogprobsDone, Validate
  <2> QED
    BY <2>1, <2>2, <2>3, <2>4 DEF Quiet
<1>2. Own' = Own
  <2>0. policy \in Workers
    BY Typed
  <2>1. CASE policy' = policy /\ phase # "in_reference" /\ phase' # "in_reference"
    BY <2>1 DEF Own
  <2>2. CASE policy'.weights = policy.weights /\ phase # "in_reference" /\ phase' # "in_reference"
    BY <2>2 DEF Own
  <2>3. CASE EnterReferenceModel
    BY <2>0, <2>3, WorkerMoves DEF EnterReferenceModel, Own, Goto
  <2>4. CASE LeaveReferenceModel
    BY <2>0, <2>4, WorkerMoves DEF LeaveReferenceModel, Own, Goto
  <2>5. CASE EnterEpoch \/ NextBatch \/ EpochEnds \/ PrepareEngine \/ ValidateAnswers
    BY <2>1, <2>5
    DEF EnterEpoch, NextBatch, EpochEnds, PrepareEngine, ValidateAnswers, Goto, memory
  <2>6. CASE Begin
    BY <2>1, <2>2, <2>6, ValidateLossMoves DEF Begin, Goto, memory
  <2>7. CASE Validate
    BY <2>1, <2>2, <2>7, ValidateLossMoves DEF Validate, Goto, memory
  <2>8. CASE Ready \/ Offload \/ TeacherDone \/ LogprobsDone
    BY <2>0, <2>2, <2>8, WorkerMoves DEF Ready, Offload, TeacherDone, LogprobsDone, Goto
  <2>9. CASE OffloadOptimizer
    BY <2>0, <2>1, <2>2, <2>9, WorkerMoves DEF OffloadOptimizer, Goto
  <2>10. CASE StreamWeights
    BY <2>0, <2>2, <2>10, WorkerMoves DEF StreamWeights, Goto
  <2>11. CASE Wake
    <3>1. [policy EXCEPT !.model = "gpu"].weights = policy.weights
      BY <2>0 DEF Workers
    <3>2. phase' # "in_reference"
      BY <2>11 DEF Wake, TypeInv, Shape, Generating
    <3> QED
      BY <2>1, <2>2, <2>11, <3>1, <3>2 DEF Wake
  <2>12. CASE Rollout
    BY <2>0, <2>1, <2>2, <2>12, WorkerMoves DEF Rollout, Goto
  <2> QED
    BY <2>3, <2>4, <2>5, <2>6, <2>7, <2>8, <2>9, <2>10, <2>11, <2>12 DEF Quiet
<1> QED
  BY <1>1, <1>2

LEMMA TrainedInvStep ==
  TypeInv /\ PlaceInv /\ LimitInv /\ TrainedInv /\ [Next]_vars => TrainedInv'
<1> SUFFICES ASSUME TypeInv, PlaceInv, LimitInv, TrainedInv, [Next]_vars PROVE TrainedInv'
  OBVIOUS
<1>0. /\ totalSteps \in Nat /\ saved.total \in Nat /\ saved.total <= totalSteps
      /\ TotalBatches \in Nat /\ currentEpoch \in Nat /\ pos \in Nat
      /\ policy \in Workers /\ policy.weights \in Int
  BY Typed, LoopsAssumption DEF TypeInv, Counters, Checkpoints, LimitInv, TotalBatches
<1>1. CASE Train
  <2>1. /\ phase = "train" /\ phase' = "validate" /\ after' = after /\ InStep
        /\ policy' = [policy EXCEPT !.weights = @ + 1]
        /\ trained' = [trained EXCEPT ![totalSteps] = ThisBatch]
        /\ UNCHANGED <<totalSteps, saved>>
    BY <1>1 DEF Train, Goto, InStep, Working, counters
  <2>2. ~Updated /\ Updated'
    BY <2>1 DEF TypeInv, Shape, Updated, Refitting
  <2>3. policy'.weights = policy.weights + 1
    BY <1>0, <2>1 DEF Workers
  <2>4. /\ ThisBatch = totalSteps + 1 /\ totalSteps \in 0 .. TotalBatches - 1
        /\ totalSteps + 1 # 0
    BY <1>0, <2>1, Laid DEF PlaceInv, ThisBatch
  <2>5. /\ trained' \in [0 .. TotalBatches - 1 -> Int]
        /\ \A s \in 0 .. TotalBatches - 1 :
             trained'[s] = IF s = totalSteps THEN totalSteps + 1 ELSE trained[s]
    BY <2>1, <2>4 DEF TrainedInv
  <2>a. /\ Own = totalSteps
        /\ \A s \in 0 .. TotalBatches - 1 :
             trained[s] \in {0, s + 1} /\ (s < totalSteps => trained[s] # 0)
    BY <1>0, <2>2 DEF TrainedInv
  <2>6. Own' = totalSteps + 1
    BY <2>1, <2>3, <2>a DEF Own
  <2>7. \A s \in 0 .. TotalBatches - 1 :
          /\ trained'[s] \in {0, s + 1} /\ (s < totalSteps + 1 => trained'[s] # 0)
    <3> SUFFICES ASSUME NEW s \in 0 .. TotalBatches - 1
                 PROVE  trained'[s] \in {0, s + 1} /\ (s < totalSteps + 1 => trained'[s] # 0)
      OBVIOUS
    <3>1. CASE s = totalSteps
      BY <1>0, <2>4, <2>5, <3>1
    <3>2. CASE s # totalSteps
      <4>1. trained'[s] = trained[s] /\ (s < totalSteps + 1 => s < totalSteps)
        BY <1>0, <2>5, <3>2
      <4> QED
        BY <2>a, <4>1
    <3> QED
      BY <3>1, <3>2
  <2> QED
    BY <2>1, <2>2, <2>5, <2>6, <2>7 DEF TrainedInv
<1>2. CASE (Quiet \/ EnterEpoch \/ NextBatch \/ EpochEnds) /\ ~Train
  BY <1>2, WeightsKept DEF TrainedInv
<1>3. ASSUME NEW d \in Durations, FinishStep(d) PROVE TrainedInv'
  <2>1. /\ phase = "save" /\ phase' \in {"batch", "done"} /\ after' = after
        /\ totalSteps' = totalSteps + 1 /\ trained' = trained
    BY <1>3 DEF FinishStep, Goto
  <2>2. Updated /\ ~Updated'
    BY <2>1 DEF TypeInv, Shape, Updated, Refitting
  <2>3. policy'.weights = policy.weights
    BY <1>0, <1>3, WorkerMoves DEF FinishStep
  <2>4. Own = policy.weights /\ Own' = policy.weights
    BY <2>1, <2>3 DEF Own
  <2>5. saved'.weights = saved'.total
    BY <1>3, <2>2, <2>4, FinishStepMoves DEF TrainedInv
  <2> QED
    BY <1>0, <2>1, <2>2, <2>4, <2>5 DEF TrainedInv
<1>4. CASE Restart
  <2>1. /\ phase' = "begin" /\ after' = "none" /\ saved' = saved /\ totalSteps' = saved.total
        /\ trained' = [s \in 0 .. TotalBatches - 1 |-> IF s < saved.total THEN trained[s] ELSE 0]
        /\ policy' = Built(Setting, saved.weights)
    BY <1>4 DEF Restart, Setup
  <2>2. Own' = saved.total
    BY <2>1 DEF Own, Built, TrainedInv
  <2>3. ~Updated'
    BY <2>1 DEF Updated
  <2>4. \A s \in 0 .. TotalBatches - 1 :
          trained'[s] = IF s < saved.total THEN trained[s] ELSE 0
    BY <2>1
  <2>5. \A s \in 0 .. TotalBatches - 1 :
          /\ trained'[s] \in {0, s + 1} /\ (s < saved.total => trained'[s] # 0)
    BY <1>0, <2>4 DEF TrainedInv
  <2>6. trained' \in [0 .. TotalBatches - 1 -> Int]
    BY <2>1 DEF TrainedInv
  <2> QED
    BY <1>0, <2>1, <2>2, <2>3, <2>5, <2>6 DEF TrainedInv
<1>5. CASE UNCHANGED vars
  BY <1>5 DEF vars, counters, memory, TrainedInv, Own, Updated
<1> QED
  BY <1>1, <1>2, <1>3, <1>4, <1>5, StepCases

LEMMA CountersInit == Init => PlaceInv /\ LimitInv /\ TrainedInv
<1> SUFFICES ASSUME Init PROVE PlaceInv /\ LimitInv /\ TrainedInv
  OBVIOUS
<1>0. /\ MaxNumEpochs \in Nat /\ NumBatches \in Nat \ {0} /\ TotalBatches \in Nat
      /\ config \in Configs /\ config.maxNumSteps \in Int /\ config.savePeriod \in Nat \ {0}
  BY LoopsAssumption, ConfigFields DEF TotalBatches, Init
<1>1. ~InStep /\ ~Updated /\ phase = "begin" /\ totalSteps = 0 /\ saved.total = 0
      /\ policy.weights = 0 /\ currentEpoch = 0 /\ pos = 0 /\ currentStep = 0
  BY DEF Init, InStep, Updated, Refitting, Working, Built
<1>2. PlaceInv
  BY <1>0, <1>1 DEF Init, PlaceInv, ThisBatch
<1>3. 0 <= LimitOf(config)
  BY <1>0 DEF LimitOf
<1>4. 0 % config.savePeriod \in 0 .. config.savePeriod - 1
  BY <1>0, DivMod
<1>5. LimitInv
  BY <1>0, <1>1, <1>3, <1>4 DEF LimitInv
<1>6. TrainedInv
  BY <1>0, <1>1 DEF Init, TrainedInv, Own
<1> QED
  BY <1>2, <1>5, <1>6

(* Each batch is trained once and in its place, whatever the restarts, and *)
(* only the deadline ends a run before its limits (the counters, the       *)
(* position of the dataloader and the checkpoint's state agree).           *)
THEOREM EachBatchAlwaysOnce == Spec => []EachBatchOnce
<1>1. TypeInv /\ PlaceInv /\ LimitInv /\ TrainedInv => EachBatchOnce
  <2> SUFFICES ASSUME TypeInv, PlaceInv, LimitInv, TrainedInv PROVE EachBatchOnce
    OBVIOUS
  <2>0. totalSteps \in Nat /\ DOMAIN trained = 0 .. TotalBatches - 1 /\ TotalBatches \in Nat
    BY LoopsAssumption DEF TypeInv, Counters, TrainedInv, TotalBatches
  <2>1. \A s \in DOMAIN trained :
          trained[s] \in {0, s + 1} /\ (s < totalSteps => trained[s] # 0)
    BY <2>0 DEF TrainedInv
  <2>2. (IF phase = "in_reference" THEN policy.kept ELSE policy.weights)
          = totalSteps + (IF phase \in {"validate", "save"}
                               \/ after = "validation" \/ phase = "validation" THEN 1 ELSE 0)
    BY DEF TrainedInv, Own, Updated
  <2> QED
    BY <2>1, <2>2 DEF EachBatchOnce, LimitInv
<1> QED
  BY <1>1, CountersInit, TypeInvInit, TypeInvStep, PlaceInvStep, LimitInvStep, TrainedInvStep, PTL DEF Spec

-----------------------------------------------------------------------------
(* The deadline. *)

(* At an average of e over n iterations, one more ends in time. *)
InTime(e, n) == e * n + e < config.deadline * n

(* While the run goes on, the last check said that there is time; so it    *)
(* did before the last iteration.                                          *)
DeadlineInv ==
  config.deadline > 0 =>
    /\ clock.iterations > 0 /\ phase # "done" => InTime(clock.elapsed, clock.iterations)
    /\ clock.iterations > 1 =>
         /\ clock.elapsed - clock.last \in Nat
         /\ InTime(clock.elapsed - clock.last, clock.iterations - 1)

LEMMA DeadlineInvStep == TypeInv /\ DeadlineInv /\ [Next]_vars => DeadlineInv'
<1> SUFFICES ASSUME TypeInv, DeadlineInv, [Next]_vars PROVE DeadlineInv'
  OBVIOUS
<1>0. clock.elapsed \in Nat /\ clock.iterations \in Nat /\ clock.last \in Nat
  BY DEF TypeInv, Counters, Clocks
<1>1. CASE UNCHANGED <<config, clock>> /\ (phase' = "done" \/ phase # "done")
  BY <1>1 DEF DeadlineInv, InTime
<1>2. CASE Quiet \/ EnterEpoch \/ NextBatch \/ EpochEnds
  <2>1. CASE Quiet
    <3>1. UNCHANGED <<config, clock>>
      BY <2>1, QuietKeeps
    <3>2. phase # "done"
      BY <2>1
      DEF Quiet, Begin, Ready, EnterReferenceModel, LeaveReferenceModel, PrepareEngine,
          OffloadOptimizer, StreamWeights, Offload, Wake, Rollout, ValidateAnswers, TeacherDone,
          LogprobsDone, Train, Validate
    <3> QED
      BY <1>1, <3>1, <3>2
  <2>2. CASE EnterEpoch \/ NextBatch \/ EpochEnds
    BY <1>1, <2>2 DEF EnterEpoch, NextBatch, EpochEnds
  <2> QED
    BY <1>2, <2>1, <2>2
<1>3. ASSUME NEW d \in Durations, FinishStep(d) PROVE DeadlineInv'
  <2>0. d \in Nat
    BY LoopsAssumption
  <2>1. /\ phase = "save" /\ config' = config
        /\ clock' = IF config.deadline > 0 THEN Marked(d) ELSE clock
        /\ Expired(clock') => phase' = "done"
    BY <1>3 DEF FinishStep, Goto
  <2>2. CASE ~(config.deadline > 0)
    BY <2>1, <2>2 DEF DeadlineInv
  <2>3. CASE config.deadline > 0
    <3>1. /\ clock'.elapsed = clock.elapsed + d /\ clock'.iterations = clock.iterations + 1
          /\ clock'.last = d
      BY <2>1, <2>3 DEF Marked
    <3>2. config.deadline \in Nat
      BY ConfigFields DEF TypeInv, Counters
    <3>3. clock'.elapsed \in Nat /\ clock'.iterations \in Nat
      BY <1>0, <2>0, <3>1
    <3>4. phase' # "done" => InTime(clock'.elapsed, clock'.iterations)
      <4> SUFFICES ASSUME phase' # "done"
                   PROVE  clock'.elapsed * clock'.iterations + clock'.elapsed
                            < config.deadline * clock'.iterations
        BY DEF InTime
      <4>1. ~(clock'.elapsed * clock'.iterations + clock'.elapsed
                >= config.deadline * clock'.iterations)
        BY <2>1, <2>3 DEF Expired
      <4> QED
        BY <3>2, <3>3, <4>1
    <3>5. clock'.elapsed - clock'.last = clock.elapsed
          /\ clock'.iterations - 1 = clock.iterations
      BY <1>0, <2>0, <3>1
    <3>6. clock'.iterations > 1 => InTime(clock.elapsed, clock.iterations)
      BY <1>0, <2>1, <2>3, <3>1 DEF DeadlineInv
    <3> QED
      BY <1>0, <2>1, <3>4, <3>5, <3>6 DEF DeadlineInv, InTime
  <2> QED
    BY <2>2, <2>3
<1>4. CASE Restart
  BY <1>4 DEF Restart, DeadlineInv
<1>5. CASE UNCHANGED vars
  BY <1>5 DEF vars, DeadlineInv, InTime
<1> QED
  BY <1>2, <1>3, <1>4, <1>5, StepCases

(* What takes no longer than the average of the iterations before it ends  *)
(* in time if one of average length does.                                  *)
LEMMA NoLonger ==
  ASSUME NEW D \in Nat, NEW e \in Nat, NEW n \in Nat \ {0}, NEW l \in Nat,
         e * n + e < D * n, l * n <= e
  PROVE  e + l < D
<1> SUFFICES ASSUME e + l >= D PROVE FALSE
  OBVIOUS
<1>1. (e + l) * n >= D * n
  BY SMT
<1>2. (e + l) * n = e * n + l * n
  OBVIOUS
<1>3. e * n \in Nat /\ l * n \in Nat /\ D * n \in Nat
  OBVIOUS
<1> QED
  BY <1>1, <1>2, <1>3

(* A run has turned to its last save and stopped before its deadline if    *)
(* its steps take no longer than on average (TimeoutChecker.check_save).   *)
THEOREM DeadlineAlwaysKept == Spec => []DeadlineKept
<1>1. Init => DeadlineInv
  BY DEF Init, DeadlineInv
<1>2. TypeInv /\ DeadlineInv => DeadlineKept
  <2> SUFFICES ASSUME TypeInv, DeadlineInv, config.deadline > 0, clock.iterations > 1,
                      clock.last * (clock.iterations - 1) <= clock.elapsed - clock.last
               PROVE  clock.elapsed < config.deadline
    BY DEF DeadlineKept
  <2> DEFINE e == clock.elapsed - clock.last
             n == clock.iterations - 1
  <2>0. clock.elapsed \in Nat /\ clock.iterations \in Nat /\ clock.last \in Nat
        /\ config.deadline \in Nat
    BY ConfigFields DEF TypeInv, Counters, Clocks
  <2>1. e \in Nat /\ n \in Nat \ {0} /\ e * n + e < config.deadline * n /\ clock.last * n <= e
    BY <2>0 DEF DeadlineInv, InTime
  <2>2. clock.elapsed = e + clock.last
    BY <2>0
  <2> HIDE DEF e, n
  <2>3. e + clock.last < config.deadline
    BY <2>0, <2>1, NoLonger
  <2> QED
    BY <2>2, <2>3
<1> QED
  BY <1>1, <1>2, TypeInvInit, TypeInvStep, DeadlineInvStep, PTL DEF Spec

-----------------------------------------------------------------------------
(* Where parameters are. *)

Shared == config.engine \in {"colocated", "self"}
OnHost == config.cpuOffload /\ ~config.megatron
Home == IF OnHost THEN "cpu" ELSE "gpu"
OptHome == IF config.cpuOffload THEN "cpu" ELSE "gpu"

(* A policy that computes on the host is there except while it streams;    *)
(* an optimizer is on the GPU only where it belongs there, and nobody      *)
(* moves it if the GPUs are not shared and it stays for logprobs; a        *)
(* supervised loop always finds both in their place.                       *)
HomeInv ==
  /\ OnHost /\ phase # "offload" => policy.model = "cpu"
  /\ config.cpuOffload => policy.optimizer = "cpu"
  /\ ~config.cpuOffload /\ ~config.offloadForLogprob /\ ~Shared => policy.optimizer = "gpu"
  /\ config.kind \in Supervised \/ phase = "train" =>
       policy.model = Home /\ policy.optimizer = OptHome
  /\ phase \in {"logprobs", "in_reference"} => policy.model = Home
  /\ phase = "in_reference" => policy.weights = 0
  /\ phase = "offload" => Shared
  /\ phase # "topk" => teacher = "cpu"

(* The flag is set from the training on until the next stream, and then    *)
(* the engine has the policy's weights; a policy not yet streamed was not  *)
(* offloaded either.  The validation before the first step finds it set.   *)
StaleInv ==
  /\ config.kind \in Supervised \/ phase = "train" => stale
  /\ phase \in {"offload_optimizer", "stream"} => stale /\ NeedRefit
  /\ phase \in {"offload", "wake"} => ~stale \/ ~NeedRefit
  /\ stale /\ NeedRefit /\ ~OnHost => policy.model = "gpu"
  /\ ~stale => NeedRefit /\ engine.weights = Own
  /\ phase = "begin" \/ (phase = "prepare" /\ after = "first_validation") => stale
  /\ phase \in Generating => engine.weights = Own

(* An engine on shared GPUs is awake only around its generation, and then  *)
(* whole.                                                                  *)
AwakeInv ==
  /\ ~Shared => engine.held = {"weights", "kv_cache"}
  /\ Shared /\ phase \notin {"stream", "offload", "wake"} \cup Generating => engine.held = {}
  /\ phase \in Generating =>
       IF NeedRefit THEN engine.held = {"weights", "kv_cache"} ELSE policy.model = "gpu"
  /\ phase \in {"wake"} \cup Generating /\ config.engine = "colocated" /\ config.kind = "grpo" =>
       ~OnGpu(policy)

LEMMA SettingFields ==
  ASSUME TypeInv
  PROVE  /\ Setting.megatron = config.megatron /\ Setting.cpuOffload = config.cpuOffload
         /\ Setting.offloadForLogprob = config.offloadForLogprob /\ Setting.colocated = Shared
         /\ ModelHome(Setting) = Home /\ OptimizerHome(Setting) = OptHome
BY DEF Setting, Shared, OnHost, Home, OptHome, ModelHome, OptimizerHome

LEMMA WorkerPlaces ==
  ASSUME NEW m, NEW w \in Workers
  PROVE  /\ PrepareForLogprobs(m, w).model = (IF ModelHome(m) = "gpu" THEN "gpu" ELSE w.model)
         /\ PrepareForLogprobs(m, w).optimizer =
              (IF m.offloadForLogprob THEN "cpu" ELSE w.optimizer)
         /\ PrepareForTraining(m, w).model = (IF ModelHome(m) = "gpu" THEN "gpu" ELSE w.model)
         /\ PrepareForTraining(m, w).optimizer =
              (IF ~m.cpuOffload /\ (m.offloadForLogprob \/ m.colocated) THEN "gpu"
               ELSE w.optimizer)
         /\ OffloadBeforeRefit(w).model = w.model /\ OffloadBeforeRefit(w).optimizer = "cpu"
         /\ OffloadAfterRefit(w).model = "cpu" /\ OffloadAfterRefit(w).optimizer = "cpu"
         /\ Streamed(m, w).model = (IF m.cpuOffload /\ ~m.megatron THEN "gpu" ELSE w.model)
         /\ Streamed(m, w).optimizer = w.optimizer
         /\ Broadcasted(m, w).model = (IF m.cpuOffload /\ ~m.megatron THEN "cpu" ELSE w.model)
         /\ Broadcasted(m, w).optimizer = w.optimizer
<1>1. /\ PrepareForLogprobs(m, w).model = (IF ModelHome(m) = "gpu" THEN "gpu" ELSE w.model)
      /\ PrepareForLogprobs(m, w).optimizer =
           (IF m.offloadForLogprob THEN "cpu" ELSE w.optimizer)
  BY DEF Workers, PrepareForLogprobs
<1>2. /\ PrepareForTraining(m, w).model = (IF ModelHome(m) = "gpu" THEN "gpu" ELSE w.model)
      /\ PrepareForTraining(m, w).optimizer =
           (IF ~m.cpuOffload /\ (m.offloadForLogprob \/ m.colocated) THEN "gpu"
            ELSE w.optimizer)
  BY DEF Workers, PrepareForTraining
<1>3. OffloadBeforeRefit(w).model = w.model /\ OffloadBeforeRefit(w).optimizer = "cpu"
  BY DEF Workers, OffloadBeforeRefit
<1>4. OffloadAfterRefit(w).model = "cpu" /\ OffloadAfterRefit(w).optimizer = "cpu"
  BY DEF Workers, OffloadBeforeRefit, OffloadAfterRefit
<1>5. /\ Streamed(m, w).model = (IF m.cpuOffload /\ ~m.megatron THEN "gpu" ELSE w.model)
      /\ Streamed(m, w).optimizer = w.optimizer
  BY DEF Workers, Streamed
<1>6. /\ Broadcasted(m, w).model = (IF m.cpuOffload /\ ~m.megatron THEN "cpu" ELSE w.model)
      /\ Broadcasted(m, w).optimizer = w.optimizer
  BY DEF Workers, Streamed, Broadcasted
<1> QED
  BY <1>1, <1>2, <1>3, <1>4, <1>5, <1>6

LEMMA ReferencePlaces ==
  ASSUME NEW w \in Workers
  PROVE  /\ EnterReference(w).model = w.model /\ EnterReference(w).optimizer = w.optimizer
         /\ LeaveReference(w).model = w.model /\ LeaveReference(w).optimizer = w.optimizer
BY DEF Workers, EnterReference, LeaveReference

LEMMA ConfigKept == [Next]_vars => UNCHANGED config
BY DEF Next, LoopStep, Done, vars, Begin, Ready, EnterEpoch, NextBatch, EpochEnds,
       EnterReferenceModel, LeaveReferenceModel, PrepareEngine, OffloadOptimizer, StreamWeights,
       Offload, Wake, Rollout, ValidateAnswers, TeacherDone, LogprobsDone, Train, Validate,
       FinishStep, Restart

(* A supervised validation leaves everything where training needs it. *)
LEMMA ValidateLossPlaces ==
  ASSUME TypeInv, config.kind \in Supervised, ValidateLoss, MayTrain(Setting, policy)
  PROVE  MayTrain(Setting, policy')
<1>0. policy \in Workers
  BY Typed
<1>1. \A w \in Workers : MayTrain(Setting, w) => MayTrain(Setting, PrepareForTraining(Setting, w))
  BY SettingFields, WorkerPlaces, ConfigFields
  DEF MayTrain, MayInfer, TypeInv, Counters, Home, OptHome, OnHost
<1>2. PrepareForTraining(Setting, policy) \in Workers
  BY <1>0, WorkerMoves
<1>3. LET v == LeaveReference(EnterReference(policy))
      IN  v \in Workers /\ MayTrain(Setting, v)
  BY <1>0, WorkerMoves, ReferencePlaces DEF MayTrain, MayInfer
<1>4. CASE config.kind = "sft"
  BY <1>0, <1>1, <1>2, <1>4 DEF ValidateLoss, SftValidated
<1>5. CASE config.kind = "dpo"
  BY <1>1, <1>3, <1>5 DEF ValidateLoss, DpoValidated
<1>6. CASE config.kind = "rm"
  BY <1>0, <1>1, <1>6 DEF ValidateLoss, RmValidated
<1> QED
  BY <1>4, <1>5, <1>6 DEF Supervised, ValidateLoss

LEMMA ValidateLossKeepsHome ==
  ASSUME TypeInv, HomeInv, config.kind \in Supervised, ValidateLoss
  PROVE  /\ policy'.model = Home /\ policy'.optimizer = OptHome
         /\ UNCHANGED <<teacher, engine, stale>>
BY SettingFields, ValidateLossPlaces, ValidateLossMoves DEF HomeInv, MayTrain, MayInfer

(* The configuration does not change; what the moves of a worker come to   *)
(* in its terms.                                                           *)
LEMMA Moves ==
  ASSUME TypeInv, [Next]_vars
  PROVE  /\ policy \in Workers /\ engine \in Engines /\ config' = config
         /\ config.kind \in {"sft", "dpo", "rm", "distillation", "grpo"}
         /\ config.cpuOffload \in BOOLEAN /\ config.offloadForLogprob \in BOOLEAN
         /\ Home' = Home /\ OptHome' = OptHome /\ Shared' = Shared /\ OnHost' = OnHost
         /\ Home = (IF OnHost THEN "cpu" ELSE "gpu")
         /\ OptHome = (IF config.cpuOffload THEN "cpu" ELSE "gpu")
         /\ OnHost \in BOOLEAN /\ Shared \in BOOLEAN /\ OnHost => config.cpuOffload
         /\ config.engine = "self" => Shared /\ ~OnHost
         /\ NeedRefit <=> config.engine # "self"
         /\ \A w \in Workers :
              /\ PrepareForLogprobs(Setting, w).model = (IF OnHost THEN w.model ELSE "gpu")
              /\ PrepareForLogprobs(Setting, w).optimizer =
                   (IF config.offloadForLogprob THEN "cpu" ELSE w.optimizer)
              /\ PrepareForTraining(Setting, w).model = (IF OnHost THEN w.model ELSE "gpu")
              /\ PrepareForTraining(Setting, w).optimizer =
                   (IF ~config.cpuOffload /\ (config.offloadForLogprob \/ Shared) THEN "gpu"
                    ELSE w.optimizer)
              /\ Streamed(Setting, w).model = (IF OnHost THEN "gpu" ELSE w.model)
              /\ Broadcasted(Setting, w).model = (IF OnHost THEN "cpu" ELSE w.model)
<1>1. /\ policy \in Workers /\ engine \in Engines /\ config' = config /\ config \in Configs
      /\ config.kind \in {"sft", "dpo", "rm", "distillation", "grpo"}
      /\ config.megatron \in BOOLEAN /\ config.cpuOffload \in BOOLEAN
      /\ config.offloadForLogprob \in BOOLEAN
      /\ config.engine = "self" => config.megatron
  BY Typed, ConfigKept, ConfigFields
<1>2. Home' = Home /\ OptHome' = OptHome /\ Shared' = Shared /\ OnHost' = OnHost
  BY <1>1 DEF Home, OptHome, Shared, OnHost
<1>3. /\ Home = (IF OnHost THEN "cpu" ELSE "gpu")
      /\ OptHome = (IF config.cpuOffload THEN "cpu" ELSE "gpu")
      /\ OnHost \in BOOLEAN /\ Shared \in BOOLEAN /\ OnHost => config.cpuOffload
  BY <1>1 DEF Home, OptHome, Shared, OnHost
<1>4. config.engine = "self" => Shared /\ ~OnHost
  BY <1>1 DEF Shared, OnHost
<1>5. \A w \in Workers :
        /\ PrepareForLogprobs(Setting, w).model = (IF OnHost THEN w.model ELSE "gpu")
        /\ PrepareForLogprobs(Setting, w).optimizer =
             (IF config.offloadForLogprob THEN "cpu" ELSE w.optimizer)
        /\ PrepareForTraining(Setting, w).model = (IF OnHost THEN w.model ELSE "gpu")
        /\ PrepareForTraining(Setting, w).optimizer =
             (IF ~config.cpuOffload /\ (config.offloadForLogprob \/ Shared) THEN "gpu"
              ELSE w.optimizer)
        /\ Streamed(Setting, w).model = (IF OnHost THEN "gpu" ELSE w.model)
        /\ Broadcasted(Setting, w).model = (IF OnHost THEN "cpu" ELSE w.model)
  BY <1>3, SettingFields, WorkerPlaces DEF OnHost
<1> QED
  BY <1>1, <1>2, <1>3, <1>4, <1>5 DEF NeedRefit

LEMMA HomeInvStep == TypeInv /\ HomeInv /\ [Next]_vars => HomeInv'
<1> SUFFICES ASSUME TypeInv, HomeInv, [Next]_vars PROVE HomeInv'
  OBVIOUS
<1>0. policy \in Workers /\ config' = config
  BY Moves
<1> USE DEF HomeInv, Goto, memory
<1>1. CASE Begin
  BY Moves, <1>1, ValidateLossKeepsHome DEF Begin
<1>2. CASE Ready
  BY Moves, <1>2 DEF Ready
<1>3. CASE EnterEpoch \/ NextBatch \/ EpochEnds
  BY Moves, <1>3 DEF EnterEpoch, NextBatch, EpochEnds, Supervised
<1>4. CASE EnterReferenceModel
  <2>1. EnterReference(policy).weights = 0
    BY <1>0, WorkerMoves
  <2> QED
    BY Moves, <1>4, <2>1, ReferencePlaces DEF EnterReferenceModel, TypeInv, Shape, Supervised
<1>5. CASE LeaveReferenceModel
  BY Moves, <1>5, ReferencePlaces DEF LeaveReferenceModel, Supervised
<1>6. CASE PrepareEngine
  BY Moves, <1>6, SettingFields DEF PrepareEngine
<1>7. CASE OffloadOptimizer
  BY Moves, <1>7, SettingFields, WorkerPlaces
  DEF OffloadOptimizer, TypeInv, Shape, Refitting
<1>8. CASE StreamWeights
  <2>1. config.kind \notin Supervised
    BY <1>8 DEF StreamWeights, TypeInv, Shape
  <2> QED
    BY Moves, <1>8, <2>1, SettingFields, WorkerPlaces DEF StreamWeights
<1>9. CASE Offload
  <2>1. config.kind \notin Supervised
    BY <1>9 DEF Offload, TypeInv, Shape
  <2> QED
    BY Moves, <1>9, <2>1, WorkerPlaces DEF Offload
<1>10. CASE Wake
  <2>1. config.kind \notin Supervised /\ phase' \in Generating
    BY <1>10 DEF Wake, TypeInv, Shape, Refitting
  <2>2. [policy EXCEPT !.model = "gpu"].optimizer = policy.optimizer
    BY <1>0 DEF Workers
  <2>3. phase = "wake" /\ teacher = "cpu" /\ teacher' = "cpu"
    BY <1>10 DEF Wake
  <2>4. policy'.optimizer = policy.optimizer /\ (OnHost => policy'.model = "cpu")
    BY Moves, <1>10, <2>2, <2>3 DEF Wake
  <2> QED
    BY Moves, <2>1, <2>3, <2>4 DEF Generating
<1>11. CASE Rollout
  <2>1. config.kind \notin Supervised
    BY <1>11 DEF Rollout, TypeInv, Shape
  <2> QED
    BY Moves, <1>11, <2>1 DEF Rollout
<1>12. CASE ValidateAnswers
  BY Moves, <1>12 DEF ValidateAnswers
<1>13. CASE TeacherDone \/ LogprobsDone
  BY Moves, <1>13 DEF TeacherDone, LogprobsDone
<1>14. CASE Train
  <2>1. policy'.model = policy.model /\ policy'.optimizer = policy.optimizer
    BY <1>0, <1>14 DEF Train, Workers
  <2> QED
    BY Moves, <1>14, <2>1 DEF Train
<1>15. CASE Validate
  BY Moves, <1>15, ValidateLossKeepsHome DEF Validate
<1>16. ASSUME NEW d \in Durations, FinishStep(d) PROVE HomeInv'
  BY Moves, <1>16 DEF FinishStep
<1>17. CASE Restart
  BY Moves, <1>17, SettingFields DEF Restart, Setup, Built
<1>18. CASE UNCHANGED vars
  BY Moves, <1>18 DEF vars
<1> QED
  BY <1>1, <1>2, <1>3, <1>4, <1>5, <1>6, <1>7, <1>8, <1>9, <1>10, <1>11, <1>12, <1>13, <1>14,
     <1>15, <1>16, <1>17, <1>18 DEF Next, LoopStep, Done

LEMMA StaleInvStep == TypeInv /\ HomeInv /\ StaleInv /\ [Next]_vars => StaleInv'
<1> SUFFICES ASSUME TypeInv, HomeInv, StaleInv, [Next]_vars PROVE StaleInv'
  OBVIOUS
<1>0. policy \in Workers /\ engine \in Engines /\ NeedRefit' = NeedRefit /\ policy.weights \in Int
  BY Moves, Typed DEF NeedRefit
<1>k. ASSUME Quiet \/ EnterEpoch \/ NextBatch \/ EpochEnds, ~Train
      PROVE  Own' = Own
  BY <1>k, WeightsKept
<1> USE DEF StaleInv, Goto, memory, Generating
<1>1. CASE Begin
  <2>1. Own' = Own
    BY <1>1, <1>k DEF Begin, Quiet, Train
  <2>2. /\ phase = "begin" /\ phase' \in {"ready", "prepare", "epoch"} /\ stale' = stale
        /\ UNCHANGED engine /\ policy'.model = policy.model
    BY Moves, <1>0, <1>1, ValidateLossKeepsHome DEF Begin, HomeInv
  <2> QED
    BY Moves, <1>0, <2>1, <2>2
<1>2. CASE Ready
  BY Moves, <1>0, <1>2, <1>k DEF Ready, Quiet, Train
<1>3. CASE EnterEpoch \/ NextBatch \/ EpochEnds
  BY Moves, <1>0, <1>3, <1>k DEF EnterEpoch, NextBatch, EpochEnds, Supervised, Train
<1>4. CASE EnterReferenceModel \/ LeaveReferenceModel
  BY Moves, <1>0, <1>4, <1>k, ReferencePlaces
  DEF EnterReferenceModel, LeaveReferenceModel, Quiet, Train, Supervised
<1>5. CASE PrepareEngine
  BY Moves, <1>0, <1>5, <1>k DEF PrepareEngine, Quiet, Train
<1>6. CASE OffloadOptimizer
  <2>1. WakeUp(Setting, engine, {"weights"}).weights = engine.weights
    BY <1>0 DEF WakeUp, Engines
  <2> QED
    BY Moves, <1>0, <1>6, <1>k, <2>1, WorkerPlaces DEF OffloadOptimizer, Quiet, Train
<1>7. CASE StreamWeights
  <2>1. Loaded(engine, policy.weights).weights = policy.weights
    BY <1>0 DEF Loaded, Engines
  <2>2. Own = policy.weights /\ Own' = Own
    BY <1>7, <1>k DEF StreamWeights, Quiet, Train, Own
  <2>3. config.kind \notin Supervised
    BY <1>7 DEF StreamWeights, TypeInv, Shape
  <2> QED
    BY Moves, <1>0, <1>7, <2>1, <2>2, <2>3 DEF StreamWeights
<1>8. CASE Offload
  BY Moves, <1>0, <1>8, <1>k DEF Offload, Quiet, Train
<1>9. CASE Wake
  <2>1. Loaded(engine, policy.weights).weights = policy.weights
    BY <1>0 DEF Loaded, Engines
  <2>2. WakeUp(Setting, engine, {"weights", "kv_cache"}).weights = engine.weights
    BY <1>0 DEF WakeUp, Engines
  <2>3. Own = policy.weights /\ Own' = Own
    BY <1>9, <1>k DEF Wake, Quiet, Train, Own
  <2>4. phase = "wake" /\ phase' \in Generating /\ config.kind \notin Supervised
    BY <1>9 DEF Wake, TypeInv, Shape, Refitting
  <2>5. CASE NeedRefit
    <3>1. policy' = policy /\ engine'.weights = engine.weights /\ stale' = stale /\ ~stale
      BY Moves, <1>9, <2>2, <2>4, <2>5 DEF Wake
    <3> QED
      BY Moves, <1>0, <2>3, <2>4, <2>5, <3>1
  <2>6. CASE ~NeedRefit
    <3>1. engine'.weights = policy.weights /\ stale' = stale
      BY Moves, <1>9, <2>1, <2>6 DEF Wake
    <3> QED
      BY Moves, <1>0, <2>3, <2>4, <2>6, <3>1
  <2> QED
    BY <2>5, <2>6
<1>10. CASE Rollout \/ ValidateAnswers
  <2>1. Finished(Setting, Generated(engine)).weights = engine.weights
    BY <1>0, EngineMoves
  <2> QED
    BY Moves, <1>0, <1>10, <1>k, <2>1
    DEF Rollout, ValidateAnswers, GenerateAndFinish, Quiet, Train
<1>11. CASE TeacherDone \/ LogprobsDone
  BY Moves, <1>0, <1>11, <1>k DEF TeacherDone, LogprobsDone, Quiet, Train
<1>12. CASE Train
  <2>1. policy'.model = policy.model
    BY <1>0, <1>12 DEF Train, Workers
  <2> QED
    BY Moves, <1>0, <1>12, <2>1 DEF Train
<1>13. CASE Validate
  BY Moves, <1>0, <1>13, <1>k, ValidateLossKeepsHome DEF Validate, Quiet, Train
<1>14. ASSUME NEW d \in Durations, FinishStep(d) PROVE StaleInv'
  <2>1. PrepareForTraining(Setting, policy).weights = policy.weights
    BY <1>0, WorkerMoves
  <2>2. Own' = Own
    BY <1>14, <2>1 DEF FinishStep, Own
  <2> QED
    BY Moves, <1>0, <1>14, <2>2 DEF FinishStep
<1>15. CASE Restart
  BY Moves, <1>0, <1>15, SettingFields DEF Restart, Setup, Built
<1>16. CASE UNCHANGED vars
  BY Moves, <1>0, <1>16 DEF vars, Own
<1> QED
  BY <1>1, <1>2, <1>3, <1>4, <1>5, <1>6, <1>7, <1>8, <1>9, <1>10, <1>11, <1>12, <1>13, <1>14,
     <1>15, <1>16 DEF Next, LoopStep, Done

LEMMA AwakeInvStep ==
  TypeInv /\ HomeInv /\ StaleInv /\ AwakeInv /\ [Next]_vars => AwakeInv'
<1> SUFFICES ASSUME TypeInv, HomeInv, StaleInv, AwakeInv, [Next]_vars PROVE AwakeInv'
  OBVIOUS
<1>0. policy \in Workers /\ engine \in Engines /\ NeedRefit' = NeedRefit
      /\ engine.held \subseteq {"weights", "kv_cache"}
  BY Moves DEF NeedRefit, Engines
<1>1. CASE UNCHANGED engine /\ phase \notin {"stream", "offload", "wake"} \cup Generating
           /\ phase' \notin {"stream", "offload", "wake"} \cup Generating
  BY Moves, <1>0, <1>1 DEF AwakeInv
<1>2. CASE Begin
  BY <1>1, <1>2, ValidateLossKeepsHome DEF Begin, Goto, Generating, memory
<1>3. CASE Ready \/ EnterEpoch \/ NextBatch \/ EpochEnds
  BY <1>1, <1>3 DEF Ready, EnterEpoch, NextBatch, EpochEnds, Goto, Generating, memory
<1>4. CASE EnterReferenceModel \/ LeaveReferenceModel \/ TeacherDone \/ LogprobsDone
  BY <1>1, <1>4
  DEF EnterReferenceModel, LeaveReferenceModel, TeacherDone, LogprobsDone, Goto, Generating
<1>5. CASE Train \/ Validate
  BY <1>1, <1>5, ValidateLossKeepsHome DEF Train, Validate, Goto, Generating, memory
<1>6. ASSUME NEW d \in Durations, FinishStep(d) PROVE AwakeInv'
  BY <1>1, <1>6 DEF FinishStep, Goto, Generating
<1>7. CASE PrepareEngine
  <2>1. /\ phase = "prepare" /\ UNCHANGED <<policy, engine>>
        /\ phase' \in {"offload_optimizer", "offload", "wake"}
        /\ phase' = "wake" => ~(config.kind = "grpo" /\ config.engine = "colocated")
    BY <1>7, SettingFields DEF PrepareEngine, Goto, memory, StaleInv, NeedRefit, Shared
  <2> QED
    BY Moves, <1>0, <2>1 DEF AwakeInv, Generating
<1>8. CASE OffloadOptimizer
  <2>1. /\ phase = "offload_optimizer" /\ phase' = "stream"
        /\ ~Shared => UNCHANGED engine
    BY <1>8, SettingFields DEF OffloadOptimizer, Goto
  <2> QED
    BY Moves, <1>0, <2>1 DEF AwakeInv, Generating
<1>9. CASE StreamWeights
  <2>1. Loaded(engine, policy.weights).held = engine.held
    BY Typed, EngineMoves
  <2>2. /\ phase = "stream" /\ phase' = (IF Shared THEN "offload" ELSE "wake")
        /\ engine'.held = engine.held
    BY <1>9, <2>1, SettingFields DEF StreamWeights, Goto
  <2>3. config.engine = "colocated" => Shared
    BY DEF Shared
  <2> QED
    BY Moves, <1>0, <2>2, <2>3 DEF AwakeInv, Generating
<1>10. CASE Offload
  <2>1. /\ phase = "offload" /\ phase' = "wake" /\ UNCHANGED engine
        /\ policy'.model = "cpu" /\ policy'.optimizer = "cpu"
    BY <1>0, <1>10, WorkerPlaces DEF Offload, Goto
  <2>2. ~OnGpu(policy')
    BY <2>1 DEF OnGpu
  <2> QED
    BY Moves, <1>0, <2>1, <2>2 DEF AwakeInv, Generating, OnGpu
<1>11. CASE Wake
  <2>1. phase = "wake" /\ phase' \in Generating
    BY <1>11 DEF Wake, TypeInv, Shape, Refitting
  <2>2. CASE NeedRefit
    <3>1. policy' = policy /\ engine' = WakeUp(Setting, engine, {"weights", "kv_cache"})
      BY <1>11, <2>2 DEF Wake, NeedRefit
    <3>2. WakeUp(Setting, engine, {"weights", "kv_cache"}).held =
            IF Shared THEN engine.held \cup {"weights", "kv_cache"} ELSE engine.held
      BY <1>0, SettingFields DEF WakeUp, Engines
    <3>3. engine'.held = {"weights", "kv_cache"}
      BY <1>0, <3>1, <3>2, Moves DEF AwakeInv
    <3> QED
      BY Moves, <1>0, <2>1, <2>2, <3>1, <3>3 DEF AwakeInv, OnGpu
  <2>3. CASE ~NeedRefit
    <3>1. policy'.model = "gpu"
      BY <1>0, <1>11, <2>3 DEF Wake, NeedRefit, Workers
    <3> QED
      BY Moves, <1>0, <2>1, <2>3, <3>1 DEF AwakeInv, NeedRefit
  <2> QED
    BY <2>2, <2>3
<1>12. CASE Rollout \/ ValidateAnswers
  <2>1. /\ engine'.held = (IF Shared THEN {} ELSE engine.held)
        /\ phase' \notin {"stream", "offload", "wake"} \cup Generating
    BY <1>0, <1>12, EngineMoves, SettingFields
    DEF Rollout, ValidateAnswers, GenerateAndFinish, Goto, Generating
  <2> QED
    BY Moves, <1>0, <2>1 DEF AwakeInv
<1>13. CASE Restart
  <2>1. engine'.held = (IF Shared THEN {} ELSE {"weights", "kv_cache"}) /\ phase' = "begin"
    BY <1>13, SettingFields DEF Restart, Setup, Launched
  <2> QED
    BY Moves, <1>0, <2>1 DEF AwakeInv, Generating
<1>14. CASE UNCHANGED vars
  <2>1. UNCHANGED <<phase, policy, engine>>
    BY <1>14 DEF vars, memory
  <2> QED
    BY Moves, <1>0, <2>1 DEF AwakeInv, OnGpu
<1> QED
  BY <1>2, <1>3, <1>4, <1>5, <1>6, <1>7, <1>8, <1>9, <1>10, <1>11, <1>12, <1>13, <1>14
  DEF Next, LoopStep, Done

LEMMA PlacesInit == Init => HomeInv /\ StaleInv /\ AwakeInv
<1> SUFFICES ASSUME Init PROVE HomeInv /\ StaleInv /\ AwakeInv
  OBVIOUS
<1>1. /\ config.cpuOffload \in BOOLEAN /\ Setting.colocated = Shared /\ Shared \in BOOLEAN
      /\ ModelHome(Setting) = Home /\ OptimizerHome(Setting) = OptHome
  BY TypeInvInit, SettingFields, ConfigFields DEF Init, Shared
<1>2. /\ phase = "begin" /\ teacher = "cpu" /\ stale /\ policy.model = Home
      /\ policy.optimizer = OptHome
      /\ engine.held = IF Shared THEN {} ELSE {"weights", "kv_cache"}
  BY <1>1 DEF Init, Built, Launched
<1>3. HomeInv
  BY <1>1, <1>2 DEF HomeInv, Home, OptHome, OnHost
<1>4. StaleInv
  BY <1>2 DEF StaleInv, Generating, Home
<1>5. AwakeInv
  BY <1>1, <1>2 DEF AwakeInv, Generating
<1> QED
  BY <1>3, <1>4, <1>5

(* Whoever computes finds its parameters where it needs them: engine awake *)
(* and of the policy's weights, policy and teacher where the setting has   *)
(* them, shared GPUs theirs alone (the calls between refit, generation,    *)
(* logprobs, reference model and training of all five loops).              *)
THEOREM AlwaysReadyToCompute == Spec => []ReadyToCompute
<1>1. TypeInv /\ HomeInv /\ StaleInv /\ AwakeInv => ReadyToCompute
  <2> SUFFICES ASSUME TypeInv, HomeInv, StaleInv, AwakeInv PROVE ReadyToCompute
    OBVIOUS
  <2>0. /\ policy \in Workers /\ engine.prefix = NoWeights /\ Setting.colocated = Shared
        /\ ModelHome(Setting) = Home /\ OptimizerHome(Setting) = OptHome
    BY Typed, SettingFields DEF Engines
  <2>1. phase \in {"rollout", "validation", "first_validation"} =>
          /\ engine.weights = policy.weights
          /\ engine.prefix \in {NoWeights, engine.weights}
          /\ IF config.engine = "self" THEN policy.model = "gpu"
             ELSE engine.held = {"weights", "kv_cache"}
          /\ config.engine = "colocated" /\ config.kind = "grpo" => ~OnGpu(policy)
    BY <2>0 DEF StaleInv, AwakeInv, Generating, Own, NeedRefit
  <2>2. Setting.colocated /\ phase \in {"topk", "logprobs", "in_reference", "train"} =>
          engine.held = {}
    BY <2>0 DEF AwakeInv, Generating
  <2>3. phase \in {"logprobs", "in_reference"}
          \/ (config.kind \in Supervised /\ phase = "validate") => MayInfer(Setting, policy)
    BY <2>0 DEF HomeInv, MayInfer
  <2>4. phase = "stream" => Streamed(Setting, policy).model = "gpu"
    <3> SUFFICES ASSUME phase = "stream" PROVE Streamed(Setting, policy).model = "gpu"
      OBVIOUS
    <3>1. OnHost \/ policy.model = "gpu"
      BY DEF StaleInv
    <3>2. Streamed(Setting, policy).model = IF OnHost THEN "gpu" ELSE policy.model
      BY <2>0, WorkerPlaces, SettingFields DEF OnHost
    <3> QED
      BY <3>1, <3>2
  <2>5. phase = "train" => MayTrain(Setting, policy) /\ teacher = "cpu"
    BY <2>0 DEF HomeInv, MayTrain, MayInfer
  <2> QED
    BY <2>1, <2>2, <2>3, <2>4, <2>5 DEF ReadyToCompute, HomeInv
<1> QED
  BY <1>1, PlacesInit, TypeInvInit, TypeInvStep, HomeInvStep, StaleInvStep, AwakeInvStep, PTL DEF Spec

-----------------------------------------------------------------------------
(* The checkpoint. *)

(* From a batch on there is no metric until the validation of its step,    *)
(* which is of the weights about to be saved.                              *)
MetricInv ==
  /\ saved.metric \in {NoMetric, saved.weights}
  /\ InStep /\ phase # "save" => valMetric = NoMetric
  /\ phase = "save" => valMetric \in {NoMetric, policy.weights}

LEMMA MetricInvStep == TypeInv /\ StaleInv /\ MetricInv /\ [Next]_vars => MetricInv'
<1> SUFFICES ASSUME TypeInv, StaleInv, MetricInv, [Next]_vars PROVE MetricInv'
  OBVIOUS
<1>1. CASE Begin
  <2>1. ~InStep' /\ phase' # "save" /\ UNCHANGED saved
    BY <1>1, QuietKeeps, EndsBetween DEF Begin, Quiet, Goto
  <2> QED
    BY <2>1 DEF MetricInv
<1>2. CASE Validate
  <2>1. phase = "validate" /\ InStep /\ UNCHANGED saved
    BY <1>2 DEF Validate, InStep, Working
  <2>2. \/ valMetric' = valMetric /\ (phase' # "save" \/ policy' = policy)
        \/ phase' = "save" /\ valMetric' = policy.weights /\ policy'.weights = policy.weights
    BY <1>2, ValidateLossMoves DEF Validate, Goto, memory
  <2> QED
    BY <2>1, <2>2 DEF MetricInv
<1>3. CASE ValidateAnswers
  <2>1. /\ UNCHANGED <<saved, policy>> /\ (InStep' <=> InStep)
        /\ phase = "first_validation" => ~InStep
        /\ phase' = (IF phase = "validation" THEN "save" ELSE "epoch")
        /\ phase \in {"first_validation", "validation"} /\ valMetric' = engine.weights
    BY <1>3, QuietKeeps
    DEF ValidateAnswers, Quiet, Goto, InStep, Working, Refitting
  <2>2. engine.weights = policy.weights
    BY <2>1 DEF StaleInv, Generating, Own
  <2> QED
    BY <2>1, <2>2 DEF MetricInv
<1>4. CASE Quiet /\ ~Begin /\ ~Validate /\ ~ValidateAnswers
  <2>1. UNCHANGED <<saved, valMetric>> /\ phase # "save" /\ phase' # "save"
    <3>1. CASE Ready \/ EnterReferenceModel \/ LeaveReferenceModel \/ PrepareEngine
      BY <3>1 DEF Ready, EnterReferenceModel, LeaveReferenceModel, PrepareEngine, Goto
    <3>2. CASE OffloadOptimizer \/ StreamWeights \/ Offload \/ Rollout
      BY <3>2 DEF OffloadOptimizer, StreamWeights, Offload, Rollout, Goto
    <3>3. CASE Wake
      BY <3>3 DEF Wake, TypeInv, Shape, Refitting, Generating
    <3>4. CASE TeacherDone \/ LogprobsDone \/ Train
      BY <3>4 DEF TeacherDone, LogprobsDone, Train, Goto
    <3> QED
      BY <1>4, <3>1, <3>2, <3>3, <3>4 DEF Quiet
  <2>2. InStep' <=> InStep
    BY <1>4, QuietKeeps
  <2> QED
    BY <2>1, <2>2 DEF MetricInv
<1>5. CASE NextBatch
  BY <1>5 DEF NextBatch, MetricInv, Goto
<1>6. CASE EnterEpoch \/ EpochEnds \/ Restart
  <2>1. ~InStep' /\ phase' # "save" /\ UNCHANGED saved
    BY <1>6, EndsBetween DEF EnterEpoch, EpochEnds, Restart, Goto
  <2> QED
    BY <2>1 DEF MetricInv
<1>7. ASSUME NEW d \in Durations, FinishStep(d) PROVE MetricInv'
  <2>1. /\ phase = "save" /\ ~InStep' /\ phase' # "save"
        /\ \/ saved' = saved
           \/ saved'.weights = policy.weights /\ saved'.metric = valMetric
    BY <1>7, FinishStepMoves
  <2> QED
    BY <2>1 DEF MetricInv
<1>8. CASE UNCHANGED vars
  BY <1>8 DEF vars, memory, MetricInv, InStep
<1> QED
  BY <1>1, <1>2, <1>3, <1>4, <1>5, <1>6, <1>7, <1>8, StepCases

(* A checkpoint has the weights of its step and at most their own metric,  *)
(* is less than a save period behind, and not at all once a run has        *)
(* stopped by itself; the reference stays the starting model (the saves of *)
(* the five loops and what a restart loads).                               *)
THEOREM CheckpointAlwaysOwn == Spec => []CheckpointOwn
<1>1. Init => HomeInv /\ StaleInv /\ MetricInv
  <2> SUFFICES ASSUME Init PROVE HomeInv /\ StaleInv /\ MetricInv
    OBVIOUS
  <2>1. HomeInv /\ StaleInv
    BY PlacesInit
  <2>2. MetricInv
    BY DEF Init, MetricInv, InStep, Working, Refitting
  <2> QED
    BY <2>1, <2>2
<1>2. TypeInv /\ LimitInv /\ TrainedInv /\ MetricInv => CheckpointOwn
  <2> SUFFICES ASSUME TypeInv, LimitInv, TrainedInv, MetricInv PROVE CheckpointOwn
    OBVIOUS
  <2>1. totalSteps \in Nat /\ saved.total \in Nat /\ config.savePeriod \in Nat \ {0}
    BY ConfigFields DEF TypeInv, Counters, Checkpoints
  <2>2. totalSteps - saved.total < config.savePeriod
    <3>1. totalSteps % config.savePeriod \in 0 .. config.savePeriod - 1
      BY <2>1, DivMod
    <3> QED
      BY <2>1, <3>1 DEF LimitInv
  <2>3. policy.reference = 0
    BY DEF TypeInv, Memories, Workers
  <2> QED
    BY <2>2, <2>3 DEF CheckpointOwn, LimitInv, TrainedInv, MetricInv
<1> QED
  BY <1>1, <1>2, TypeInvInit, TypeInvStep, CountersInit, PlaceInvStep, LimitInvStep,
     TrainedInvStep, HomeInvStep, StaleInvStep, MetricInvStep, PTL DEF Spec

=============================================================================
