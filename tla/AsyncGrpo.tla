----------------------------- MODULE AsyncGrpo -----------------------------
(***************************************************************************)
(* Asynchronous GRPO: the training loop (async_grpo_train) together with   *)
(* the trajectory collector and the replay buffer it drives.  The loop     *)
(* samples one training step's groups, trains, has the collector prepare   *)
(* for the refit, refits the generation engine, announces the new weight   *)
(* version, validates and checkpoints.  A crash loses every process; the   *)
(* job is then started again from the last finished checkpoint.            *)
(***************************************************************************)
EXTENDS AsyncTrajectoryCollector

CONSTANTS
  MaxSteps,       \* grpo.max_num_steps
  ValPeriod,      \* grpo.val_period, 0 for no validation
  ValAtStart,     \* grpo.val_at_start
  SavePeriod,     \* checkpointing.save_period
  MayTimeout,     \* checkpointing.checkpoint_must_save_by is set
  MaxCrashes      \* bound on crashes of the job

ASSUME TrainerAssumption ==
  /\ MaxSteps \in Nat
  /\ ValPeriod \in Nat
  /\ ValAtStart \in BOOLEAN
  /\ SavePeriod \in Nat \ {0}
  /\ MayTimeout \in BOOLEAN
  /\ MaxCrashes \in Nat

VARIABLES
  trainer,        \* what the training loop does next
  step, weightVersion,
  trained,        \* the groups that each training step took
  saved,          \* the last finished checkpoint
  crashes

trainerVars == <<trainer, step, weightVersion, trained, saved, crashes>>
vars == <<poolVars, collectorVars, trainerVars>>

TrainerStates ==
  {"setup", "val_start", "fill", "sample", "train", "drain", "refit", "validate",
   "save", "await_state", "await_last", "done", "aborted"}
Ended == {"done", "aborted"}

TypeOK ==
  /\ PoolTypeOK
  /\ CollectorTypeOK
  /\ trainer \in TrainerStates
  /\ step \in 0 .. MaxSteps
  /\ weightVersion \in 0 .. MaxSteps
  /\ trained \in [0 .. MaxSteps - 1 -> SUBSET Groups]
  /\ saved \in [step : 0 .. MaxSteps, pos : 0 .. NumBatches]
  /\ crashes \in Nat

Init ==
  /\ PoolInit
  /\ CollectorStart(0, 0)
  /\ work = [g \in Groups |-> "none"]
  /\ failures = 0
  /\ trainer = "setup" /\ step = 0 /\ weightVersion = 0
  /\ trained = [s \in 0 .. MaxSteps - 1 |-> {}]
  /\ saved = [step |-> 0, pos |-> 0]
  /\ crashes = 0

-----------------------------------------------------------------------------
(* The training loop. *)

Send(calls) ==
  /\ inbox' = inbox \o calls
  /\ UNCHANGED <<actor, reply, currentVersion>>

(* ray.get on the call sent last: the actor answers in order.              *)
Answered == inbox = <<>> /\ actor = "idle"

AfterFill == IF step < MaxSteps THEN "sample" ELSE "done"
IsLastStep == step + 1 = MaxSteps
ValidationDue == ValPeriod > 0 /\ (step + 1) % ValPeriod = 0
SaveDue == IsLastStep \/ (step + 1) % SavePeriod = 0

(* The collector runs already when the engine gets its first real weights. *)
InitialRefit ==
  /\ trainer = "setup"
  /\ weights' = weightVersion
  /\ IF ValAtStart /\ step = 0
       THEN trainer' = "val_start" /\ Send(<<Call("pause", 0)>>)
       ELSE trainer' = "fill" /\ UNCHANGED actorVars
  /\ UNCHANGED <<poolVars, step, weightVersion, trained, saved, failures>>

ValidateAtStart ==
  /\ trainer = "val_start" /\ trainer' = "fill"
  /\ Send(<<Call("resume", 0)>>)
  /\ UNCHANGED <<poolVars, weights, step, weightVersion, trained, saved, failures>>

BufferFilled ==
  /\ trainer = "fill" /\ Cardinality(pool) >= NumPrompts
  /\ trainer' = AfterFill
  /\ UNCHANGED <<poolVars, actorVars, weights, step, weightVersion, trained, saved,
                 failures>>

FillWaits ==
  /\ trainer = "fill" /\ Cardinality(pool) < NumPrompts
  /\ UNCHANGED <<poolVars, actorVars, weights, trainer, step, weightVersion, trained,
                 saved, failures>>

Sampled ==
  /\ trainer = "sample" /\ trainer' = "train"
  /\ \E S \in SUBSET Intended(weightVersion, MaxAge) :
       /\ PoolTake(S, NumPrompts, weightVersion, MaxAge)
       /\ trained' = [trained EXCEPT ![step] = {e.id : e \in S}]
  /\ UNCHANGED <<actorVars, weights, step, weightVersion, saved, failures>>

SampleWaits ==
  /\ trainer = "sample"
  /\ PoolWait(NumPrompts, weightVersion, MaxAge)
  /\ UNCHANGED <<actorVars, weights, trainer, step, weightVersion, trained, saved,
                 failures>>

(* The ValueError of sample ends the training. *)
SampleRejects ==
  /\ trainer = "sample" /\ trainer' = "aborted"
  /\ PoolReject(weightVersion, MaxAge)
  /\ UNCHANGED <<actorVars, weights, step, weightVersion, trained, saved, failures>>

Train ==
  /\ trainer = "train" /\ trainer' = "drain"
  /\ Send(<<Call("prepare_for_refit", 0)>>)
  /\ UNCHANGED <<poolVars, weights, step, weightVersion, trained, saved, failures>>

(* Mutant: ray.get is missing. *)
PreparedUnanswered ==
  /\ trainer = "drain" /\ trainer' = "refit"
  /\ UNCHANGED <<poolVars, actorVars, weights, step, weightVersion, trained, saved,
                 failures>>

Prepared ==
  /\ trainer = "drain" /\ Answered
  /\ trainer' = "refit"
  /\ UNCHANGED <<poolVars, actorVars, weights, step, weightVersion, trained, saved,
                 failures>>

Announce(v) == <<Call("set_weight_version", v), Call("resume_after_refit", 0)>>

(* Mutant: the engine keeps its old weights, and nobody notices. *)
RefitUnnoticed ==
  /\ trainer = "refit" /\ trainer' = "save"
  /\ weightVersion' = weightVersion + 1
  /\ Send(Announce(weightVersion + 1))
  /\ UNCHANGED <<poolVars, weights, step, trained, saved, failures>>

(* The weights arrive; the version and the end of the refit are announced  *)
(* without waiting for an answer, and a validation sends its pause.        *)
Refit ==
  /\ trainer = "refit"
  /\ weights' = weightVersion + 1
  /\ weightVersion' = weightVersion + 1
  /\ IF ValidationDue
       THEN trainer' = "validate" /\ Send(Append(Announce(weightVersion + 1), Call("pause", 0)))
       ELSE trainer' = "save" /\ Send(Announce(weightVersion + 1))
  /\ UNCHANGED <<poolVars, step, trained, saved, failures>>

Validate ==
  /\ trainer = "validate" /\ trainer' = "save"
  /\ Send(<<Call("resume", 0)>>)
  /\ UNCHANGED <<poolVars, weights, step, weightVersion, trained, saved, failures>>

(* No checkpoint at this step. *)
NextStep ==
  /\ trainer = "save" /\ ~SaveDue
  /\ step' = step + 1 /\ trainer' = "sample"
  /\ UNCHANGED <<poolVars, actorVars, weights, weightVersion, trained, saved, failures>>

(* The time limit makes this checkpoint the last one. *)
AskDataloaderState ==
  /\ trainer = "save"
  /\ \/ SaveDue /\ trainer' = "await_state"
     \/ MayTimeout /\ trainer' = "await_last"
  /\ Send(<<Call("get_dataloader_state", 0)>>)
  /\ UNCHANGED <<poolVars, weights, step, weightVersion, trained, saved, failures>>

SaveCheckpoint ==
  /\ trainer \in {"await_state", "await_last"} /\ Answered
  /\ saved' = [step |-> step + 1, pos |-> reply]
  /\ step' = step + 1
  /\ trainer' = IF IsLastStep \/ trainer = "await_last" THEN "done" ELSE "sample"
  /\ UNCHANGED <<poolVars, actorVars, weights, weightVersion, trained, failures>>

(* A failing refit, training step, validation or checkpoint ends the       *)
(* training; a failing validation at the start does not.                   *)
TrainerFails ==
  /\ trainer \in {"setup", "train", "refit", "validate", "save", "await_state", "await_last"}
  /\ trainer' = "aborted"
  /\ failures < MaxFailures /\ failures' = failures + 1
  /\ UNCHANGED <<poolVars, actorVars, weights, step, weightVersion, trained, saved>>

TrainerStep ==
  /\ \/ InitialRefit \/ ValidateAtStart \/ BufferFilled \/ FillWaits
     \/ Sampled \/ SampleWaits \/ SampleRejects \/ Train \/ Prepared \/ Refit
     \/ Validate \/ NextStep \/ AskDataloaderState \/ SaveCheckpoint \/ TrainerFails
  /\ UNCHANGED <<pauseVars, limitCleared, loopVars, localVars, sharedVars, groupVars,
                 initialVersion, crashes>>

(* What a checkpoint leaves of a group: nothing, if the dataloader will    *)
(* give its prompt again; otherwise it is trained, or lost for good.       *)
AfterRestart(g) ==
  IF g[1] > saved.pos THEN "none"
  ELSE IF \E s \in 0 .. saved.step - 1 : g \in trained[s] THEN "done" ELSE "lost"

(* Every process dies, and the job is started again from the last          *)
(* checkpoint.  Bound: only while the checkpoint has a batch left, since   *)
(* an exhausted dataloader would begin a second pass over the dataset.     *)
Restart ==
  /\ crashes < MaxCrashes /\ crashes' = crashes + 1
  /\ ~(trainer = "done" /\ step = MaxSteps)
  /\ saved.pos < NumBatches
  /\ UNCHANGED <<saved, failures>>
  /\ pool' = {} /\ lastTarget' = -1
  /\ CollectorRestart(saved.step, saved.pos)
  /\ work' = [g \in Groups |-> AfterRestart(g)]
  /\ trainer' = "setup" /\ step' = saved.step /\ weightVersion' = saved.step
  /\ trained' = [s \in 0 .. MaxSteps - 1 |-> IF s < saved.step THEN trained[s] ELSE {}]

(* The actors are killed when the training ends. *)
Terminated == trainer \in Ended /\ UNCHANGED vars

CollectorStep ==
  /\ trainer \notin Ended
  /\ LoopStep \/ ActorStep \/ \E g \in Groups : WorkerStep(g)
  /\ UNCHANGED trainerVars

Next == CollectorStep \/ TrainerStep \/ Restart \/ Terminated

(* Every thread and process that can go on eventually does; which of the   *)
(* workers goes first is free.                                             *)
WorkerProgress == \E g \in Groups : WorkerStep(g) /\ work' # work
Fairness ==
  /\ WF_vars(LoopStep /\ CollectorStep)
  /\ WF_vars(ActorStep /\ CollectorStep)
  /\ WF_vars(WorkerProgress /\ CollectorStep)
  /\ WF_vars(TrainerStep)

Spec == Init /\ [][Next]_vars
FairSpec == Spec /\ Fairness

(* The schedules in which control takes no time beside the work of the     *)
(* GPUs: a call is served when it arrives, and the collection thread runs  *)
(* until it has to wait, before a rollout, a training step, a refit or a   *)
(* validation ends.  The job may still crash at any moment.                *)
CallWaiting == actor = "wake" \/ (actor = "idle" /\ inbox # <<>>)
LoopReady ==
  /\ loop \notin {"unstarted", "stopped"}
  /\ loop = "manual" => manualCleared
  /\ loop \in {"refit", "prompt_wait"} => refitCleared
  /\ loop = "limit_wait" => limitCleared
  /\ loop = "acquire" => permits > 0

QuickCollector ==
  /\ trainer \notin Ended
  /\ \/ CallWaiting /\ ActorStep
     \/ ~CallWaiting /\ LoopReady /\ LoopStep
     \/ ~CallWaiting /\ ~LoopReady /\ (ActorStep \/ \E g \in Groups : WorkerStep(g))
  /\ UNCHANGED trainerVars
QuickTrainer == ~CallWaiting /\ ~LoopReady /\ TrainerStep

QuickNext == QuickCollector \/ QuickTrainer \/ Restart \/ Terminated

Work == QuickNext /\ UNCHANGED <<failures, crashes>>
QuickSpec == Init /\ [][QuickNext]_vars /\ WF_vars(Work)

-----------------------------------------------------------------------------
(* Properties of every schedule. *)

Living == {g \in Groups : work[g] \in Alive}

(* No group is ever generated for a training step more than MaxAge after   *)
(* the version it is labelled with, however the version changes between    *)
(* reading it, reserving the step and starting the prompts of the batch.   *)
AgeWindow ==
  /\ \A g \in Living : goal[g] <= version[g] + MaxAge
  /\ \A e \in pool : e.target <= e.version + MaxAge

(* A reserved step always has somebody who will release it: the collection *)
(* thread, still starting the batch, or a worker before its finally.  A    *)
(* reservation nobody releases would keep its step from being generated.   *)
Starting == {"prompt_check", "prompt_wait", "acquire", "start"}
Releasing == {"gen", "push", "unreserve", "cleanup"}

ReservationHeld ==
  \A t \in generating :
    \/ loop \in Starting /\ target = t
    \/ \E g \in Groups : work[g] \in Releasing /\ goal[g] = t

(* The semaphore's permits, the live workers and the thread about to be    *)
(* started add up: no exit path of a worker keeps or returns one too many. *)
PermitsConserved ==
  permits + Cardinality(Living) + (IF loop = "start" THEN 1 ELSE 0) = Permits

(* A rollout never begins with weights older than its label says: what     *)
(* importance sampling corrects for is never older than it believes.       *)
LabelNotNewer ==
  \A g \in Living : born[g] # Dummy => version[g] <= born[g]

(* The version the collector works with is at most one refit behind.       *)
CollectorInStep ==
  currentVersion <= weightVersion /\ weightVersion <= currentVersion + 1

(* The engine is refitted only while new generations are held back, and    *)
(* no pause outlives what it was for.                                      *)
PauseProtocol ==
  /\ trainer = "refit" => ~refitCleared
  /\ (trainer = "sample" /\ Answered) => refitCleared /\ manualCleared

(* Every finished training step took one full batch of groups of its own,  *)
(* and no prompt is trained twice, across restarts too.                    *)
OwnGroups ==
  /\ \A s \in 0 .. MaxSteps - 1 :
       Cardinality(trained[s]) \in (IF s < step THEN {NumPrompts} ELSE {0, NumPrompts})
  /\ \A s, t \in 0 .. MaxSteps - 1 : s # t => trained[s] \cap trained[t] = {}
  /\ \A s \in 0 .. MaxSteps - 1 : \A e \in pool : e.id \notin trained[s]

-----------------------------------------------------------------------------
(* Properties of the schedules in which control takes no time.             *)

(* The training ends: at its last step, or where its deadline stops it.    *)
Terminates == <>[](trainer = "done")

(* Without in-flight updates the drain leaves at most one rollout running  *)
(* during a refit: the one whose thread was started past the check.        *)
OneStraggler ==
  (~InFlightUpdates /\ trainer = "refit") =>
    Cardinality({g \in Groups : work[g] = "gen"}) <= 1

(* No sample finds a group outside its age window.                         *)
NeverStale == trainer = "sample" => Stale(weightVersion, MaxAge) = {}

(* The groups of one training step all come from one batch of prompts.     *)
OneBatchPerStep ==
  \A e, f \in pool \cup {[id |-> g, version |-> 0, target |-> goal[g]] :
                            g \in {h \in Groups : work[h] \in {"gen", "push"}}} :
    e.target = f.target => e.id[1] = f.id[1]

(* The buffer never holds more than the steps of one age window.           *)
NeverFull == Cardinality(pool) <= NumPrompts * (MaxAge + 1)

(* All three: each step is supplied once, in time and within the buffer.    *)
SuppliedInTime == NeverStale /\ OneBatchPerStep /\ NeverFull

(* A restart loses the prompts of at most MaxAge + 2 batches: those of the *)
(* steps generated ahead, and the one that waits for the next version; a   *)
(* failed rollout or training step costs at most a batch more.             *)
RestartLoss ==
  Cardinality({g \in Groups : work[g] = "lost"}) 
    <= NumPrompts * (crashes * (MaxAge + 2) + failures)

(* A restart neither trains a prompt again nor loses more than it must.     *)
RestartSound == OwnGroups /\ RestartLoss

-----------------------------------------------------------------------------
(* What a comment says and the code does not keep to. *)

(* The docstring of sample: it stalls the training until the remaining     *)
(* groups are generated; so, while there are prompts, each stall ends.     *)
StallEnds == trainer = "sample" ~> trainer # "sample" \/ ~running

=============================================================================
