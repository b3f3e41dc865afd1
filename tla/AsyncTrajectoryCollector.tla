---------------------- MODULE AsyncTrajectoryCollector ----------------------
(***************************************************************************)
(* The Ray actor that generates trajectories in the background:            *)
(*   - the collection thread (_collection_loop, _process_batch), which     *)
(*     takes a batch of prompts, reserves the training step the batch is   *)
(*     meant for and starts one worker thread per prompt;                  *)
(*   - the worker threads (_run_prompt_group_worker), which run the        *)
(*     rollout, push the group to the replay buffer and clean up;          *)
(*   - the actor's own thread, which serves the calls of the training      *)
(*     loop one at a time, in the order in which they were sent.           *)
(* The threads share the events, the reservation set, the semaphore and    *)
(* the set of thread records; a step of the model is what a thread does    *)
(* between two accesses to what another thread can change.  The training   *)
(* loop is in module AsyncGrpo.                                            *)
(***************************************************************************)
EXTENDS TrajectoryPool, Sequences

CONSTANTS
  NumPrompts,     \* grpo.num_prompts_per_step, the batch size of the dataloader
  MaxAge,         \* grpo.async_grpo.max_trajectory_age_steps
  NumBatches,     \* batches in one pass over the dataset
  InFlightUpdates,\* async engine with in_flight_weight_updates
  MaxFailures     \* bound on failing rollouts and refits

ASSUME CollectorAssumption ==
  /\ NumPrompts \in Nat \ {0}
  /\ MaxAge \in Nat \ {0}
  /\ NumBatches \in Nat
  /\ InFlightUpdates \in BOOLEAN
  /\ MaxFailures \in Nat

VARIABLES
  running, currentVersion, initialVersion, lastWarned,
  manualCleared, refitCleared, limitCleared,   \* the three events
  generating,     \* _generating_targets
  permits,        \* _inflight_sema
  tracked,        \* _inflight_threads
  inbox, actor,   \* calls sent to the actor; what its own thread does
  reply,          \* the dataloader state it last answered with
  loop, pos,      \* collection thread; batches it took from the dataloader
  unmade,         \* its locals: the targets it read as not generated yet,
  genVersion, target, prompt,
  work, version, goal,  \* per group: worker state, version and target it carries
  weights, born,  \* weights in the generation engine; those a rollout began with
  failures

(* Grouped by who changes them. *)
pauseVars  == <<manualCleared, refitCleared>>                \* the actor
loopVars   == <<running, lastWarned, pos, loop>>             \* the collection thread
localVars  == <<unmade, genVersion, target, prompt>>  \* its locals
sharedVars == <<generating, permits, tracked>>               \* it and the workers
groupVars  == <<work, version, goal, born>>
actorVars  == <<inbox, actor, reply, currentVersion>>
collectorVars ==
  <<pauseVars, limitCleared, loopVars, localVars, sharedVars, groupVars,
    actorVars, initialVersion, weights, failures>>

Groups == (1 .. NumBatches) \X (0 .. NumPrompts - 1)
Permits == NumPrompts * MaxAge
Dummy == -1        \* the engine starts with load_format "dummy"
None == -1         \* no target reserved

ASSUME GroupsAssumption == Trajectories = Groups

LoopStates ==
  {"unstarted", "fetch", "manual", "refit",
   "limit", "limit_check", "limit_warn", "limit_clear", "limit_wait",
   "batch", "reserve", "prompt_check", "prompt_wait", "acquire", "start", "stopped"}
WorkStates == {"none", "gen", "push", "unreserve", "cleanup", "release", "done", "lost"}
Alive == {"gen", "push", "unreserve", "cleanup", "release"}
Calls == {"start_collection", "set_weight_version", "resume_after_refit",
          "pause", "resume", "prepare_for_refit", "get_dataloader_state"}

Call(op, arg) == [op |-> op, arg |-> arg]

LoopTypeOK ==
  /\ running \in BOOLEAN
  /\ lastWarned \in Nat \cup {None}
  /\ loop \in LoopStates /\ pos \in 0 .. NumBatches
  /\ unmade \in SUBSET Nat
  /\ genVersion \in Nat /\ target \in Nat \cup {None}
  /\ prompt \in 0 .. NumPrompts - 1

SharedTypeOK ==
  /\ limitCleared \in BOOLEAN
  /\ generating \in SUBSET Nat
  /\ permits \in Int
  /\ tracked \in SUBSET Groups

GroupTypeOK ==
  /\ work \in [Groups -> WorkStates]
  /\ version \in [Groups -> Nat] /\ goal \in [Groups -> Nat]
  /\ born \in [Groups -> Nat \cup {Dummy}]

ActorTypeOK ==
  /\ currentVersion \in Nat /\ initialVersion \in Nat
  /\ manualCleared \in BOOLEAN /\ refitCleared \in BOOLEAN
  /\ inbox \in Seq([op : Calls, arg : Nat])
  /\ actor \in {"idle", "wake", "drain"} /\ reply \in 0 .. NumBatches
  /\ weights \in Nat \cup {Dummy}
  /\ failures \in Nat

CollectorTypeOK == LoopTypeOK /\ SharedTypeOK /\ GroupTypeOK /\ ActorTypeOK

(* A fresh actor at training step s whose dataloader already gave p batches. *)
CollectorStart(s, p) ==
  /\ running = FALSE /\ currentVersion = s /\ initialVersion = s /\ lastWarned = None
  /\ manualCleared = TRUE /\ refitCleared = TRUE /\ limitCleared = TRUE
  /\ generating = {} /\ permits = Permits /\ tracked = {}
  /\ inbox = <<Call("start_collection", 0), Call("set_weight_version", s)>>
  /\ actor = "idle" /\ reply = p /\ loop = "unstarted" /\ pos = p
  /\ unmade = {} /\ genVersion = 0 /\ target = None /\ prompt = 0
  /\ weights = Dummy
  /\ version = [g \in Groups |-> 0]
  /\ goal = [g \in Groups |-> 0]
  /\ born = [g \in Groups |-> Dummy]

(* The same after a crash.  *)
CollectorRestart(s, p) ==
  /\ running' = FALSE /\ currentVersion' = s /\ initialVersion' = s /\ lastWarned' = None
  /\ manualCleared' = TRUE /\ refitCleared' = TRUE /\ limitCleared' = TRUE
  /\ generating' = {} /\ permits' = Permits /\ tracked' = {}
  /\ inbox' = <<Call("start_collection", 0), Call("set_weight_version", s)>>
  /\ actor' = "idle" /\ reply' = p /\ loop' = "unstarted" /\ pos' = p
  /\ unmade' = {} /\ genVersion' = 0 /\ target' = None /\ prompt' = 0
  /\ weights' = Dummy
  /\ version' = [g \in Groups |-> 0]
  /\ goal' = [g \in Groups |-> 0]
  /\ born' = [g \in Groups |-> Dummy]

-----------------------------------------------------------------------------
(* The collection thread. *)

(* Mutants: the range starts one version late; or the first version of a   *)
(* resumed run is not recognised.                                          *)
TargetWeightsLate(v) ==
  IF v = initialVersion THEN v .. v + MaxAge ELSE v + 2 .. v + MaxAge + 1
TargetWeightsFromZero(v) == IF v = 0 THEN v .. v + MaxAge ELSE v + 1 .. v + MaxAge

TargetWeights(v) ==
  IF v = initialVersion THEN v .. v + MaxAge ELSE v + 1 .. v + MaxAge

(* The targets to be generated, judged by what the thread read before. *)
OpenTargets == unmade \ generating

(* The thread moves on without touching anything but its program counter. *)
Goto(l) ==
  /\ loop' = l
  /\ UNCHANGED <<running, lastWarned, pos, limitCleared, localVars, sharedVars,
                 groupVars>>

(* Next batch; the dataset ends after one pass and the thread stops. *)
Fetch ==
  /\ loop = "fetch"
  /\ IF pos < NumBatches
       THEN pos' = pos + 1 /\ loop' = "manual" /\ UNCHANGED running
       ELSE running' = FALSE /\ loop' = "stopped" /\ UNCHANGED pos
  /\ UNCHANGED <<lastWarned, limitCleared, localVars, sharedVars, groupVars>>

WaitManualPause == loop = "manual" /\ manualCleared /\ Goto("refit")

WaitRefitPause == loop = "refit" /\ refitCleared /\ Goto("limit")

(* Mutant: >= for >. *)
ReadTargetsAgain ==
  /\ unmade' = {t \in TargetWeights(currentVersion) : t >= lastTarget}
  /\ UNCHANGED <<running, lastWarned, pos, limitCleared, target, prompt,
                 sharedVars, groupVars>>

(* _should_pause_for_generation_limits and _get_next_target_for_generation *)
(* read the weight version, then the last target in the buffer, and take   *)
(* the lock of the reservations only after that.  (No worker waits for a   *)
(* new version before it pushes, so the two reads may count as one step.)  *)
ReadTargets ==
  /\ unmade' = {t \in TargetWeights(currentVersion) : t > lastTarget}
  /\ UNCHANGED <<running, lastWarned, pos, limitCleared, target, prompt,
                 sharedVars, groupVars>>

LimitRead == loop = "limit" /\ loop' = "limit_check" /\ ReadTargets /\ UNCHANGED genVersion

LimitCheck ==
  /\ loop = "limit_check"
  /\ loop' = IF OpenTargets = {} THEN "limit_warn" ELSE "batch"
  /\ unmade' = {}
  /\ UNCHANGED <<running, lastWarned, pos, limitCleared, genVersion, target, prompt,
                 sharedVars, groupVars>>

(* The event is cleared only when this version was not warned about yet:   *)
(* the check, then recording the version and clearing the event.           *)
LimitWarn ==
  /\ loop = "limit_warn"
  /\ Goto(IF lastWarned # currentVersion THEN "limit_clear" ELSE "limit_wait")

LimitClear ==
  /\ loop = "limit_clear" /\ loop' = "limit_wait"
  /\ lastWarned' = currentVersion /\ limitCleared' = FALSE
  /\ UNCHANGED <<running, pos, localVars, sharedVars, groupVars>>

LimitWait == loop = "limit_wait" /\ limitCleared /\ Goto("batch")

(* _process_batch: the version the batch is generated with, the last       *)
(* target in the buffer, read before the lock is taken ...                 *)
BatchRead ==
  /\ loop = "batch" /\ loop' = "reserve"
  /\ genVersion' = currentVersion
  /\ ReadTargets

(* ... and the first open target, reserved; without one the batch is lost. *)
Reserve ==
  /\ loop = "reserve"
  /\ \E t \in OpenTargets :
       /\ \A u \in OpenTargets : t <= u
       /\ generating' = generating \cup {t}
       /\ target' = t
       /\ unmade' = {}
       /\ loop' = "prompt_check"
  /\ UNCHANGED <<running, lastWarned, pos, limitCleared, genVersion, prompt,
                 permits, tracked, groupVars>>

(* _process_batch returns: its locals are gone. *)
BatchDone ==
  /\ loop' = "fetch"
  /\ unmade' = {} /\ genVersion' = 0 /\ target' = None /\ prompt' = 0

DropBatch ==
  /\ loop = "reserve" /\ OpenTargets = {}
  /\ BatchDone
  /\ UNCHANGED <<running, lastWarned, pos, limitCleared, sharedVars, groupVars>>

(* Mutant: no check for a refit before a prompt is started. *)
PromptUnchecked == loop = "prompt_check" /\ Goto("acquire")

PromptCheck ==
  loop = "prompt_check" /\ Goto(IF refitCleared THEN "acquire" ELSE "prompt_wait")

(* After a refit the remaining prompts carry the new version, but keep the *)
(* target that was reserved before it.                                     *)
PromptWait ==
  /\ loop = "prompt_wait" /\ refitCleared /\ loop' = "acquire"
  /\ genVersion' = currentVersion
  /\ UNCHANGED <<running, lastWarned, pos, limitCleared, unmade, target,
                 prompt, sharedVars, groupVars>>

(* The thread record is entered before the thread is started. *)
Acquire ==
  /\ loop = "acquire" /\ permits > 0 /\ loop' = "start"
  /\ permits' = permits - 1
  /\ tracked' = tracked \cup {<<pos, prompt>>}
  /\ UNCHANGED <<running, lastWarned, pos, limitCleared, localVars, generating,
                 groupVars>>

(* worker.start(), and _cleanup_finished_threads after the last prompt. *)
StartWorker ==
  /\ loop = "start"
  /\ LET g == <<pos, prompt>> IN
       /\ work' = [work EXCEPT ![g] = "gen"]
       /\ version' = [version EXCEPT ![g] = genVersion]
       /\ goal' = [goal EXCEPT ![g] = target]
       /\ born' = [born EXCEPT ![g] = weights]
  /\ IF prompt < NumPrompts - 1
       THEN /\ prompt' = prompt + 1 /\ loop' = "prompt_check"
            /\ UNCHANGED <<tracked, unmade, genVersion, target>>
       ELSE /\ tracked' = {g \in tracked : work'[g] \in Alive}
            /\ BatchDone
  /\ UNCHANGED <<running, lastWarned, pos, limitCleared, generating, permits>>

LoopStep ==
  /\ \/ Fetch \/ WaitManualPause \/ WaitRefitPause
     \/ LimitRead \/ LimitCheck \/ LimitWarn \/ LimitClear \/ LimitWait
     \/ BatchRead \/ Reserve \/ DropBatch
     \/ PromptCheck \/ PromptWait \/ Acquire \/ StartWorker
  /\ UNCHANGED <<poolVars, pauseVars, actorVars, initialVersion, weights, failures>>

-----------------------------------------------------------------------------
(* The worker thread of group g. *)

Become(g, from, to) == work[g] \in from /\ work' = [work EXCEPT ![g] = to]

(* Mutant: the failing worker returns before its finally clause. *)
RolloutFailsBare(g) ==
  /\ failures < MaxFailures /\ failures' = failures + 1
  /\ Become(g, {"gen"}, "done")
  /\ UNCHANGED <<poolVars, sharedVars>>

(* An exception in the rollout: an environment call that raised. *)
RolloutFails(g) ==
  /\ failures < MaxFailures /\ failures' = failures + 1
  /\ Become(g, {"gen"}, "cleanup")
  /\ UNCHANGED <<poolVars, sharedVars>>

(* The rollout ends and the group is pushed.  The worker of the first      *)
(* prompt then releases the reservation at once.                           *)
Push(g) ==
  /\ running
  /\ Become(g, {"gen", "push"}, IF g[2] = 0 THEN "unreserve" ELSE "cleanup")
  /\ PoolPush([id |-> g, version |-> version[g], target |-> goal[g]])
  /\ UNCHANGED <<sharedVars, failures>>

(* The buffer is full: back off and retry. *)
PushFull(g) ==
  /\ running
  /\ Become(g, {"gen", "push"}, "push")
  /\ PoolFull
  /\ UNCHANGED <<sharedVars, failures>>

(* while self.running: once the dataset has ended the group is discarded. *)
PushStopped(g) ==
  /\ ~running
  /\ Become(g, {"gen", "push"}, "cleanup")
  /\ UNCHANGED <<poolVars, sharedVars, failures>>

Unreserve(g) ==
  /\ Become(g, {"unreserve"}, "cleanup")
  /\ generating' = generating \ {goal[g]}
  /\ UNCHANGED <<poolVars, permits, tracked, failures>>

(* Mutant: the finally clause does not release the reservation. *)
CleanupReserved(g) ==
  /\ Become(g, {"cleanup"}, "release")
  /\ tracked' = tracked \ {g}
  /\ UNCHANGED <<poolVars, generating, permits, failures>>

(* The finally clause, reached after success and after failure alike: the  *)
(* reservation is released whoever holds it, and the thread's record goes. *)
Cleanup(g) ==
  /\ Become(g, {"cleanup"}, "release")
  /\ generating' = generating \ {goal[g]}
  /\ tracked' = tracked \ {g}
  /\ UNCHANGED <<poolVars, permits, failures>>

(* The semaphore is released and the thread ends, its arguments with it. *)
Release(g) ==
  /\ Become(g, {"release"}, "done")
  /\ permits' = permits + 1
  /\ version' = [version EXCEPT ![g] = 0]
  /\ goal' = [goal EXCEPT ![g] = 0]
  /\ born' = [born EXCEPT ![g] = Dummy]
  /\ UNCHANGED <<poolVars, generating, tracked, failures>>

WorkerStep(g) ==
  /\ \/ /\ \/ RolloutFails(g) \/ Push(g) \/ PushFull(g) \/ PushStopped(g)
           \/ Unreserve(g) \/ Cleanup(g)
        /\ UNCHANGED <<version, goal, born>>
     \/ Release(g)
  /\ UNCHANGED <<pauseVars, limitCleared, loopVars, localVars, actorVars,
                 initialVersion, weights>>

-----------------------------------------------------------------------------
(* The actor's own thread: one call at a time, first in, first out. *)

Serving(op) == actor = "idle" /\ inbox # <<>> /\ Head(inbox).op = op
Return == inbox' = Tail(inbox) /\ actor' = "idle"

StartCollection ==
  /\ Serving("start_collection") /\ Return
  /\ running' = TRUE /\ loop' = "fetch"
  /\ UNCHANGED <<lastWarned, pos, currentVersion, pauseVars, limitCleared, sharedVars>>

(* set_weight_version: the version first, then the event if it was cleared. *)
SetVersion ==
  /\ Serving("set_weight_version")
  /\ currentVersion' = Head(inbox).arg
  /\ actor' = "wake"
  /\ UNCHANGED <<inbox, loopVars, pauseVars, limitCleared, sharedVars>>

WakeLoop ==
  /\ actor = "wake" /\ Return
  /\ limitCleared' = TRUE
  /\ UNCHANGED <<currentVersion, loopVars, pauseVars, sharedVars>>

Pause ==
  /\ Serving("pause") /\ Return
  /\ manualCleared' = FALSE
  /\ UNCHANGED <<currentVersion, loopVars, refitCleared, limitCleared, sharedVars>>

Resume ==
  /\ Serving("resume") /\ Return
  /\ manualCleared' = TRUE
  /\ UNCHANGED <<currentVersion, loopVars, refitCleared, limitCleared, sharedVars>>

(* Mutant: new generations are not paused. *)
PrepareWithoutPause ==
  /\ Serving("prepare_for_refit")
  /\ IF InFlightUpdates THEN Return ELSE actor' = "drain" /\ UNCHANGED inbox
  /\ UNCHANGED <<currentVersion, loopVars, pauseVars, limitCleared, sharedVars>>

(* prepare_for_refit: pause new generations and, without in-flight updates, *)
(* poll until no thread record of a live thread is left.                    *)
PrepareForRefit ==
  /\ Serving("prepare_for_refit")
  /\ refitCleared' = FALSE
  /\ IF InFlightUpdates THEN Return ELSE actor' = "drain" /\ UNCHANGED inbox
  /\ UNCHANGED <<currentVersion, loopVars, manualCleared, limitCleared, sharedVars>>

(* A record of a thread that was not started yet counts as finished. *)
Pending == {g \in tracked : work[g] \in Alive}

PollPending ==
  /\ actor = "drain"
  /\ tracked' = Pending
  /\ IF Pending = {} THEN Return ELSE UNCHANGED <<inbox, actor>>
  /\ UNCHANGED <<currentVersion, loopVars, pauseVars, limitCleared, generating, permits>>

ResumeAfterRefit ==
  /\ Serving("resume_after_refit") /\ Return
  /\ refitCleared' = TRUE
  /\ UNCHANGED <<currentVersion, loopVars, manualCleared, limitCleared, sharedVars>>

(* Mutant: the batch in hand is not counted. *)
DataloaderStateBehind ==
  /\ Serving("get_dataloader_state") /\ Return
  /\ reply' = IF pos = 0 THEN 0 ELSE pos - 1
  /\ UNCHANGED <<currentVersion, loopVars, pauseVars, limitCleared, sharedVars>>

(* The batches the dataloader gave to the collection thread so far.        *)
GetDataloaderState ==
  /\ Serving("get_dataloader_state") /\ Return
  /\ reply' = pos
  /\ UNCHANGED <<currentVersion, loopVars, pauseVars, limitCleared, sharedVars>>

ActorStep ==
  /\ \/ /\ \/ StartCollection \/ SetVersion \/ WakeLoop \/ Pause \/ Resume
           \/ PrepareForRefit \/ PollPending \/ ResumeAfterRefit
        /\ UNCHANGED reply
     \/ GetDataloaderState
  /\ UNCHANGED <<poolVars, localVars, groupVars, initialVersion, weights, failures>>

=============================================================================
