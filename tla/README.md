# NeMo RL in TLA+

TLA+ models of NeMo RL: of its control (who may do what when, what a crash leaves
behind, what a retry repeats), and of the pure functions that cut, pack, shift and put
back what the control moves. Paths below are relative to the repository; a bare
`file.py` is somewhere under `src/nemo_rl/`.

## The system

NeMo RL trains a policy in a *controller* process that drives groups of Ray
workers. In GRPO every training step samples prompts, lets a generation engine
(vLLM) roll them out against environments, scores the answers, trains on the result and
copies the new weights to the engine (*refit*). The synchronous loop does this step by step; the asynchronous
loop (`algorithms/async_utils.py`, `async_grpo_train` in
`algorithms/grpo.py`) lets a background actor generate ahead. SFT, DPO, reward
models and distillation have loops of their own over the same workers.

| Component | State it keeps | Operations | What is hard about it | What makes it correct |
|---|---|---|---|---|
| Replay buffer (`async_utils.py:36`) | three parallel lists, last target generated | push, sample, size, clear | parallel lists, full buffer, refused samples | a group keeps its version and target; a sample takes one step's groups, oldest first |
| Trajectory collector (`async_utils.py:238`) | three events, weight version, reservations, permits, thread records | start, pause/resume, set version, prepare/resume refit, dataloader state | a collection thread, one worker thread per prompt and the actor's thread on the same state | age window, reservations and permits released exactly once, no lost wake-up, drained refits |
| Async training loop (`grpo.py:1836`) | step, weight version, checkpoint state | fill, sample, train, drain, refit, validate, save | calls that are sent and not answered, failures, crash and restart | in step with the collector, terminates, no prompt twice, bounded loss |
| Sync GRPO loop, dynamic sampling (`grpo.py`) | step and epoch counters, batch cache | rollout, filter, train, refit, save | batches assembled over several rollouts | one full on-policy batch per step, restart position |
| SFT, DPO, RM, distillation loops, timers (`sft.py`, `dpo.py`, `rm.py`, `distillation.py`, `timer.py`) | counters, save state, deadline | train, validate, save, offload, wake | five copies of one loop with different orders of calls; resumption in the middle of an epoch | each batch once, a checkpoint of its own step, parameters where they are needed, the deadline |
| Checkpoint manager (`utils/checkpoint.py`) | directories on disk | init, finalize, remove old, find best/latest | crash between two file operations | there is a loadable checkpoint, the newest finished one |
| Weight streaming (`models/policy/utils.py`, `vllm_backend.py`) | two buffers, a REQ/REP socket | send, acknowledge, load | buffer reuse, failing receiver | each tensor is loaded before its buffer is reused |
| Packed broadcast (`utils/packed_tensor.py`) | groups and streams on both sides | pack, broadcast, unpack | both sides must cut the same groups; streams run behind the hosts | same groups on both sides, no buffer reused too early |
| Rollouts (`experience/rollouts.py`, `nemo_gym.py`) | active samples, message logs, infos | generate, step environment | samples leave the batch at different turns; asynchronous samples; text re-rendered by a server | each sample has an episode of its own |
| Policy and its workers (`lm_policy.py`, `workers/`) | weights, optimizer, reference, place of each | train, logprobs, top-k, score, offload | collectives that all ranks must reach equally often | no rank stranded, one normaliser, answers in order |
| Batches and packing (`batched_data_dict.py`, `data/packing`) | none | shard, pack, iterate, reorder | boundary cases of counts and lengths | every row once, within the budget |
| Worker groups, virtual cluster (`distributed/`), vLLM front end | workers, placement groups, ranks | place, run, collect | one cluster seen from several places | all sides agree who is which rank |
| Losses and tensor utilities (`loss_functions.py`, `model_utils.py`, `megatron/common.py`) | none | log probabilities, losses, gradients on cut and packed tensors | shifts by one across chunks, ranks and packed sequences | the same as on whole tensors |
| Messages and processors (`llm_message_utils.py`, `processors.py`) | none | templates, masks, flattening, padding | a field missing in one message shifts the rest | masks and values at the tokens they belong to |
| Environments, evaluation (`environments/`, `evals/`) | game boards | score, step, evaluate | chunks over workers, results out of order | each answer gets its own score; metrics mean what they say |
| Logger (`utils/logger.py`) | buffer of metrics, monitor thread | log, flush, stop | | |

How they interact:

    setup --> virtual cluster --> worker groups (policy, engine, environments)
    training loop --> rollout --> engine, environments
    training loop --> Policy --shards, packs--> workers <--collectives--> workers
    training loop --refit--> policy workers --ZMQ stream or broadcast--> engine workers
    training loop --> checkpoint manager --> disk
    asynchronous loop --calls (Ray, in order, mostly unanswered)--> collector actor
    collector: collection thread --starts--> worker threads --push--> replay buffer --sample--> loop

## Modules

| Module | What it models |
|---|---|
| `TrajectoryPool` | what the replay buffer promises: a bounded set of groups with version and target, and the four answers of `sample` |
| `ReplayBuffer`, `ReplayBufferProofs` | the buffer as built, three lists; `ImplementsPool` shows that it implements `TrajectoryPool`; theorems about it |
| `AsyncTrajectoryCollector` | the collector actor, its three kinds of threads and the state they share; extends `TrajectoryPool` |
| `AsyncGrpo`, `MCAsyncGrpo` | the asynchronous loop, its failures and restarts, composed with the collector; the size `async_grpo_train` gives the buffer |
| `AsyncGrpoProofs` | inductive invariants, theorems and proofs about `AsyncGrpo`: its types; every schedule; the schedules in which control takes no time |
| `GrpoTrain`, `GrpoTrainProofs` | the synchronous loop with dynamic sampling, validation, checkpoint, crash and resumption; theorems about it, and about the refit in each of its steps |
| `WorkerMemory` | where parameters and optimizer are and what each worker method does to them |
| `TrainLoops`, `MCTrainLoops`, `TrainLoopsProofs` | the loops of SFT, DPO, RM, distillation and GRPO over `WorkerMemory`, with the deadline, crashes and resumption; theorems about them |
| `CheckpointManager`, `CheckpointManagerProofs` | checkpoints on disk, between any two file operations of which the run may be killed; theorems about it |
| `WeightRefit` | what a refit promises the training loop: after a success every parameter has the refit's value |
| `WeightStream` | the refit of a colocated engine: two buffers and a REQ/REP socket |
| `PackedBroadcast` | the refit of a separate engine: groups of parameters, broadcasts on streams |
| `WeightTransfer` | both under `refit_policy_generation`; implements `WeightRefit`; theorems about it in `GrpoTrainProofs` |
| `SequencePacking`, `BatchSharding`, `BatchShardingProofs` | the five packers; the sharding of a batch, its microbatches and the way back; theorems about them |
| `PolicyBatch`, `PolicyBatchProofs` | a call of the policy: sharding, the workers' collectives and microbatches, the answers; theorems about it |
| `Episodes` | what a rollout promises: independent episodes within the context |
| `RolloutTokens` | tokens, rendering and the prefix replacement of the HTTP server |
| `Rollouts`, `MCRollouts`, `RolloutsProofs` | the three rollouts; implements `Episodes`; theorems about them |
| `TensorParallel`, `MegatronPacking` | log probabilities, gradients, top-k and entropy cut over ranks; packed rows |
| `LossFunctions`, `MessageLogs` | losses, baselines, padding; messages, masks, processors |
| `Cluster` | placement of workers and their ranks in every process group |
| `Environments`, `SlidingPuzzle`, `Evaluation` | rewards, the game, evaluation |
| `Algorithms`, `MCAlgorithms` | calls of all these functions and what each means on whole inputs |

Operators commented "Mutant" are plausible mistakes; `PROJECT.json` names the
property that catches each. They belong to no next-state relation. The map of `PROJECT.json`
gives the lines of every definition except operators that take an operator as a
parameter (`Chunked`, `AllReduce`, ...), which stand for the loops of their callers.

### How state and steps correspond to the code

* The three `threading.Event`s are the booleans `manualCleared`,
  `refitCleared`, `limitCleared`; `_generating_targets`, `_inflight_sema`,
  `_inflight_threads` are `generating`, `permits`, `tracked`.
* The collection thread has the program counter `loop`; `pos` counts the batches
  the dataloader gave it. A step of the model is what the thread does between
  two accesses to something another thread changes: reading the last target
  (`ReadTargets`) and taking the reservation (`Reserve`) are two steps, as are
  testing the warned version, clearing the event and waiting for it
  (`LimitWarn`, `LimitClear`, `LimitWait`), and entering a thread record and
  starting the thread (`Acquire`, `StartWorker`).
* A prompt group `<<b, i>>` is prompt `i` of the `b`-th batch; its worker is
  `work[g]`: `gen` (rolling out), `push` (retrying a full buffer), `unreserve`
  (first prompt stored), `cleanup` and `release` (the finally clause), `done`.
  `version`, `goal` and `born` are the label, the target and the weights in
  the engine when its rollout began. `lost` is only for groups whose prompts a
  restart has passed by: an observation, no state of the program.
* The actor serves one call at a time in the order of sending (`inbox`), the
  default of a Ray actor. Remote calls that are not awaited are only appended;
  `ray.get` waits for `Answered`.
* The training loop is `trainer`; a failing training step, refit, validation or
  checkpoint ends in `aborted` like the `except` clause does.
* `Restart` loses every process and starts again from `saved`, which a finished
  checkpoint holds: the step and the dataloader position the actor answered
  with.

**`GrpoTrain`.** The variables are the locals of `grpo_train`; `policy` and
`engine` are the number of training steps that made the weights, `kvScales` and
`engineScales` the weights that FP8 scales were calibrated with. A prompt that
survives the filter is the record of its epoch, its batch and the weights that
answered it; how many survive (`k`) is free. The options of a run are the variable
`config`, chosen in `Init` and never changed. A checkpoint is taken in one
step: the `RestartFindsWhole` of `CheckpointManager` says that a
restart finds the last finished one whole. `AsyncGrpo` takes it in one step for
the same reason. The dataloader is a library: it continues
at the position it was given, and ends the pass at once if that was the end.

**`CheckpointManager`.** A directory is a function from its files to the
attempt that wrote them, `Torn` while a file is being written and `Gone` before; three
files stand for the info and configuration, the policy, and the dataloader. `tmp`, `final` and
`old` are the directories `tmp_step_<s>`, `step_<s>` and `old_step_<s>`; `rmtree` removes one
file per step, in any order. `Restart` goes by the names only, like
`get_latest_checkpoint_path`, and is impossible on a checkpoint that is not whole, since
the setup would raise. Replacing an existing step (`SetAside`, `Swap`,
`ClearOld`) follows `finalize_checkpoint`; training reaches it only by saving the
step it resumed from once more, which the loops of the repository do not do today.


**`WeightStream`, `PackedBroadcast`, `WeightTransfer`.** A parameter's value is the
refit it comes from. In the stream a buffer holds a sequence of parameters; `Pack` asks for an
asynchronous copy, `Copy` is the copy itself, and `GroupReady` waits for all of them as the
stream synchronization does. A load finds the refit's value only where the handle says that
the parameter is, otherwise `Corrupt`. In the broadcast the hosts only ask (`SendGroup`,
`AskGroup`), one host step per group; the devices carry (`Carry`) and load (`Unpack`) behind them, each
stream in order. A host waits for the stream it is about to use again and for
nothing else, so when a refit has succeeded up to `NumBuffers` groups may still load:
`ImplementsRefit` maps to `Settled`, the weights when the devices have done what
they were asked, and `Again` (the next refit) comes only after that, a training step later.
`refit_policy_generation` waits for the training workers first and takes a false answer of
the engine for an error. One pair of workers is modelled: pairs share nothing but
the verdict of the controller.

**`TrainLoops`, `WorkerMemory`.** One machine for the five loops; `config.kind` says
which, and `phase` is the place in it. A configuration gives the limits, the periods, the deadline
and where weights may be (`megatron`, `cpuOffload`, `offloadForLogprob`, place of the
engine). `refit_policy_generation` is split into its calls. `clock` is `TimeoutChecker`:
the average is compared without division. `trained[s]` is the batch of step `s`, an observation.
Of `grpo_train` only the calls to policy and engine are here, the rest is in `GrpoTrain`.

**`PolicyBatch`, `BatchSharding`, `SequencePacking`.** `Init` picks a call: method, worker
implementation, mode, lengths, sizes. `ShardPlain`, `ShardDynamic` and
`ShardPacked` shard like `lm_policy.py`; each worker's
`program` is the list of collectives its method comes to, derived from its own shard, and one of them
completes when every member of its group has come to it. A row stands for itself: a
gradient is a bag of rows, an answer the row it belongs to. The packers are the five of
`data/packing/algorithms.py`, with their orders and ties.

**`Rollouts`, `RolloutTokens`, `Episodes`.** Messages carry the sample and turn they were made
for and a length, so that a mix-up is visible; logs are shared objects, as they are in the batch
and its selections. The lock-step rollout runs in five steps per turn (`Select`, `Generate`,
`Respond`, `Step`, `Collect`), row by row; the asynchronous one lets every sample step by itself; the NeMo-Gym rollout
re-renders the text it holds and replaces the prefix by the tokens generated before. The
engine and the environments are external: any answer that fits, any reply out of `Replies`.

**`Algorithms` and the modules it extends.** A behaviour is one call: `Init` picks it, one action
per function computes the answer as the code does, and each property compares the answer
with a definition on whole inputs (a sum over all rows, a softmax over the whole vocabulary,
the row before it was packed). Exponentials and logarithms are integer functions given by the
configuration: the identities checked (shares add up, shifts meet) hold for any
functions. The language model is a function of the tokens up to a position.

The dataset is read once in the asynchronous loop (`StatefulDataLoader` with `drop_last`), so
every batch has `NumPrompts` prompts. Checkpointing is enabled, and in `AsyncGrpo` and
`GrpoTrain` the engine is separate from the policy (the asynchronous loop asserts it is not colocated;
`TrainLoops` has both places).

## Runs

| Run | Specification and bounds | Shows |
|---|---|---|
| `async_safety` | `Spec`, every interleaving; 2 prompts, age 1, 3 batches, 2 steps, one failure | age window, reservations, permits, labels, versions |
| `async_live` | `QuickSpec`; 1 prompt, age 2, 10 batches, 3 steps, in-flight updates, validation every second step and at the start, a save every second, deadline, one crash | each step fed by one batch, never stale, the buffer never full, pauses, termination also after a restart |
| `async_restart` | `QuickSpec`; 2 prompts, age 1, 6 batches, 3 steps, each saved, drained refits, one failure, one crash | no prompt twice, bounded loss, one straggler |
| `async_stall` | `FairSpec`; expected to be violated | the lost wake-up below |
| `replay_buffer` | `ReplayBuffer`; 4 groups, size 3, versions 0..2 | refinement, first in first out |
| `grpo_train` | `max_num_steps` 0 to 7, limit of batches 1 to 3, with and without dynamic sampling, scales and validation at the start; 2 epochs of 3 batches, 2 prompts a step out of 3, one crash | full on-policy batches, engine and scales in step, prompts once and in order, bounded loss, termination |
| `train_loops` | five loops in every setting of memory; limits −1 (supervised), 5 and 9, periods 2 and 4, deadline 7 or none; 2 epochs of 3 batches, two crashes | each batch once, a checkpoint of its own step, parameters where they are needed, the deadline |
| `checkpoint` | 3 steps, the best one kept, 2 scores and a missing metric, 3 checkpoints begun, a kill anywhere | a restart finds a whole checkpoint, the newest survives, the best are kept |
| `weight_stream` | `WeightTransfer`; 4 parameters of every size up to one too large, 2 buffers or streams, 2 refits, one exception or timeout | no buffer filled before it was read, refinement, every refit ends |
| `policy_batch` | 4 rows of lengths 4, 8, 10 and 19 (8 rows of 4 and 10 when trained in two steps), budget 18, 2 shards of 2 workers, every mode, method and worker | every row once and within the budget, one normaliser, answers in order, nobody stranded |
| `rollouts` | up to 4 samples in lock step, 2 in coroutines, 2 NeMo-Gym conversations; 2 turns, context 7, one failure | independent episodes, infos and stop strings, outcomes, tokens |
| `algorithms` | some 22 000 calls: rows up to 7 tokens, vocabulary 4, up to 2 tensor and 2 context ranks, clusters of up to three nodes | each function means on cut inputs what it means on whole ones |

**Schedules.** `Spec` of `AsyncGrpo` lets every thread run at every moment. Under it some
properties one would like are false, because a thread may sleep between two
lines while the training goes on for several steps (`async_stall` shows one, and
`OneStraggler` is another: any number of prompts may sleep there).
`QuickSpec` restricts the schedules to those in which a call is served when it
arrives and the collection thread runs until it has to wait, before the next
piece of GPU work (rollout, training step, refit, validation) ends; a crash may
still come at any moment. That is
how the program normally runs, control taking micro- to milliseconds and GPU
work seconds; what holds only there is said to hold only there. Safety
properties that hold under every schedule are checked, and proved, under `Spec`.

**Fairness.** `FairSpec` gives weak fairness to the collection thread, the
actor's thread, the workers together and the training loop: the operating system
schedules runnable threads. `QuickSpec` needs only that some step that is
neither a failure nor a crash is eventually taken. `Terminates` is checked without failures:
a failed training step ends the training by design. `GrpoTrain` assumes that the
loop goes on while it runs. `WeightTransfer` assumes it of the two workers of a stream and
of the controller, that a wait on the socket which nobody ends runs into the receive timeout
both sockets set (120 s), and of either host and the devices of a broadcast, but not
that anything fails. A broadcast has no timeout: `RefitEnds` promises nothing when one
side of it has raised. No other specification states fairness.

**Stopping.** Three runs switch the deadlock check off: `weight_stream` ends after its
last refit (or waits for ever in the broadcast just mentioned), `algorithms` after its call,
and `checkpoint` with the last attempt, or where no restart is possible: killed between the two
renames of a replacement while an older directory is half removed, the run leaves a latest
checkpoint that is not whole. `LatestWhole` excepts exactly that case.

**Bounds.** Two prompts make a batch that can be half started, half pushed or
half failed; two or three steps let a version overtake a reservation, an event
and a drain; age 2 exercises more than one open target. `NumBatches` exceeds what
the steps need, so that the end of the dataset is reached (`async_safety`) or
is not what stops the training (`async_live`). In `grpo_train` the
7 steps exceed the 6 batches of two epochs, so that both ends of a training
occur; the pool of 3 prompts overfills a step of 2; the limit of batches lies below and at the
length of an epoch, so that sampling can raise and can filter out whole epochs.
`train_loops` has limits inside and beyond its 6 batches, save periods that do and do not divide an epoch,
and steps of 1 to 3 units of time against a deadline of 7. In
`checkpoint` three attempts let a reused directory, a replacement and an
interrupted pruning meet (four were tried once: 10 million states, no violation).
In `weight_stream` four parameters make up to four groups, so that each
buffer and each stream is filled at least twice. The lengths of `policy_batch` fall on both sides of
half the budget, 10 and 8 together fill the budget exactly, 19 fits no bin; its shards get unequal numbers of
microbatches. In `rollouts` the samples of a batch leave it at different turns, one prompt
fills the context, and two tasks share an engine. The calls of `algorithms` have
rows whose length is no multiple of any chunk or rank. `MaxFailures` and
`MaxCrashes` bound failures and crashes. A restart of the asynchronous loop is taken only while the
checkpoint has a batch left.

## Disagreement found

**Lost wake-up** (`async_stall`). `_collection_loop` decides to pause on one
version and clears the event after another has been announced; nobody sets
it again and `sample` stalls for ever, although its docstring (`async_utils.py:111`)
promises a stall until the remaining trajectories are generated. It needs the announcement between
`async_utils.py:410` and `:428`.

## Known without a run

Found while translating; each is either visible in the model or named where the model excepts it.

Asynchronous training
* Too old is not discarded, though the guide says so (`docs/guides/async-grpo.md:113`): `sample`
  raises and the training ends. One failed rollout suffices: its finally clause releases the
  reservation of the whole step, the step is generated twice, and the surplus ages.
  Without any failure the same happens when the last group of a step is pushed between the two
  reads of `_get_next_target_for_generation` (`async_utils.py:320`, `:324`): the last generated
  target is read before the lock, the reservations after it.
* A prompt that passed the refit check before the pause, waiting for a permit, starts after the
  drain, against `prepare_for_refit`'s docstring (`async_utils.py:536`). `OneStraggler`: never
  more than one in quick schedules.
* Rollouts on dummy weights: the collection starts before the first refit (`grpo.py:1986`, `:2001`),
  with the label of the first version; `LabelNotNewer` says nothing of them.

Loops
* `dynamic_sampling` compares with `<=` (`grpo.py:795`), so a step may use one batch more than
  `dynamic_sampling_max_gen_batches`, the maximum according to `docs/guides/dapo.md:76`. With dynamic
  sampling the last epoch usually has fewer steps than batches, is not recognised as the last, and
  up to `save_period - 1` final steps are not saved; `LossBounded` excepts them.
* `distillation_train` wakes the engine beside the student after a validation and save
  (`distillation.py:720`): it lacks the `offload_after_refit` of `grpo.py:1145`.
  `ReadyToCompute` therefore claims a policy off the GPU only for GRPO.
* `distillation.setup` with a colocated engine creates the teacher first (`distillation.py:497`), so that
  an engine larger than a node is always refused (`vllm_generation.py:141`).
* Without a validation set `sft.validate` reads `master_config["dpo"]` and returns None, which its
  caller unpacks (`sft.py:244`, `:467`). `rm` with Megatron and a limit of −1 sets `train_iters` to −2
  (`rm.py:201`). Only `rm_train` knows −1 at all.
* `prepare_for_generation` and `finish_generation` swallow exceptions (`vllm_generation.py:711`, `:738`).
* The deadline is tested before the save it leads to, and setup time does not count.

Refit
* A broadcast's consumer that raises leaves the producer waiting without a timeout, and
  `ray.get` waits for the producer first.
* `collective_rpc`'s first answer alone is looked at (`vllm_worker.py:777`).
* The size of a broadcast's group is 2 % of the memory of each side's own GPU; sides with GPUs of different size
  cut different groups. The model assumes one size.

Batches and packing
* `score` refuses dynamic batching and packing; the branch that adds dummy microbatches is not
  reached, since the number of bins is a multiple of the shards.

Messages, rewards, environments
* A field missing in the first row of a batch is not padded (`llm_message_utils.py:366`); the
  HelpSteer3 processor puts the preferred completion into the prompt.
* The leave-one-out baseline of an invalid row divides by one too few (`utils.py:124`); the row does not count.
* A verifier whose extraction fails appends its score a second time (`math_environment.py:113`): later
  scores shift. `extracted_prediction[0][0]` takes a first character; an unknown `math_verify_impl` gives zero rewards (`:103`).
  The DAPO verifier returns a string, which unpacks only if it has two characters. A box flipped on both
  axes scores above 1 (`rewards.py:114`). Lower-case letters of multiple choice match but are not upper-cased.
* The code environment parses outside its `try`, fails a whole batch on one answer, and has no timeout.
* `run_env_eval` passes a third argument that the VLM, reward-model and puzzle environments do not take.

## Proofs

The theorems hold for every value of the constants the modules' assumptions allow, without the
bounds of the runs, and under every schedule unless `QuickSpec` is named.

`AsyncGrpoProofs` proves what holds under every schedule: `TypeCorrect`, `CollectorInStep`, `AgeWindow`, `LabelNotNewer`, `ReservationHeld`, `PermitsConserved`,
`PauseProtocol` and `OwnGroups`; for every number of prompts, age, batches, steps, failures and crashes.

* `TypeInv` strengthens the types with the shape of program counters: the
  collection thread holds a target exactly between `Reserve` and the end of its
  batch (`LoopShape`), the actor drains or wakes only while the call it serves
  heads the inbox (`ActorShape`), and the steps of the trainer are below
  `MaxSteps` when it trains (`TrainerShape`). Without them a lost local
  variable would break the type of the next step.
* `VersionInv` describes what may stand in the inbox: at most the announcement of
  the trainer's own version, and when the trainer is past the drain the inbox
  is empty. This gives `CollectorInStep`: an announcement cannot be two behind
  because the drain waits for its answer, and calls are served in order.
* `AgeInv` carries the age bound along the way of a target: read, reserved,
  handed to a worker, pushed. Versions only grow, so a later read keeps it.
* `LabelInv` relates label, current version and engine weights: the trainer
  refits before it announces.
* `ReservationHeld` and `PermitsConserved` need that the group about to be
  started was never started before (`NotStarted`): the batch number and prompt index only
  move on.
* `PauseInv` speaks of the inbox and the events together: of two opposite calls the one sent
  last decides (`EndsWith`), so whatever is still on its way, the pauses end up as the
  training loop left them.
* `OwnInv`: a group in the buffer or in a training step has a worker that is past its rollout,
  so it is neither started nor pushed again. After a crash `SavedInv` takes over: the dataloader
  position in a checkpoint, an answer given after every call before it, lies behind every batch
  that the steps of the checkpoint trained on, so none of their prompts comes again.

`OneStraggler`, `NoBatchDropped`, `RestartSound` and `SuppliedInTime`, in the same module, are about
`QuickSpec`, whose behaviours are behaviours of `Spec` (`QuickIsASchedule`).

* `OneStraggler`: a thread's record is in the set whenever the poll looks (`TrackedInv`), so the drain ends
  with nobody generating, and the collection thread, past its check, starts one more at most (`DrainInv`).
* `NoBatchDropped`: the limit lets the thread go on only where a target is open. `ReadInv`: what it
  read is what it uses. `WarnInv`: nothing is generated beyond the version plus `MaxAge`, and while the
  thread is warned of the current version the event is cleared.
* `RestartSound` bounds a loss by counting. `CountInv`: each batch the dataloader gave has a
  step of its own (pushed, or reserved), except one in hand, those of failed rollouts, and those that crashes
  took. Steps reach no further than the version plus `MaxAge` (`WarnInv`), which bounds the
  dataloader's position, the one in the checkpoint (`RestartBound`) and the one in an
  answer under way (`ReplyBound`). The prompts lost at a crash are those of the batches before the
  checkpoint's position without the groups that its steps trained on (`LostCount`).
* `SuppliedInTime` is proved as long as nothing has failed; `async_live`, with
  `MaxFailures = 0`, checks it of such runs only, since a failed rollout has its step generated twice. `SupplyInv`: no group
  in the buffer, under way or about to be started is for a step already sampled; each step in the
  pushed or reserved range belongs to one batch. The step just sampled leaves nothing behind because its
  `NumPrompts` groups were all those of its batch (`WholeBatch`).

`GrpoTrainProofs` proves `OnPolicy`, `EngineInStep`, `MetricOfCheckpoint`, `LossBounded`,
`EachPromptOnce` and the types, for any number of steps, epochs, batches, prompts and
crashes, and any options of the run.

* `EngineInv`: the flag is set whenever engine and policy may differ
  (`FlagInv`), the policy is one step ahead of the counter between training and
  counting (`CountInv`), and a metric in the loop is that of the step being
  finished (`MetricInv`).
* `CacheInv`: the cache holds only samples of the current epoch and weights. That
  what the engine adds to it is current follows from `EngineInv`.
* `PeriodInv`: `totalSteps - saved.total <= totalSteps % SavePeriod`, stronger than the
  bound and inductive because a remainder grows by one until the next multiple
  (`ModSucc`, proved from the definition of remainders). `EpochInv`: without
  dynamic sampling the steps of an epoch count its batches, also after a
  resumption at the end of an epoch, so that the last step is recognised.
* `OrderInv`: everything trained on was drawn before the dataloader's position, later steps
  after earlier ones; a checkpoint holds its own position, so that what a restart forgets is
  exactly what is drawn again. `FreshInv`: what waits in cache and batch was drawn after
  the last training step. `NumberInv`: without dynamic sampling the number of a batch is that
  of its step.
* `TypesAndBounds` bounds the batches one step may draw and the prompts the cache may hold.

Its second part proves `NoTornLoad` and that `WeightTransfer` implements `WeightRefit`, for any
number and sizes of parameters, buffers, groups, streams, refits and failures.

* The stream: the group being packed is the interval of parameters before the next one, in the
  current buffer; the group on its way is the interval before that, in the other one (`Handle`,
  `Held`), and what came earlier is loaded (`Arrived`). A buffer comes to be packed again only
  after the reply to its group, which the receiver sends when it has loaded it.
* The broadcast: both sides cut the parameters at the same places, so that the n-th group asked for
  is the n-th sent; the devices carry and load a prefix of the groups the hosts asked for, and only the
  last group of each stream can be owed when the hosts have finished.
* The refinement goes step by step: a load, the end of a refit and the next one map to the steps of
  `WeightRefit`, everything else to a stutter. The map (`Settled`) fills in what the devices
  owe, so that a success is whole at the moment it is reported.

`CheckpointManagerProofs` proves `RestartFindsWhole` and the types, for any number of steps,
scores, kept checkpoints and attempts.

* `DiskInv`: directories under final names were written by one attempt each (`WrittenInv`),
  pruning dooms only steps of which a newer one is saved (`SavedInv`), and the
  newest save is whole under its name, or its name is free and it stands whole
  beside it (`NewestInv`). That a set of saved steps has a greatest one is proved by well-foundedness.
* `BestInv`, for `BestKept`: a saved step that is not there whole is being replaced or beaten by `KeepTopK`
  of those ever saved, and what a pruning dooms is beaten already, so that being cut short costs nothing.
  The pruning ranks the checkpoints on disk, the property all that ever were: one that left earlier was itself
  beaten, and its betters beat whatever it beat.

`TrainLoopsProofs` proves `EachBatchOnce`, `CheckpointOwn`, `ReadyToCompute` and `DeadlineKept`,
for every configuration, any number of epochs and batches, any durations and any number of crashes.

* `TypeInv` has, besides the types, the shape of the loop (`Shape`): the engine is made ready exactly
  while the loop remembers what for, and a supervised loop never needs one.
* `PlaceInv` lays the batches end to end: the counters, the dataloader and the checkpoint each
  name the same place, where a supervised loop resumed at the end of an epoch counts its steps
  from zero. `LimitInv` bounds the steps by the limits and, as in `PeriodInv` above, what is not
  saved by a remainder. `TrainedInv` adds the batches trained on and the weights they made.
* `HomeInv`: where model and optimizer are between the calls, in the settings of every worker;
  `StaleInv`: the flag `POLICY_GENERATION_STALE` is set from the training on until the next
  stream, and while it is set a policy that computes on the GPU is there;
  `AwakeInv`: an engine on shared GPUs is awake only around its generation. `ReadyToCompute`
  needs all three: each call relies on where an earlier one, often several phases ago, left things.
* `MetricInv`: between a batch and the validation of its step there is no metric.
* `DeadlineInv`: the last check, and the one before it, said that an iteration of average length
  ends in time; `NoLonger` turns this into the time of the next one.

`ReplayBufferProofs` proves that the lists of `ReplayBuffer` implement `TrajectoryPool`
(`BufferImplemented`) and that a sample takes the oldest groups first (`OldestFirst`).

* What pops leave is not obvious from the code: `sample` pops one index after the other, each pop shifts
  the indices above it, and three lists must stay in step. `PopsAll` states the result without any order:
  what is left is the list at the indices outside the set, in increasing order (`Thinned`). Its proof is by the
  size of the set: a smallest set whose pops leave something else cannot exist (`LeastOf`), because
  its least index is popped last and is not shifted by the others. The same argument shows that
  every set of indices has one increasing list (`Listed`, `ListedOnce`). The library's induction theorems are
  not needed: a least element of a set of numbers is enough.
* `BufferInv` says that the lists are of one length, each group is in them once, and a group is meant for a
  step its version is young enough for. Without the second an entry that is left could equal one taken,
  and the sample would not take it out of the pool; without the third a group meant for the step of
  the sample could be too young for it, and would wait behind one pushed later.
* `FirstSelected` gives that the selected indices are as many as asked for and the smallest of
  the intended ones.

`RolloutsProofs` proves `SamplesInStep`, `OutcomesOwn`, `GymFaithful` and that `Rollouts` implements `Episodes`, for any
batches, replies, lengths, turns, shards, failures and generations.

* `RolloutInv` says where a sample is in its turn (`AtRest`, `IsAsked`, `IsTold`, `IsHeard`): how many
  requests, answers and feedbacks it has had, and which info and stop strings it holds. Rows of a
  selection and coroutines are tied to these by their phase. A row's log is its own (`LogsInv`), so an answer put into
  the log of a row reaches that sample only (`AppendedToAll`).
* The operators it needs: `ShardOf` (a row is in one shard, whose merged stop strings contain its own),
  `NextLeft` (the environments, called by task, hear every row once) and `RankTaken` (the k-th survivor of a
  batch is the k-th of `going`). `FoldUnique` makes a fold on sets tractable without induction: two functions
  of sets that agree where their steps do agree on the whole set, by a smallest counterexample.
* `EpisodeInv` is what the outcomes need. A log fits the context and its mark tells whether the last observation
  filled it (`Sized`, `Marked`); what a sample got is what was said to it (`PaidUp`), or in the middle of a
  step lacks the last feedback only (`Owed`). The rows of a selection go on and are in the same turn, because the loop
  counts turns for all at once (`TurnInv`); answers and feedbacks on their way are about the log they
  will enter (`OutsInv`, `SaidInv`); a coroutine that goes on waits for the engine or holds the
  event loop (`CoroutineInv`).
* Lengths and rewards are sums over finite sets (`Total`): `SumExists` and `SumOnce` show that the recursion behind
  them has one solution, `TotalGrows` what one more element adds.
* The refinement: `InEpisode` says of a step that every sample answers, observes, stops or stays.
  In lock step all rows move at once, which `Episodes` allows because its step is one of all samples.
* `GymInv` says of each conversation that its calls and its messages belong together (`Aligned`), up to a last
  message of the user that no call has answered yet (`Talk`): the log made of the calls has their tokens and no
  other, these without the template's special tokens are the text of the messages, and the calls are
  contiguous. The step is `AlignedNext`. It needs that a prompt is what the model has seen followed by
  the tokens of the user's message (`NextPrompt`): the last end of message in the rendered prefix is its
  last token (`RenderEnds`), whatever the tokenizer makes of the text before it, and the
  one the model ended with, or did not, is replaced or added (`PrefixKept`).

`BatchShardingProofs` proves what the packers and the three shardings return (`PackingsPacked`,
`PlainSharded`, `DynamicSharded`, `PackedSharded`), for any lengths, sizes and shards.

* Packing: `Packed` says that some of the items are in the bins, each once, and that every bin is sound:
  not empty, within the capacity. Each step of a packer keeps it (`PutInto`, `AddMedium`,
  `AddSmallPair`, `TopUp`), and so does each fold. `FoldLeft` is a `CHOOSE` over functions on
  intervals; its steps are recovered by well-foundedness, once, and cited by all folds.
* `_adjust_bin_count` takes its items from the fullest bin with two; there always is one as long as
  the sequences are a multiple of the shards (`Crammed`), so that its error never comes.
* Sorting: the orders are written as lists of sets (`Listed`), because `SortSeq` is opaque to the
  prover. A strict total order lists each element once, in order.
* Sharding: `Splits` says which rows of a global batch each shard holds (`P[s][g]`) and that its
  microbatches tile them; `Once` that every row of the global batch is with one shard; `SameMicro` that all
  shards have equally many microbatches, where the workers do not agree on the largest number. With packing
  the last comes from the adjusted number of bins, with dynamic batching from widths taken over
  all shards.
* `FlattenSeq` is a `CHOOSE` as well. `Joins` names the lists it passes through, `FlatNext` and `FlatBoth`
  say what one list more and a second list of lists add; a conversation's log is taken apart with them.

`PolicyBatchProofs` proves all four properties of `PolicyBatch` (`NoneStranded`, `EachRowWhole`, `GlobalNormalizer`,
`OwnResult`) from these, for any lengths, sizes, shards, replicas, packers and backends.

* `StepInv`: the workers of a call have one program, because of `SameMicro` or of the largest
  number; two that meet in an operation have passed it both or neither (`InStep`). The worker that
  is furthest behind then finds its whole group at its operation, hence `NoneStranded`. That a program is
  a course through the steps, microbatches and answers in order (`Course`) is part of the invariant.
* `ValueInv`: what a worker holds is settled by its place in its program. A place has a station (`Route`): the
  optimizer steps taken, the global batch open and the microbatches of it done. There the worker's
  gradients, or its answers once its stage speaks or was sent them, are those of the rows in these
  microbatches (`Kept`), and its normaliser is the sum over the whole global batch (`Due`); each
  update recorded was taken from a worker's whole part (`StepFrom`). A meeting moves all its
  workers one station on (`MeetShifts`), so each action is shown for the station alone. TLC checks what
  this gives, not the existential in it; the three properties follow from it.
* The `all_reduce` adds up over the workers of a replica what each counts in its rows. `Total` over a finite set has
  one value whatever the order (`SetSumOnce`), so the sum over the parts is that of the batch
  (`TotalFamily`, `NormIs`).
* The rows come back as they were given because the parts, laid end to end in the order of the shards, are
  the order `reorder_data` inverts (`Ordered`, `ReorderedSelf`), and because the workers the driver
  listens to are those of the first replica, by shard (`ReturnFromIs`).

The assumptions are those the modules name. Most say that a bound is a natural number, that a
period or a batch is not zero, and that the options of a run are records of the listed fields. Five say more:

* the groups the buffer stores are the groups the collector starts (`GroupsAssumption`);
* a generation batch has at least the prompts of a training step (`GrpoAssumption`), as
  `grpo.setup` computes it with a `batch_multiplier` of one or more;
* only a Megatron policy generates for itself, `engine = "self"` (`LoopsAssumption`): no other
  worker has a `generate` (`megatron_policy_worker.py:1833`);
* a prompt has a token and fits the context, and what an environment says is a number of tokens, an
  end or none, and a reward, an integer here (`RolloutAssumption`);
* a model generates no header of the chat template (`RolloutAssumption`): a message cannot begin
  within an answer. Ends of message may stand anywhere in it.

TLC evaluates each assumption in a run of the module.

**Only model-checked.** Liveness (`Terminates`, `Ends`, `RefitEnds`, and `StallEnds` of the violated run) is out of the
prover's reach. The properties of `Algorithms` are checked, not proved: they compute with many folds and
recursive functions over their inputs, and an induction over data takes an argument of its own for
each, as in `ReplayBufferProofs`, `BatchShardingProofs` and the conversations of `RolloutsProofs`.

## Not modelled

* **Logger and GPU monitor**: metrics for third-party back ends; no decision reads them.
* **Parallel plans, FP8** (`parallelize.py`, `fp8.py`): tables of sharding styles and kernels patched into
  vLLM; that scales are calibrated in time is in `GrpoTrain`.
* **Program utilities**: configuration files, virtual environments, wrappers around
  checkpoint libraries, FLOP counts.
* Of modelled components: the virtual cluster's retries with back-off and its ports; shutdown of
  worker groups; parsing of HTTP requests; loading of data sets; multimodal content; the
  retrieval and tool environments; `get_best_checkpoint_path`, which only tests call; `get_debug_info`; the
  optional invalidation of the KV cache after a refit; an exception inside `_process_batch`; the
  warm-up of the cosine penalty; fractional rewards with pass@k; `broadcast_tensor`; metrics and sums for the log;
  the post-processing of FP8 scales on the default stream.
* **Floating point**: NaN, overflow and rounding. The functions are checked over integers.
* **Failures of single actors or nodes**: no part of the code handles them; a crash is one of the whole job.
* **Libraries are external** and modelled as the code uses them: a `StatefulDataLoader` restored at the end of
  its pass yields nothing; a sleeping engine of level 1 keeps its weights; Ray places bundles as asked and
  ignores `pg_idx` when there is one placement group; `VLLM_DP_RANK_LOCAL` assumes 8 GPUs
  per node; the ranks of a separate engine start at zero in each of its instances; a chat template
  renders a prefix the same way whatever follows (`_replace_prefix_tokens`).

## Plan

Done: the asynchronous loop with its collector and buffer, the synchronous loop, the four other
loops, checkpoints, both refits, rollouts, batches and policy calls, clusters, losses, messages,
environments and evaluation; theorems about the asynchronous loop, its buffer, the synchronous loop, the
other loops, the checkpoints, both refits, the rollouts and the calls of the policy.

Next:

1. Proofs: the properties of `Algorithms`.
2. Models: the retries of the virtual cluster and the order of shutdown of worker groups; the HTTP
   server of the asynchronous worker beyond its prefix replacement.
