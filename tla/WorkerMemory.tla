----------------------------- MODULE WorkerMemory -----------------------------
(***************************************************************************)
(* Where a policy's parameters and optimizer state are, and what the       *)
(* worker methods do to them; and the same of an inference engine that     *)
(* shares the GPUs with it.  A place is "gpu" or "cpu".                    *)
(*                                                                         *)
(* A setting m has the fields megatron (or DTensor), cpuOffload (of all of *)
(* a DTensor worker, of the optimizer of a Megatron worker),               *)
(* offloadForLogprob (offload_optimizer_for_logprob) and colocated.        *)
(***************************************************************************)
EXTENDS Integers

NoWeights == -1

(* Where the computation wants the parameters, and the optimizer.  *)
ModelHome(m) == IF m.cpuOffload /\ ~m.megatron THEN "cpu" ELSE "gpu"
OptimizerHome(m) == IF m.cpuOffload THEN "cpu" ELSE "gpu"

(* A worker just built, with weights that were loaded from a checkpoint,   *)
(* and with the reference weights it started from; kept are its own while  *)
(* it computes with the reference's.                                       *)
Built(m, loaded) ==
  [model |-> ModelHome(m), optimizer |-> OptimizerHome(m), weights |-> loaded,
   reference |-> 0, kept |-> NoWeights]

(* With cpuOffload only the buffers of a DTensor model are moved. *)
PrepareForLogprobs(m, w) ==
  [w EXCEPT !.model = IF ModelHome(m) = "gpu" THEN "gpu" ELSE @,
            !.optimizer = IF m.offloadForLogprob THEN "cpu" ELSE @]

PrepareForTraining(m, w) ==
  [w EXCEPT !.model = IF ModelHome(m) = "gpu" THEN "gpu" ELSE @,
            !.optimizer = IF ~m.cpuOffload /\ (m.offloadForLogprob \/ m.colocated)
                            THEN "gpu" ELSE @]

OffloadBeforeRefit(w) == [w EXCEPT !.optimizer = "cpu"]

OffloadAfterRefit(w) == [OffloadBeforeRefit(w) EXCEPT !.model = "cpu"]

(* Streaming pulls the model of a DTensor worker to the GPU. *)
Streamed(m, w) == [w EXCEPT !.model = IF m.cpuOffload /\ ~m.megatron THEN "gpu" ELSE @]

(* broadcast_weights_for_collective puts it back. *)
Broadcasted(m, w) == [Streamed(m, w) EXCEPT !.model = IF m.cpuOffload /\ ~m.megatron THEN "cpu" ELSE @]

(* use_reference_model: entering puts the reference's weights in the       *)
(* policy's place, leaving, also by an exception, puts its own back.       *)
EnterReference(w) == [w EXCEPT !.weights = w.reference, !.kept = w.weights]

LeaveReference(w) == [w EXCEPT !.weights = w.kept, !.kept = NoWeights]

OnGpu(w) == "gpu" \in {w.model, w.optimizer}

MayInfer(m, w) == w.model = ModelHome(m)
MayTrain(m, w) == MayInfer(m, w) /\ w.optimizer = OptimizerHome(m)

-----------------------------------------------------------------------------
(* The engine: the weights in it, what of it is on the GPU, and the        *)
(* weights that filled its prefix cache.                                   *)

Launched(m) ==
  [weights |-> NoWeights, held |-> IF m.colocated THEN {} ELSE {"weights", "kv_cache"},
   prefix |-> NoWeights]

(* Without tags, everything wakes up. *)
WakeUp(m, e, tags) == [e EXCEPT !.held = IF m.colocated THEN @ \cup tags ELSE @]

Loaded(e, weights) == [e EXCEPT !.weights = weights]

Generated(e) == [e EXCEPT !.prefix = e.weights]

(* Mutant: the prefix cache is left as it is when there is no need to sleep. *)
FinishedUncleared(m, e) ==
  IF m.colocated THEN [e EXCEPT !.held = {}, !.prefix = NoWeights] ELSE e

(* finish_generation: to sleep if the GPUs are shared; the prefix cache is *)
(* cleared in any case.                                                    *)
Finished(m, e) == [e EXCEPT !.held = IF m.colocated THEN {} ELSE @, !.prefix = NoWeights]

=============================================================================
