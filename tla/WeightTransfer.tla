----------------------------- MODULE WeightTransfer -----------------------------
(***************************************************************************)
(* refit_policy_generation: the weights go over shared memory to an engine *)
(* on the same GPUs and over a collective to an engine on its own; either  *)
(* way the trainer waits for the training workers first, then for the      *)
(* engine's, and takes a false answer of the engine for an error.          *)
(***************************************************************************)
EXTENDS WeightStream, PackedBroadcast

VARIABLE colocated      \* colocated_inference

transferVars == <<refitVars, streamVars, broadcastVars, colocated>>

(* One path is taken in all refits; the other's state stays as it is.      *)
Idle == [p \in Params |-> 1]
TransferInit ==
  /\ RefitInit
  /\ \/ colocated = TRUE /\ StreamInit /\ BroadcastReady /\ bytes = Idle
     \/ colocated = FALSE /\ BroadcastInit /\ StreamReady /\ size = Idle

SenderStep == colocated /\ StreamSenderStep /\ UNCHANGED <<broadcastVars, colocated>>
ReceiverStep == colocated /\ StreamReceiverStep /\ UNCHANGED <<broadcastVars, colocated>>
HostStep ==
  ~colocated /\ Hosts /\ UNCHANGED <<refit, outcome, streamVars, bytes, colocated>>
DeviceStep ==
  ~colocated /\ Devices /\ UNCHANGED <<refit, outcome, streamVars, bytes, colocated>>
BroadcastFails ==
  ~colocated /\ (SendFails \/ AskFails) /\ UNCHANGED <<refit, outcome, streamVars, bytes, colocated>>

-----------------------------------------------------------------------------
(* The trainer. *)

Succeed ==
  /\ outcome = "none"
  /\ IF colocated THEN sender = "done" /\ receiver = "true"
     ELSE producer = "done" /\ consumer = "true"
  /\ outcome' = "success"
  /\ UNCHANGED <<weights, refit, streamVars, broadcastVars, colocated>>

Fail ==
  /\ outcome = "none"
  /\ IF colocated THEN sender = "failed" \/ (sender = "done" /\ receiver = "false")
     ELSE producer = "failed" \/ (producer = "done" /\ consumer = "false")
  /\ outcome' = "error"
  /\ UNCHANGED <<weights, refit, streamVars, broadcastVars, colocated>>

(* The devices have come to rest before the next refit, a training step    *)
(* later.                                                                  *)
Again ==
  /\ outcome = "success" /\ outcome' = "none"
  /\ refit < MaxRefits /\ refit' = refit + 1
  /\ ~colocated => Drained
  /\ sender' = "pack" /\ next' = 1 /\ names' = <<>> /\ used' = 0 /\ copied' = 0
  /\ current' = 0 /\ awaiting' = FALSE /\ buffers' = [b \in {0, 1} |-> <<>>]
  /\ receiver' = "recv" /\ message' = Nothing /\ loaded' = 0
  /\ producer' = "send" /\ sent' = <<>> /\ consumer' = "ask" /\ asked' = <<>>
  /\ carried' = 0 /\ unpacked' = [g \in Params |-> 0]
  /\ UNCHANGED <<weights, size, channel, failures, bytes, colocated>>

TrainerStep == Succeed \/ Fail \/ Again

TransferNext == SenderStep \/ ReceiverStep \/ HostStep \/ DeviceStep \/ BroadcastFails \/ TrainerStep

(* Every process runs on; a wait on the socket that nobody ends runs into  *)
(* its timeout.                                                            *)
Fairness ==
  /\ WF_transferVars(SenderStep) /\ WF_transferVars(ReceiverStep) /\ WF_transferVars(TrainerStep)
  /\ WF_transferVars(HostStep /\ (SendGroup \/ SendEnds))
  /\ WF_transferVars(HostStep /\ (AskGroup \/ AskEnds)) /\ WF_transferVars(DeviceStep)
TransferSpec == TransferInit /\ [][TransferNext]_transferVars /\ Fairness

-----------------------------------------------------------------------------
(* While the policy worker has not given up, the engine never loads bytes  *)
(* of another parameter: no buffer is filled again before it was read, no  *)
(* handle is sent before its copies are done, and both sides of the        *)
(* broadcast make the same groups.  Once a broadcast refit has succeeded   *)
(* only the last groups, one for each stream, may still be on their way    *)
(* (stream_weights_via_ipc_zmq_impl, packed_tensor.py:39-203).             *)
NoTornLoad ==
  /\ sender # "failed" => \A p \in Params : weights[p] # Corrupt
  /\ ~colocated /\ outcome = "success" => OwedAreLast

(* Both paths implement the refit the training loop relies on: a reported  *)
(* success means that every parameter is this refit's, or will be when the *)
(* devices have done what they were asked, and stays (grpo.py:903-976).    *)
Refined == INSTANCE WeightRefit WITH weights <- Settled
ImplementsRefit == Refined!RefitSpec

(* Every refit ends, and without exceptions and timeouts it ends well: the *)
(* two sides never wait for each other.  A broadcast ends when neither     *)
(* side raises: nothing wakes a side that waits for one that did.          *)
Fits == \A p \in Params : size[p] <= Capacity
Raised == producer = "failed" \/ consumer = "false"
RefitEnds ==
  outcome = "none" /\ (~colocated => ~Raised)
    ~> \/ ~colocated /\ Raised
       \/ outcome # "none" /\ ((failures = 0 /\ Fits) => outcome = "success")
=============================================================================
