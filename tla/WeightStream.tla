------------------------------ MODULE WeightStream ------------------------------
(***************************************************************************)
(* Refit of a colocated engine: a policy worker packs its parameters into  *)
(* two buffers in turn and sends a handle to each over a ZMQ REQ socket;   *)
(* the engine's worker loads the parameters out of the buffer it was told  *)
(* of and acknowledges.  While the engine reads one buffer the policy      *)
(* worker fills the other; a buffer may be filled again only after its     *)
(* acknowledgement.  Copies into a buffer run on the GPU behind the        *)
(* program that asks for them.  Either side may raise, or time out waiting *)
(* for the other.                                                          *)
(***************************************************************************)
EXTENDS WeightRefit, Sequences

CONSTANTS
  Capacity,       \* what one of the two buffers holds
  MaxFailures     \* bound on exceptions and timeouts

ASSUME StreamAssumption == Capacity \in Nat \ {0} /\ MaxFailures \in Nat

VARIABLES
  size,               \* aligned size of each parameter
  sender,             \* what the policy worker does next
  next, names, used,  \* its locals: the next parameter, those in this group
  copied,             \* how many of the group are in the buffer already
  current, awaiting,  \* current_buffer, await_recv
  buffers,            \* the parameters each buffer holds, in their places
  request, reply,     \* messages under way on the socket
  receiver,           \* what the engine's worker does next
  message, loaded,    \* its payload, and how much of it is loaded
  failures

senderVars == <<sender, next, names, used, copied, current, awaiting, buffers>>
channel == <<request, reply>>
receiverVars == <<receiver, message, loaded>>
streamVars == <<size, senderVars, channel, receiverVars, failures>>

Nothing == [kind |-> "nothing"]
Complete == [kind |-> "complete"]
Group(b, ps) == [kind |-> "group", buffer |-> b, names |-> ps]

(* Both sides when a refit begins. *)
Ready ==
  /\ sender = "pack" /\ next = 1 /\ names = <<>> /\ used = 0 /\ copied = 0
  /\ current = 0 /\ awaiting = FALSE /\ buffers = [b \in {0, 1} |-> <<>>]
  /\ receiver = "recv" /\ message = Nothing /\ loaded = 0

StreamReady == Ready /\ request = Nothing /\ reply = FALSE /\ failures = 0

StreamInit == size \in [Params -> 1 .. Capacity + 1] /\ StreamReady

-----------------------------------------------------------------------------
(* The policy worker. *)

NextFits == next <= NumParams /\ used + size[next] <= Capacity

(* A copy is asked for. *)
Pack ==
  /\ sender = "pack" /\ NextFits
  /\ names' = Append(names, next) /\ used' = used + size[next] /\ next' = next + 1
  /\ UNCHANGED <<sender, copied, current, awaiting, buffers, channel>>

(* A copy is done; the first of a group ends what the buffer held before.  *)
Copy ==
  /\ sender \in {"pack", "await"} /\ copied < Len(names)
  /\ buffers' = [buffers EXCEPT ![current] = SubSeq(names, 1, copied + 1)]
  /\ copied' = copied + 1
  /\ UNCHANGED <<sender, next, names, used, current, awaiting, channel>>

(* The assertion on the size of a parameter. *)
TooLarge ==
  /\ sender = "pack" /\ next <= NumParams /\ size[next] > Capacity
  /\ sender' = "failed" /\ buffers' = [b \in {0, 1} |-> <<>>]
  /\ UNCHANGED <<next, names, used, copied, current, awaiting, channel>>

(* The group is complete, the stream is synchronized.                      *)
GroupReady ==
  /\ sender = "pack" /\ names # <<>> /\ ~NextFits
  /\ next <= NumParams => size[next] <= Capacity
  /\ copied = Len(names)
  /\ sender' = "await"
  /\ UNCHANGED <<next, names, used, copied, current, awaiting, buffers, channel>>

(* The acknowledgement of the other buffer first, then the handle of this  *)
(* one; the next group goes into the other.                                *)
Send ==
  /\ sender = "await" /\ (awaiting => reply)
  /\ request' = Group(current, names) /\ reply' = FALSE /\ awaiting' = TRUE
  /\ current' = 1 - current /\ names' = <<>> /\ used' = 0 /\ copied' = 0
  /\ sender' = "pack"
  /\ UNCHANGED <<next, buffers>>

(* Mutant: the last, incomplete group is forgotten. *)
AllSentButLast == sender = "pack" /\ next > NumParams

AllSent == sender = "pack" /\ next > NumParams /\ names = <<>>

SendComplete ==
  /\ AllSent /\ (awaiting => reply)
  /\ request' = Complete /\ reply' = FALSE
  /\ sender' = "complete"
  /\ UNCHANGED <<next, names, used, copied, current, awaiting, buffers>>

SenderDone ==
  /\ sender = "complete" /\ reply /\ reply' = FALSE
  /\ sender' = "done" /\ buffers' = [b \in {0, 1} |-> <<>>]
  /\ UNCHANGED <<next, names, used, copied, current, awaiting, request>>

SenderWaits ==
  /\ ~reply
  /\ \/ sender = "complete" \/ (sender = "await" /\ awaiting) \/ (AllSent /\ awaiting)

(* Mutant: the sender waits as long as it takes. *)
SenderPatient ==
  /\ SenderWaits /\ receiver # "false" /\ failures < MaxFailures /\ failures' = failures + 1
  /\ sender' = "failed" /\ buffers' = [b \in {0, 1} |-> <<>>]
  /\ UNCHANGED <<next, names, used, copied, current, awaiting, channel>>

(* RCVTIMEO: either the engine is slow, or it has given up.  The buffers   *)
(* are freed on every exit.                                                *)
SenderTimeout ==
  /\ SenderWaits
  /\ IF receiver = "false" THEN UNCHANGED failures
     ELSE failures < MaxFailures /\ failures' = failures + 1
  /\ sender' = "failed" /\ buffers' = [b \in {0, 1} |-> <<>>]
  /\ UNCHANGED <<next, names, used, copied, current, awaiting, channel>>

StreamSenderStep ==
  /\ \/ /\ \/ Pack \/ Copy \/ TooLarge \/ GroupReady \/ Send \/ SendComplete \/ SenderDone
        /\ UNCHANGED failures
     \/ SenderTimeout
  /\ UNCHANGED <<refitVars, size, receiverVars>>

-----------------------------------------------------------------------------
(* The engine's worker. *)

Receive ==
  /\ receiver = "recv" /\ request # Nothing
  /\ message' = request /\ request' = Nothing /\ loaded' = 0
  /\ receiver' = IF request = Complete THEN "finish" ELSE "load"
  /\ UNCHANGED <<weights, reply, failures>>

(* One parameter, out of the place where the handle says it is. *)
Load ==
  /\ receiver = "load" /\ loaded < Len(message.names)
  /\ LET p == message.names[loaded + 1]
         held == buffers[message.buffer]
     IN  weights' = [weights EXCEPT ![p] =
           IF loaded < Len(held) /\ held[loaded + 1] = p THEN refit ELSE Corrupt]
  /\ loaded' = loaded + 1
  /\ UNCHANGED <<receiver, message, channel, failures>>

Acknowledge ==
  /\ receiver = "load" /\ loaded = Len(message.names)
  /\ receiver' = "recv" /\ message' = Nothing /\ loaded' = 0
  /\ reply' = TRUE
  /\ UNCHANGED <<weights, request, failures>>

AcknowledgeComplete ==
  /\ receiver = "finish" /\ receiver' = "post"
  /\ reply' = TRUE
  /\ UNCHANGED <<weights, message, loaded, request, failures>>

(* The FP8 scales, after the last acknowledgement. *)
PostProcess ==
  /\ receiver = "post" /\ receiver' = "true"
  /\ UNCHANGED <<weights, message, loaded, channel, failures>>

(* Any exception, a timeout of the receive among them, ends the update     *)
(* without an acknowledgement.  The receive must time out when the policy  *)
(* worker has given up.                                                    *)
ReceiverFails ==
  /\ receiver \in {"recv", "load", "finish", "post"}
  /\ IF receiver = "recv" /\ request = Nothing /\ sender = "failed" THEN UNCHANGED failures
     ELSE failures < MaxFailures /\ failures' = failures + 1
  /\ receiver' = "false"
  /\ UNCHANGED <<weights, message, loaded, channel>>

StreamReceiverStep ==
  /\ \/ Receive \/ Load \/ Acknowledge \/ AcknowledgeComplete \/ PostProcess \/ ReceiverFails
  /\ UNCHANGED <<refit, outcome, size, senderVars>>

=============================================================================
