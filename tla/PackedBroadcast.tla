----------------------------- MODULE PackedBroadcast -----------------------------
(***************************************************************************)
(* Refit of an engine on GPUs of its own: both sides walk over the         *)
(* parameters in the same order, each makes the same groups of them, and   *)
(* every group crosses in one broadcast.  Broadcasts and loads run on the  *)
(* devices, on NumBuffers streams taken in turn; a host waits for a stream *)
(* before it uses it again and for nothing else.  The engine worker is the *)
(* one of its engine whose answer is read; the others do the same, but a   *)
(* false answer of theirs is dropped.  Devices have one size on both sides.*)
(***************************************************************************)
EXTENDS WeightRefit, Sequences, FiniteSetsExt

CONSTANTS
  Target,         \* size above which a group is closed
  NumBuffers      \* streams of each side

ASSUME BroadcastAssumption == Target \in Nat \ {0} /\ NumBuffers \in Nat \ {0}

VARIABLES
  bytes,              \* size of each parameter
  producer, sent,     \* the training worker's host, the groups it has asked to send
  consumer, asked,    \* the engine worker's host, the groups it has asked for
  carried,            \* broadcasts that have ended, in the order of the groups
  unpacked            \* how many parameters of each group are loaded

producerVars == <<producer, sent>>
consumerVars == <<consumer, asked>>
broadcastVars == <<bytes, producerVars, consumerVars, carried, unpacked>>

Total(group) == MapThenSumSet(LAMBDA p : bytes[p], group)

(* Mutant: the receiving side closes a group that just reaches the target. *)
ReceivingFullAt(group) == Total(group) >= Target

SendingFull(group) == Total(group) > Target
ReceivingFull(group) == Total(group) > Target

Taken(groups) == UNION {groups[g] : g \in DOMAIN groups}
EndOf(groups) == groups[Len(groups)]

(* The next parameters up to the one that fills the group, or all the rest.*)
NextGroup(full(_), groups) ==
  LET rest == Params \ Taken(groups)
      upTo(p) == {q \in rest : q <= p}
  IN  upTo(Min({p \in rest : full(upTo(p)) \/ p = NumParams}))

Unpacked == {g \in DOMAIN asked : unpacked[g] = Cardinality(asked[g])}

(* The stream that group g is to use has nothing left to do: the group     *)
(* before it there is over.                                                *)
Synchronized(over, g) == g > NumBuffers => g - NumBuffers \in over

BroadcastReady ==
  /\ producer = "send" /\ sent = <<>> /\ consumer = "ask" /\ asked = <<>> /\ carried = 0
  /\ unpacked = [g \in Params |-> 0]

BroadcastInit == bytes \in [Params -> 1 .. Target + 1] /\ BroadcastReady

-----------------------------------------------------------------------------
(* The hosts. *)

Crossed == 1 .. carried

SendGroup ==
  /\ producer = "send" /\ Taken(sent) # Params
  /\ Synchronized(Crossed, Len(sent) + 1)
  /\ sent' = Append(sent, NextGroup(SendingFull, sent))
  /\ UNCHANGED <<producer, consumerVars, carried, unpacked, weights>>

(* After a group that was closed the loop turns to the next stream first.  *)
SendEnds ==
  /\ producer = "send" /\ Taken(sent) = Params
  /\ SendingFull(EndOf(sent)) => Synchronized(Crossed, Len(sent) + 1)
  /\ producer' = "done"
  /\ UNCHANGED <<sent, consumerVars, carried, unpacked, weights>>

AskGroup ==
  /\ consumer = "ask" /\ Taken(asked) # Params
  /\ Synchronized(Unpacked, Len(asked) + 1)
  /\ asked' = Append(asked, NextGroup(ReceivingFull, asked))
  /\ UNCHANGED <<consumer, producerVars, carried, unpacked, weights>>

AskEnds ==
  /\ consumer = "ask" /\ Taken(asked) = Params
  /\ ReceivingFull(EndOf(asked)) => Synchronized(Unpacked, Len(asked) + 1)
  /\ consumer' = "true"
  /\ UNCHANGED <<asked, producerVars, carried, unpacked, weights>>

SendFails ==
  /\ producer = "send" /\ producer' = "failed"
  /\ UNCHANGED <<sent, consumerVars, carried, unpacked, weights>>

AskFails ==
  /\ consumer = "ask" /\ consumer' = "false"
  /\ UNCHANGED <<asked, producerVars, carried, unpacked, weights>>

-----------------------------------------------------------------------------
(* The devices. *)

Carry ==
  /\ carried < Len(sent) /\ carried < Len(asked)
  /\ carried' = carried + 1
  /\ UNCHANGED <<producerVars, consumerVars, unpacked, weights>>

(* What reaches the parameters when group g crosses. *)
Crossing(g) == IF sent[g] = asked[g] THEN refit ELSE Corrupt

Unpack == \E g \in 1 .. carried :
  /\ g \notin Unpacked
  /\ \A h \in 1 .. g - 1 : h % NumBuffers = g % NumBuffers => h \in Unpacked
  /\ weights' = [weights EXCEPT ![Min(asked[g]) + unpacked[g]] = Crossing(g)]
  /\ unpacked' = [unpacked EXCEPT ![g] = @ + 1]
  /\ UNCHANGED <<producerVars, consumerVars, carried>>

Hosts == SendGroup \/ SendEnds \/ AskGroup \/ AskEnds
Devices == Carry \/ Unpack

(* Nothing asked for is still to come. *)
Drained == Unpacked = DOMAIN asked

(* The parameters as they will be when the devices have done what both     *)
(* hosts asked of them.                                                    *)
Settled ==
  LET both == {g \in DOMAIN asked : g <= Len(sent)}
  IN  [p \in Params |->
        LET of == {g \in both : p \in asked[g]}
        IN  IF of = {} THEN weights[p] ELSE Crossing(Min(of))]

(* Only the last groups, one for each stream, are still on their way.      *)
OwedAreLast == \A g \in DOMAIN asked \ Unpacked : g > Len(asked) - NumBuffers
================================================================================
