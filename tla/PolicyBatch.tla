------------------------------- MODULE PolicyBatch -------------------------------
(***************************************************************************)
(* One call of the policy (train, get_logprobs, get_topk_logits, score) on *)
(* a batch: Policy shards the batch over the data parallel ranks, every    *)
(* worker runs its method on its shard, meeting the others in collectives, *)
(* and Policy puts the answers of one worker per data parallel rank back   *)
(* into the order of the batch.  A worker's method is the list of the      *)
(* collectives it takes part in; one completes when every member of its    *)
(* group has come to it.                                                   *)
(***************************************************************************)
EXTENDS BatchSharding

CONSTANTS
  NumRows,        \* rows of a batch
  Lengths,        \* the lengths a row may have
  LongLengths,    \* those of a batch of twice as many rows, trained in two steps
  Masked,         \* the rows whose sample_mask is 0
  BatchSizes,     \* global batch sizes of train
  MicroSizes,     \* rows of a plain microbatch
  Budget,         \* max_tokens_per_microbatch
  Multiple,       \* sequence_length_round, sequence_length_pad_multiple
  NumShards,      \* data parallel size
  NumReplicas     \* workers that share a shard (tensor or pipeline parallel)

ASSUME BatchAssumption ==
  /\ NumRows \in Nat \ {0} /\ NumShards \in Nat \ {0} /\ NumReplicas \in Nat \ {0}
  /\ Lengths \cup LongLengths \subseteq Nat \ {0} /\ Masked \subseteq 1 .. NumRows
  /\ BatchSizes \subseteq Nat \ {0} /\ MicroSizes \subseteq Nat \ {0}
  /\ Budget \in Nat \ {0} /\ Multiple \in Nat \ {0}

VARIABLES
  call,       \* what is called, on which workers, with which batch
  bins,       \* all_chunk_bin_assignments
  shards,     \* the shard of each data parallel rank
  order,      \* unsorted_data_indices
  program,    \* the collectives each worker comes to, in order
  pc,         \* how far each worker is
  valid,      \* global_valid_toks of each worker
  grads,      \* the rows whose loss is in each worker's gradients
  updates,    \* per optimizer step, what the step was taken from
  answers,    \* the rows each worker has answers for
  outcome, result

vars == <<call, bins, shards, order, program, pc, valid, grads, updates, answers, outcome, result>>

Workers == 0 .. NumShards * NumReplicas - 1
Methods == {"train", "get_logprobs", "get_topk_logits", "score"}
Backends == {"dtensor", "dtensor_v2", "megatron"}
Modes == {"plain", "dynamic"} \cup Algorithms

(* get_worker_coords: the axes are pipeline, data, context, tensor; the    *)
(* replicas of a shard are tensor parallel, or pipeline stages.            *)
Shard(w) == IF call.backend = "megatron" THEN w % NumShards ELSE w \div NumReplicas
Replica(w) == IF call.backend = "megatron" THEN w \div NumShards ELSE w % NumReplicas
LastStage(w) == call.backend # "megatron" \/ Replica(w) = NumReplicas - 1
Mine(ss, w) == ss[Shard(w) + 1]

(* The workers whose answers are taken: the first replica of every shard.  *)

ReturnFrom == Listed({w \in Workers : Replica(w) = 0}, {p \in Workers \X Workers : p[1] < p[2]})

Batches ==
  [lens : [1 .. NumRows -> Lengths], backend : Backends, mode : Modes,
   method : Methods, size : BatchSizes \cup {NumRows}, micro : MicroSizes]
  \cup
  [lens : [1 .. 2 * NumRows -> LongLengths], backend : Backends,
   mode : {"first_fit_decreasing"}, method : {"train"}, size : {NumRows}, micro : MicroSizes]

-----------------------------------------------------------------------------
(* The driver. *)

(* Only the shapes that differ: fixed sizes where they are not used, and   *)
(* no dynamic batching with pipeline stages, which Policy refuses.         *)
Sensible(c) ==
  /\ c.method = "train" => c.size \in BatchSizes
  /\ c.method # "train" => c.size = NumRows
  /\ c.mode # "plain" => c.micro = Min(MicroSizes)
  /\ c.method = "score" => c.backend # "megatron"
  /\ c.mode = "dynamic" => c.backend # "megatron"

Init ==
  /\ call \in {c \in Batches : Sensible(c)}
  /\ bins = <<>> /\ shards = <<>> /\ order = <<>>
  /\ program = <<>> /\ pc = [w \in Workers |-> 1]
  /\ valid = [w \in Workers |-> 0] /\ grads = [w \in Workers |-> <<>>]
  /\ updates = <<>> /\ answers = [w \in Workers |-> <<>>]
  /\ outcome = "called" /\ result = <<>>

PaddedLens == Padded(call.lens, Multiple)

(* The assertions and errors of the sharding, and of the workers' plain    *)
(* microbatches; score shards plainly, so its workers find no microbatches *)
(* to iterate over when the others are configured.                         *)
Accepted ==
  /\ Divides(call.lens, call.size, NumShards)
  /\ call.method = "score" => call.mode = "plain"
  /\ call.mode = "plain" => (call.size \div NumShards) % call.micro = 0
  /\ call.mode = "dynamic" => DynamicFits(call.lens, Multiple, Budget)
  /\ call.mode \in Algorithms => Packable(PaddedLens, Budget)

Refuse ==
  /\ outcome = "called" /\ ~Accepted
  /\ outcome' = "refused"
  /\ UNCHANGED <<call, bins, shards, order, program, pc, valid, grads, updates, answers, result>>

(* batch_sorted_indices; a plain batch is not reordered.                   *)
IndexOrder(ss) ==
  CASE call.mode = "plain" -> Rows(call.lens)
    [] call.mode = "dynamic" -> Sorted(call.lens, call.size, NumShards)
    [] OTHER -> FlattenSeq([s \in DOMAIN ss |-> ss[s].rows])

-----------------------------------------------------------------------------
(* The collectives of the workers' methods, in order. *)

Op(op, g, k) == [op |-> op, gb |-> g, mb |-> k]

NumMicro(ss, w, g) == Len(Mine(ss, w).micro[g])

(* With packing the workers agree on the largest number of microbatches;   *)
(* one with fewer goes through its own again, for nothing.                 *)
MostMicro(ss, g) == Max({NumMicro(ss, w, g) : w \in Workers})

Iterations(ss, w, g) ==
  IF call.mode \in Algorithms
  THEN <<Op("count", g, 0)>> \o [k \in 1 .. MostMicro(ss, g) |-> Op("forward", g, k)]
  ELSE [k \in 1 .. NumMicro(ss, w, g) |-> Op("forward", g, k)]

GlobalBatches(ss, w) == DOMAIN Mine(ss, w).micro

TrainOps(ss, w) ==
  <<Op("size", 0, 0)>>
  \o FlattenSeq([g \in GlobalBatches(ss, w) |->
       <<Op("tokens", g, 0)>> \o Iterations(ss, w, g) \o <<Op("step", g, 0)>>])
  \o <<Op("loss", 0, 0)>>

(* The older worker's train takes the same steps.                          *)
TrainOpsV1(ss, w) == TrainOps(ss, w)

(* Megatron takes every microbatch through the stages; nothing else        *)
(* joins the data parallel ranks before the optimizer does.                *)
MegatronTrainOps(ss, w) ==
  <<Op("size", 0, 0)>>
  \o FlattenSeq([g \in GlobalBatches(ss, w) |->
       <<Op("tokens", g, 0)>>
       \o [k \in 1 .. NumMicro(ss, w, g) |-> Op("stages", g, k)]
       \o <<Op("step", g, 0), Op("broadcast", g, 0)>>])
  \o <<Op("loss", 0, 0)>>

LogprobOps(ss, w) == Iterations(ss, w, 1)
ScoreOps(ss, w) == Iterations(ss, w, 1)
TopkOps(ss, w) == Iterations(ss, w, 1)

(* The older worker gathers the whole model before its microbatches, so    *)
(* only the tensor parallel peers meet in them.                            *)
Unsharded(ops) ==
  <<Op("unshard", 1, 0)>> \o [i \in DOMAIN ops |->
     IF ops[i].op = "forward" THEN [ops[i] EXCEPT !.op = "stages"] ELSE ops[i]]

LogprobOpsV1(ss, w) == Unsharded(LogprobOps(ss, w))
ScoreOpsV1(ss, w) == Unsharded(ScoreOps(ss, w))
(* The top logits of the older worker do not gather the model first.       *)
TopkOpsV1(ss, w) == TopkOps(ss, w)

MegatronLogprobOps(ss, w) ==
  [k \in 1 .. NumMicro(ss, w, 1) |-> Op("stages", 1, k)] \o <<Op("broadcast", 1, 0)>>

MegatronTopkOps(ss, w) ==
  [k \in 1 .. NumMicro(ss, w, 1) |-> Op("stages", 1, k)]
  \o <<Op("broadcast", 1, 0), Op("broadcast", 1, 0)>>

Program(ss, w) ==
  CASE call.method = "train" /\ call.backend = "dtensor_v2" -> TrainOps(ss, w)
    [] call.method = "train" /\ call.backend = "dtensor" -> TrainOpsV1(ss, w)
    [] call.method = "train" /\ call.backend = "megatron" -> MegatronTrainOps(ss, w)
    [] call.method = "get_logprobs" /\ call.backend = "dtensor_v2" -> LogprobOps(ss, w)
    [] call.method = "get_logprobs" /\ call.backend = "dtensor" -> LogprobOpsV1(ss, w)
    [] call.method = "get_logprobs" /\ call.backend = "megatron" -> MegatronLogprobOps(ss, w)
    [] call.method = "get_topk_logits" /\ call.backend = "dtensor_v2" -> TopkOps(ss, w)
    [] call.method = "get_topk_logits" /\ call.backend = "dtensor" -> TopkOpsV1(ss, w)
    [] call.method = "get_topk_logits" /\ call.backend = "megatron" -> MegatronTopkOps(ss, w)
    [] call.method = "score" /\ call.backend = "dtensor_v2" -> ScoreOps(ss, w)
    [] call.method = "score" /\ call.backend = "dtensor" -> ScoreOpsV1(ss, w)

Dispatched(ss) ==
  /\ outcome = "called" /\ Accepted
  /\ shards' = ss /\ order' = IndexOrder(shards')
  /\ program' = [w \in Workers |-> Program(shards', w)]
  /\ outcome' = "running"
  /\ UNCHANGED <<call, bins, pc, valid, grads, updates, answers, result>>

ShardPlain ==
  call.mode = "plain" /\ Dispatched(PlainShards(call.lens, call.size, NumShards, call.micro))

ShardDynamic ==
  call.mode = "dynamic" /\
  Dispatched(DynamicShards(call.lens, call.size, NumShards, Multiple, Budget))

(* The packer is run on one chunk after the other.                         *)
PackChunk ==
  /\ outcome = "called" /\ Accepted
  /\ call.mode \in Algorithms /\ Len(bins) < Len(call.lens) \div call.size
  /\ \E b \in ChunkPackings(call.mode, PaddedLens, Len(bins) + 1, call.size, Budget, NumShards) :
       bins' = Append(bins, b)
  /\ UNCHANGED <<call, shards, order, program, pc, valid, grads, updates, answers, outcome, result>>

ShardPacked ==
  /\ call.mode \in Algorithms /\ Len(bins) = Len(call.lens) \div call.size
  /\ Dispatched(PackedShards(bins, PaddedLens, NumShards))

(* The workers that meet.                                                  *)
Group(w, op) ==
  CASE op \in {"size", "tokens", "loss"} -> {v \in Workers : Replica(v) = Replica(w)}
    [] op \in {"stages", "broadcast"} -> {v \in Workers : Shard(v) = Shard(w)}
    [] OTHER -> Workers

Running(w) == outcome = "running" /\ pc[w] <= Len(program[w])
At(w) == program[w][pc[w]]
Peers(w) == Group(w, At(w).op)

(* Everyone in w's group has come to one of these operations; w stands for *)
(* the group.                                                              *)
Meet(w, ops) ==
  /\ Running(w) /\ At(w).op \in ops
  /\ w = Min(Peers(w))
  /\ \A v \in Peers(w) : Running(v) /\ At(v).op = At(w).op
  /\ pc' = [v \in Workers |-> IF v \in Peers(w) THEN pc[v] + 1 ELSE pc[v]]
  /\ UNCHANGED <<call, bins, shards, order, program, outcome, result>>

-----------------------------------------------------------------------------
(* The sizes of the shards, the losses of the report, the number of        *)
(* microbatches, the parameters of the model: nothing modelled changes.    *)
Exchange(w) ==
  /\ Meet(w, {"size", "count", "unshard", "loss"})
  /\ UNCHANGED <<valid, grads, updates, answers>>

Tokens(rows) ==
  FoldLeft(LAMBDA sum, i : sum + (IF i \in Masked THEN 0 ELSE call.lens[i] - 1), 0, rows)

(* Mutant: a worker normalises by its own tokens. *)
ValidTokensLocal(w) ==
  /\ Meet(w, {"tokens"})
  /\ valid' = [v \in Workers |->
       IF v \in Peers(w) THEN Tokens(BatchOf(Mine(shards, v), At(v).gb)) ELSE valid[v]]
  /\ grads' = [v \in Workers |-> IF v \in Peers(w) THEN <<>> ELSE grads[v]]
  /\ UNCHANGED <<updates, answers>>

(* The valid tokens of the global batch, summed over the shards; the       *)
(* gradients of the last one are dropped.                                  *)
ValidTokens(w) ==
  /\ Meet(w, {"tokens"})
  /\ LET own == [v \in Peers(w) |-> Tokens(BatchOf(Mine(shards, v), At(v).gb))]
     IN valid' = [v \in Workers |-> IF v \in Peers(w) THEN SumFunction(own) ELSE valid[v]]
  /\ grads' = [v \in Workers |-> IF v \in Peers(w) THEN <<>> ELSE grads[v]]
  /\ UNCHANGED <<updates, answers>>

(* The rows a worker puts through the model: a dummy is one of its own     *)
(* microbatches, from the first again.                                     *)
Dummy(w) == At(w).mb > NumMicro(shards, w, At(w).gb)
MicroBatch(w) ==
  LET g == At(w).gb  n == NumMicro(shards, w, g)
  IN MicroRows(Mine(shards, w), g, ((At(w).mb - 1) % n) + 1)

(* The loss of a dummy is multiplied by zero.                              *)
Contribute(w) ==
  /\ call.method = "train"
  /\ grads' = [v \in Workers |->
       IF v \in Peers(w) /\ ~Dummy(v) THEN grads[v] \o MicroBatch(v) ELSE grads[v]]
  /\ UNCHANGED <<valid, updates, answers>>

ForwardTrain(w) == Meet(w, {"forward"}) /\ Contribute(w)
StagesTrain(w) == Meet(w, {"stages"}) /\ Contribute(w)

(* get_logprobs skips the answers for a dummy, get_topk_logits and score   *)
(* do not; a pipeline's answers are with its last stage.                   *)
Answer(w) ==
  /\ call.method # "train"
  /\ answers' = [v \in Workers |->
       IF v \in Peers(w) /\ LastStage(v) /\ ~(call.method = "get_logprobs" /\ Dummy(v))
       THEN answers[v] \o MicroBatch(v) ELSE answers[v]]
  /\ UNCHANGED <<valid, grads, updates>>

ForwardAnswer(w) == Meet(w, {"forward"}) /\ Answer(w)
StagesAnswer(w) == Meet(w, {"stages"}) /\ Answer(w)

(* The last pipeline stage hands its answers to the others.                *)
Broadcast(w) ==
  /\ Meet(w, {"broadcast"})
  /\ LET last == CHOOSE v \in Peers(w) : LastStage(v)
     IN answers' = [v \in Workers |-> IF v \in Peers(w) THEN answers[last] ELSE answers[v]]
  /\ UNCHANGED <<valid, grads, updates>>

(* The gradients are summed over the shards, the optimizer takes a step.   *)
Step(w) ==
  /\ Meet(w, {"step"})
  /\ updates' = Append(updates, [rows |-> grads, valid |-> valid])
  /\ UNCHANGED <<valid, grads, answers>>

(* get_all_worker_results, the batches put together, reorder_data.         *)
Return ==
  /\ outcome = "running"
  /\ \A w \in Workers : pc[w] > Len(program[w])
  /\ outcome' = "returned"
  /\ result' = IF call.method = "train" THEN <<>>
               ELSE Reordered(FlattenSeq([k \in DOMAIN ReturnFrom |-> answers[ReturnFrom[k]]]),
                              order)
  /\ UNCHANGED <<call, bins, shards, order, program, pc, valid, grads, updates, answers>>

Done == outcome \in {"refused", "returned"} /\ UNCHANGED vars

Work(w) ==
  \/ Exchange(w) \/ ValidTokens(w) \/ Broadcast(w) \/ Step(w)
  \/ ForwardTrain(w) \/ StagesTrain(w) \/ ForwardAnswer(w) \/ StagesAnswer(w)
Driver == Refuse \/ ShardPlain \/ ShardDynamic \/ PackChunk \/ ShardPacked \/ Return
Next == Driver \/ Done \/ \E w \in Workers : Work(w)

Spec == Init /\ [][Next]_vars
-----------------------------------------------------------------------------
(* Properties. *)

(* Every optimizer step is taken from each row of its global batch once,   *)
(* whatever the sharding, the packing and the dummies did, and a call that *)
(* returns has stepped over the whole batch (train).                       *)
EachRowOnce ==
  /\ \A u \in DOMAIN updates, r \in 0 .. NumReplicas - 1 :
       LET mine(s) == CHOOSE w \in Workers : Shard(w) = s - 1 /\ Replica(w) = r
           rows == FlattenSeq([s \in 1 .. NumShards |-> updates[u].rows[mine(s)]])
       IN Len(rows) = call.size /\ Range(rows) = Range(Part(Rows(call.lens), u, call.size))
  /\ outcome = "returned" /\ call.method = "train" => Len(updates) * call.size = Len(call.lens)

(* Every worker steps with the loss normalised by the valid tokens of the  *)
(* whole global batch, not of its shard (train's all_reduce).              *)
GlobalNormalizer ==
  \A u \in DOMAIN updates, w \in Workers :
    updates[u].valid[w] = Tokens(Part(Rows(call.lens), u, call.size))

(* The answer returned for a row is the one computed from it: sharding,    *)
(* packing, the pick of one replica and reorder_data cancel out.           *)
OwnResult ==
  outcome = "returned" /\ call.method # "train" => result = Rows(call.lens)

(* A microbatch stays within the token budget and is never narrower than   *)
(* a row in it, so truncate_tensors cuts no token.                         *)
WithinBudget ==
  \A s \in DOMAIN shards : \A g \in DOMAIN shards[s].micro :
    \A k \in DOMAIN shards[s].micro[g] :
      LET rows == MicroRows(shards[s], g, k)  width == shards[s].micro[g][k].width
      IN /\ \A i \in Range(rows) : call.lens[i] <= width
         /\ call.mode = "dynamic" => Len(rows) * width <= Budget
         /\ call.mode \in Algorithms => Load(rows, PaddedLens) = width /\ width <= Budget

(* Every row is computed once, uncut, in a microbatch that fits.           *)
EachRowWhole == EachRowOnce /\ WithinBudget

(* No worker is left alone in a collective: whatever the sharding and the  *)
(* packing made of the batch, the workers come to the same collectives in  *)
(* the same number (the MAX all_reduce, the dummies, the widths taken over *)
(* all shards), so a running call can go on until every worker is through. *)
NoneStranded ==
  outcome = "running" =>
    \/ \A w \in Workers : ~Running(w)
    \/ \E w \in Workers :
         Running(w) /\ \A v \in Peers(w) : Running(v) /\ At(v).op = At(w).op
=============================================================================
