------------------------------- MODULE Algorithms -------------------------------
(***************************************************************************)
(* The pure functions between a batch of conversations and the gradient of *)
(* its loss, called one at a time: every call is answered the way the code *)
(* computes it (in slices of the vocabulary, chunks of the sequence, packed*)
(* rows and microbatches) and the answer compared with what the function   *)
(* means on whole tensors.  The language model itself is external: at      *)
(* every position it sees the tokens up to that position.                  *)
(***************************************************************************)
EXTENDS LossFunctions, MessageLogs, Cluster, Evaluation, SlidingPuzzle

CONSTANTS
  Calls,          \* what is called: records with the operation in `op`
  V,              \* size of the vocabulary
  Logit(_, _)     \* the model's logit of a token after a sequence of tokens

ASSUME VocabularyAssumption == V \in Nat \ {0}

VARIABLES
  call,           \* the operation under way
  answer          \* what it returned, <<>> before

vars == <<call, answer>>

Init == call \in Calls /\ answer = <<>>

Called(op) == call.op = op /\ answer = <<>>
Return(value) == answer' = <<value>> /\ UNCHANGED call

-----------------------------------------------------------------------------
(* The language model (external).  Megatron's attention takes what a rank  *)
(* holds between two bounds for the rank's part of one sequence.           *)

LogitsAfter(tokens) == [v \in 1 .. V |-> Logit(tokens, v - 1)]
Model(tokens) == [i \in DOMAIN tokens |-> LogitsAfter(SubSeq(tokens, 1, i))]

PackedModel(seqs, cu, cp) ==
  LET parts == [c \in 1 .. cp |-> PackedRowOn(seqs, c - 1, cp)]
      logits == [b \in DOMAIN seqs |-> Model(Unpacked(parts, cu, b))]
  IN  [c \in 1 .. cp |-> FlattenSeq([b \in DOMAIN seqs |-> OnRank(logits[b], c - 1, cp)])]

-----------------------------------------------------------------------------
(* Operations on one row, cut over the ranks. *)

PaddedText == PadTo(call.tokens, RoundUp(Len(call.tokens), 2 * call.cp), 0)

CutLogprobs ==
  /\ Called("logprobs")
  /\ Return(ParallelLogprobs(Model(PaddedText), call.tokens, call.tp, call.cp, call.size))

(* The gradients at the logits of all ranks, laid out as the whole tensor. *)
CutGrads ==
  /\ Called("grads")
  /\ LET at(c, i) == FlattenSeq([r \in 1 .. call.tp |->
             ParallelGrads(Model(PaddedText), call.tokens, LossShare(call.grads, call.cp), r - 1,
                           call.tp, c, call.cp, call.size)[i]])
     IN  Return(Gathered(call.cp, 0, Len(PaddedText) \div call.cp, at))

DTensor ==
  /\ Called("dtensor")
  /\ Return(DTensorLogprobs(Permuted(Model(Restored(call.tokens, call.order)), call.order),
                            call.tokens, call.order, call.tp, call.size))

Distill ==
  /\ Called("distill")
  /\ LET topk == [i \in DOMAIN call.tokens |-> VocabTopk(call.teacher[i], call.k, call.tp)]
         part(n) == [i \in DOMAIN topk |-> [j \in DOMAIN topk[i] |-> topk[i][j][n]]]
     IN  Return(DistillKls(call.cfg, Model(PaddedText), part(2), part(1), call.tp, call.cp))

(* What the divergence sends back to the logits of all ranks: through the  *)
(* log probabilities of the teacher's tokens and through the entropy.      *)
DistillGrads ==
  /\ Called("distill_grads")
  /\ LET rows == Model(call.tokens)
         topk(i) == [j \in 1 .. call.k |-> VocabTopk(call.teacher[i], call.k, call.tp)[j][2]]
         gather(i) == FlattenSeq([r \in 1 .. call.tp |->
                        GatherGrad(rows[i], topk(i), call.grads[i], r - 1, call.tp)])
         entropy(i) == FlattenSeq([r \in 1 .. call.tp |->
                         EntropyGrad(rows[i], call.grads[i][1], r - 1, call.tp)])
     IN  Return([gather |-> Chunked(Len(rows), call.size, gather),
                 entropy |-> Chunked(Len(rows), call.size, entropy)])

-----------------------------------------------------------------------------
(* Operations on a packed microbatch of padded rows. *)

Lens == call.lens
Rows == call.rows
Layout == call.layout
Parameters ==
  PackParameters(Layout, PackedLength(Lens, Layout) + call.slack * BatchMultiple(Layout))
Cu == Bounds(Lens, Parameters)
Packed == PackedSequences(Rows, Lens, Parameters)
PackedLogits == PackedModel(Packed, Cu, Layout.cp)

PackLogprobs ==
  /\ Called("packed_logprobs")
  /\ Return(PackedLogprobs(PackedLogits, PackedRow(Packed), Cu, Len(Rows[1]), Layout.tp, call.size))

PackTopk ==
  /\ Called("packed_topk")
  /\ Return(PackedTopk(PackedLogits, Lens, Cu, call.k, Layout.tp))

PackLoss ==
  /\ Called("packed_loss")
  /\ Return(WrappedLogprobs(PackedLogits, Rows, Cu, Layout.tp))

(* The gradients at what every tensor rank and context rank holds. *)
PackGrads ==
  /\ Called("packed_grads")
  /\ LET logits == PackedLogits
     IN  Return([r \in 1 .. Layout.tp |-> [c \in 1 .. Layout.cp |->
           WrappedGrads(logits, Rows, call.grads, Cu, r - 1, Layout.tp, c - 1)]])

-----------------------------------------------------------------------------
(* The loss of a batch, microbatch by microbatch, with its last rows as    *)
(* padding.                                                                *)

LossOf(rows) ==
  CASE call.loss = "clipped_pg" -> ClippedPG(call.cfg, rows)
    [] call.loss = "nll" -> Nll(rows)
    [] call.loss = "preference" -> Preference([i \in DOMAIN rows |-> rows[i].reward], rows, 1)
    [] call.loss = "dpo" -> Dpo(call.cfg, rows)

Loss ==
  /\ Called("loss")
  /\ LET batches == Microbatches(PadLastBatch(call.rows, call.dp, call.mbs), call.mbs)
     IN  Return(SumOf([j \in DOMAIN batches |-> LossOf(batches[j])]))

ReportRange ==
  /\ Called("range")
  /\ LET batches == Microbatches(call.rows, call.mbs)
     IN  Return(ReportedRange([j \in DOMAIN batches |->
           IF call.packed THEN PackedRange(call.cfg, batches[j]) ELSE RatioRange(call.cfg, batches[j])]))

Advantage ==
  /\ Called("baseline")
  /\ Return(Baseline(call.prompts, call.rewards, call.valid, call.leaveOneOut))

Warmup ==
  /\ Called("warmup")
  /\ Return(PrefixMask(call.mask, PrefixRatio(call.warmup, call.step, call.steps)))

-----------------------------------------------------------------------------
(* From conversations to rows. *)

BuildSft ==
  /\ Called("sft")
  /\ Return(SftBatch(call.conversations, call.template, call.prompt, call.divisor, 0))

BuildGrpo ==
  /\ Called("grpo")
  /\ Return(GrpoBatch(call.samples, call.filtering, call.divisor, 0))

BuildPreference ==
  /\ Called("preference")
  /\ Return(PreferenceBatch(call.pairs, call.divisor, 0))

Process ==
  /\ Called("process")
  /\ Return(CASE call.task = "math" -> ProcessMath(call.log, call.max)
              [] call.task = "helpsteer" -> ProcessHelpSteer(call.log, call.max)
              [] call.task = "multichoice" -> ProcessMultichoice(call.log))

-----------------------------------------------------------------------------
(* Workers on a cluster. *)

Attach ==
  /\ Called("attach")
  /\ Return(AttachTo(call.answers, call.tags, call.devices))

PlaceWorkers ==
  /\ Called("setup")
  /\ Return(SetUp(call.cfg))

-----------------------------------------------------------------------------
(* Environments, and what an evaluation makes of their scores. *)

Score ==
  /\ Called("score")
  /\ Return(CASE call.env = "math" ->
                   MathStep(call.verifier, call.workers, call.logs, call.truths, call.extracting)
              [] call.env = "jaccard" -> JaccardStep(call.workers, call.logs, call.truths)
              [] call.env = "vlm" -> VlmStep(call.functions, call.workers, call.responses, call.truths)
              [] call.env = "reward_model" -> RewardModelStep(call.conversations, call.template, 0))

RunCode ==
  /\ Called("code")
  /\ Return(CodeStep(call.workers, call.onEvaluation, call.rows))

Play ==
  /\ Called("puzzle")
  /\ Return(Turns([game |-> Shuffled(call.size, call.choices), moves |-> 0], call.messages, call.max))

Eval ==
  /\ Called("eval")
  /\ Return(Evaluate(call.cfg, call.dataset))

Next == CutLogprobs \/ CutGrads \/ DTensor \/ Distill \/ DistillGrads \/ PackLogprobs \/ PackTopk \/ PackLoss
        \/ PackGrads \/ Loss \/ ReportRange \/ Advantage \/ Warmup \/ BuildSft \/ BuildGrpo \/ BuildPreference
        \/ Process \/ Attach \/ PlaceWorkers \/ Score \/ RunCode \/ Play \/ Eval

Spec == Init /\ [][Next]_vars

-----------------------------------------------------------------------------
(* What the functions mean, on whole tensors. *)

Answered(ops) == answer # <<>> /\ call.op \in ops
Answer == answer[1]

Normalized(row) ==
  LET top == Max(Range(row))
      total == SumOf([v \in DOMAIN row |-> Exp(row[v] - top)])
  IN  [v \in DOMAIN row |-> row[v] - top - Log(total)]

TokenLogprobs(tokens) ==
  [i \in 1 .. Len(tokens) - 1 |-> Normalized(LogitsAfter(SubSeq(tokens, 1, i)))[tokens[i + 1] + 1]]

TokenGrads(tokens, grads, n) ==
  [i \in 1 .. n |-> IF i >= Len(tokens) THEN [v \in 1 .. V |-> 0]
     ELSE LET lp == Normalized(LogitsAfter(SubSeq(tokens, 1, i)))
          IN  [v \in 1 .. V |-> grads[i] * ((IF v = tokens[i + 1] + 1 THEN 1 ELSE 0) - Exp(lp[v]))]]

(* The k best tokens of a position whose logits differ. *)
Best(row, k) == {v \in DOMAIN row : Cardinality({u \in DOMAIN row : row[u] > row[v]}) < k}
Over(S, F(_)) == MapThenSumSet(F, S)
OverTopk(row, S) == [v \in S |-> row[v] - Max({row[u] : u \in S})
                                 - Log(Over(S, LAMBDA u : Exp(row[u] - Max({row[w] : w \in S}))))]

(* The divergence of the student from the teacher at a position, over the  *)
(* teacher's best tokens, and, when asked, what the student gives others.  *)
Divergence(cfg, student, teacher, k) ==
  LET S == Best(teacher, k)
      t == OverTopk(teacher, S)
      all == Normalized(student)
      s == IF cfg.zeroOutside THEN [v \in S |-> all[v]] ELSE OverTopk(student, S)
      forward == Over(S, LAMBDA v : Exp(t[v]) * (t[v] - s[v]))
      rest == Over(DOMAIN student \ S, LAMBDA v : Exp(all[v]) * all[v])
              - LogInfinitesimal * (One - Over(S, LAMBDA v : Exp(all[v])))
      reverse == Over(S, LAMBDA v : Exp(s[v]) * (s[v] - t[v]))
                 + (IF cfg.zeroOutside THEN rest ELSE 0)
  IN  CASE cfg.type = "forward" -> forward
        [] cfg.type = "reverse" -> reverse
        [] cfg.type = "mixed" -> cfg.weight * forward + (cfg.whole - cfg.weight) * reverse

(* The gradients of what a position gives for its chosen tokens, and of its *)
(* entropy.                                                                *)
ChosenGrads(row, chosen, gs) ==
  LET lp == Normalized(row)
  IN  [v \in DOMAIN row |->
         Over(DOMAIN gs, LAMBDA k : gs[k] * ((IF chosen[k] = v - 1 THEN 1 ELSE 0) - Exp(lp[v])))]
EntropyGrads(row, g) ==
  LET lp == Normalized(row)
      all == Over(DOMAIN row, LAMBDA v : Exp(lp[v]) * lp[v])
  IN  [v \in DOMAIN row |-> g * Exp(lp[v]) * (lp[v] - all)]

(* Log probabilities, their gradients and the divergence from a teacher    *)
(* are those of the whole vocabulary and the whole sequence, over however  *)
(* many tensor and context ranks, in whatever chunks and in whatever order *)
(* the positions lie (model_utils.py, DistillationLossFn).                 *)
CutExact ==
  /\ Answered({"logprobs"}) => Answer = TokenLogprobs(call.tokens)
  /\ Answered({"grads"}) => Answer = TokenGrads(call.tokens, call.grads, Len(Answer))
  /\ Answered({"dtensor"}) => Answer = TokenLogprobs(Restored(call.tokens, call.order))
  /\ Answered({"distill"}) =>
       Answer = [i \in 1 .. Len(call.tokens) - 1 |->
         Divergence(call.cfg, LogitsAfter(SubSeq(call.tokens, 1, i)), call.teacher[i], call.k)]
  /\ Answered({"distill_grads"}) =>
       LET rows == Model(call.tokens)
           chosen(i) == [j \in 1 .. call.k |-> VocabTopk(call.teacher[i], call.k, 1)[j][2]]
       IN  /\ Answer.gather = [i \in DOMAIN rows |-> ChosenGrads(rows[i], chosen(i), call.grads[i])]
           /\ Answer.entropy = [i \in DOMAIN rows |-> EntropyGrads(rows[i], call.grads[i][1])]

(* What sequences get that were packed into one row, padded and cut over   *)
(* ranks is what each would get alone, and the row has the length that all *)
(* pipeline stages and FP8 kernels rely on (common.py:49-293,              *)
(* SequencePackingLossWrapper, get_topk_logits).                           *)
Sequence(b) == SubSeq(Rows[b], 1, Lens[b])

PackedExact ==
  /\ Answered({"packed_logprobs", "packed_loss"}) => \A b \in DOMAIN Lens :
       SubSeq(Answer[b], 1, Lens[b] - 1) = TokenLogprobs(Sequence(b))
  /\ Answered({"packed_topk"}) => \A b \in DOMAIN Lens :
       Answer[b] = [i \in 1 .. Lens[b] |-> VocabTopk(LogitsAfter(SubSeq(Rows[b], 1, i)), call.k, 1)]
  /\ Answered({"packed_grads"}) => \A r \in 1 .. Layout.tp, c \in 1 .. Layout.cp :
       LET whole(b) == TokenGrads(Sequence(b), call.grads[b], Segment(Cu, b))
       IN  Answer[r][c] = FlattenSeq([b \in DOMAIN Lens |->
             OnRank([i \in 1 .. Segment(Cu, b) |-> Slice(whole(b)[i], r - 1, Layout.tp)],
                    c - 1, Layout.cp)])
  /\ Answered({"packed_logprobs"}) =>
       /\ Layout.pp > 1 => Len(PackedRow(Packed)) = Parameters.to
       /\ Len(PackedRow(Packed)) % Parameters.row = 0
       /\ Cu[Len(Cu)] = Len(PackedRow(Packed))

-----------------------------------------------------------------------------
(* The loss of a batch is a sum over its valid rows and trained tokens.    *)
Trained(row) == {i \in Positions(row) : row.mask[i + 1] = 1}
Valid(rows) == {b \in DOMAIN rows : rows[b].valid = 1}

MeanOrSum(cfg, row, F(_)) ==
  LET T == Trained(row)
  IN  IF cfg.tokenLevel THEN Over(T, F)
      ELSE (Scale * Over(T, F)) \div Max({1, Cardinality(T)})

(* A token that did better than the baseline gains up to the upper clip of *)
(* its ratio, one that did worse loses from the lower clip on, but never   *)
(* beyond the dual clip.                                                   *)
ClippedObjective(cfg, row, i) ==
  LET a == row.adv[i + 1]
      T == Trained(row)
      mean == Over(T, LAMBDA j : Scale * (row.curr[j] - row.prev[j + 1]))
              \div Max({1, Cardinality(T)})
      r == CASE cfg.ratio = "forced" -> One
             [] cfg.ratio = "none" -> row.curr[i]
             [] cfg.ratio = "ppo" /\ cfg.sequenceRatio -> Exp(mean \div Scale)
             [] OTHER -> Exp(row.curr[i] - row.prev[i + 1])
      gain == IF cfg.ratio = "ppo" THEN Min({r, One + cfg.high}) ELSE r
      pain == IF cfg.ratio = "ppo" THEN Max({r, One - cfg.low}) ELSE r
  IN  IF a >= 0 THEN a * gain
      ELSE a * (IF cfg.dual > 0 THEN Min({pain, cfg.dual}) ELSE pain)

Weight(cfg, row, i) ==
  LET diff(j) == row.prev[j + 1] - row.gen[j + 1]
      w == Exp(IF cfg.sequenceRatio THEN Over(Trained(row), diff) ELSE diff(i))
  IN  IF ~cfg.correct THEN One ELSE IF cfg.truncate > 0 THEN Min({w, cfg.truncate}) ELSE w

LossMeant(rows) ==
  LET sum(F(_)) == Over(Valid(rows), F)
      nll(cfg, row) == -MeanOrSum(cfg, row, LAMBDA i : row.curr[i])
      pairs == {i \in 1 .. Len(rows) \div 2 : rows[2 * i].valid = 1}
      reward(cfg, row) ==
        LET gain(i) == row.curr[i] - row.ref[i + 1]
        IN  IF cfg.tokenLevel THEN Over(Trained(row), gain)
            ELSE MeanOrSum(cfg, row, gain) \div Scale
  IN  CASE call.loss = "clipped_pg" ->
             sum(LAMBDA b : MeanOrSum(call.cfg, rows[b], LAMBDA i :
               KlPenalty(call.cfg, rows[b], i)
               - Weight(call.cfg, rows[b], i) * ClippedObjective(call.cfg, rows[b], i)))
        [] call.loss = "nll" ->
             sum(LAMBDA b : nll([tokenLevel |-> TRUE], rows[b]))
        [] call.loss = "preference" ->
             -Over(pairs, LAMBDA i : Exp(rows[2 * i - 1].reward - rows[2 * i].reward))
        [] call.loss = "dpo" ->
             LET sft == [tokenLevel |-> ~call.cfg.sftAverage]
                 preference == [tokenLevel |-> ~call.cfg.preferenceAverage]
                 scale == IF call.cfg.sftAverage THEN 1 ELSE Scale
             IN  call.cfg.sftWeight * scale * Over(pairs, LAMBDA i : nll(sft, rows[2 * i - 1]))
                 - call.cfg.preferenceWeight * Over(pairs, LAMBDA i :
                     Exp(call.cfg.penalty * (reward(preference, rows[2 * i - 1])
                                             - reward(preference, rows[2 * i]))))

(* Microbatch by microbatch, with the copies that fill up the last batch   *)
(* and whatever stands at masked positions, a batch adds up to the loss of *)
(* its own valid rows and trained tokens, clipped by the sign of the       *)
(* advantage, and so does the reported range of the ratios; the baseline   *)
(* of a row is the mean of the others of its prompt that count, and the    *)
(* warm-up trains the first part of a reply, under a rising schedule never *)
(* less than a step before (loss_functions.py, utils.py:79-156, 327-383,   *)
(* distillation.py:134-220).                                               *)
LossesAdd ==
  /\ Answered({"loss"}) => Answer = LossMeant(call.rows)
  /\ Answered({"range"}) =>
       LET ratios == UNION {{Ratio(call.cfg, call.rows[b], i) : i \in Trained(call.rows[b])} :
                              b \in Valid(call.rows)}
       IN  Answer = IF ratios = {} THEN <<-1, -1>> ELSE <<Min(ratios), Max(ratios)>>
  /\ Answered({"baseline"}) => \A b \in DOMAIN call.prompts :
       LET others == {c \in DOMAIN call.prompts :
                       call.prompts[c] = call.prompts[b] /\ call.valid[c] = 1
                       /\ (call.leaveOneOut => c # b)}
       IN  call.valid[b] = 1 /\ others \ {b} # {} =>
             Answer[b] = (Scale * Over(others, LAMBDA c : call.rewards[c])) \div Cardinality(others)
  /\ Answered({"warmup"}) =>
       LET reply == {i \in DOMAIN call.mask : call.mask[i] = 1}
           kept == {i \in DOMAIN Answer : Answer[i] = 1}
           share(n) == PrefixRatio(call.warmup, n, call.steps)
           before == PrefixMask(call.mask, share(call.step - 1))
       IN  /\ kept \subseteq reply
           /\ \A i \in kept, j \in reply \ kept : i < j
           /\ Cardinality(kept) * 1000000 >= Cardinality(reply) * share(call.step)
           /\ kept # {} => (Cardinality(kept) - 1) * 1000000 < Cardinality(reply) * share(call.step)
           /\ call.step > 0 => \A i \in DOMAIN before : before[i] = 1 => i \in kept
           /\ call.step >= call.steps /\ call.warmup.mode # "fixed" => kept = reply

-----------------------------------------------------------------------------
(* What a conversation is rendered to, each token with the role that spoke *)
(* it: the header a generation prompt adds belongs to the asker.           *)
Spoken(conversation, template, prompt) ==
  LET by(role, text) == [j \in DOMAIN text |-> <<text[j], role>>]
      asks(i) == prompt /\ conversation[i].role \in {"user", "tool"}
      prompted(i) == i > 1 /\ asks(i - 1)
      turn(i) == LET m == conversation[i]
                 IN  IF template = "bare" THEN by(m.role, m.content)
                     ELSE by(m.role, (IF prompted(i) THEN <<>> ELSE <<Start(m.role)>>)
                                     \o m.content \o <<Eos, Newline>>
                                     \o (IF asks(i) THEN <<Start("assistant")>> ELSE <<>>))
      all == FlattenSeq([i \in DOMAIN conversation |-> turn(i)])
      last == conversation[Len(conversation)].role
      ended == \E i \in DOMAIN all : all[i][1] = Eos
                 /\ \A j \in DOMAIN all : j > i => all[j][1] = Newline
  IN  by(conversation[1].role, <<Bos>>) \o all \o (IF ended THEN <<>> ELSE by(last, <<Eos>>))

(* The tokens of a log, each with its message, and its place in there.     *)
Places(log) ==
  FlattenSeq([i \in DOMAIN log |-> [j \in DOMAIN log[i].token_ids |-> <<i, j>>]])

Rectangular(batch, divisor) ==
  LET n == Len(batch.fields["token_ids"][1])
      longest == Max(Range(batch.lengths))
  IN  /\ n % divisor = 0 /\ longest <= n /\ n < longest + divisor
      /\ \A k \in {"token_ids", "token_loss_mask"} : \A b \in DOMAIN batch.lengths :
           Len(batch.fields[k][b]) = n

(* Every token of a batch carries the mask, advantage and log probability  *)
(* of its own place: a token is trained exactly when the assistant spoke   *)
(* it (for a preference: in the last message), padding never is, the chunks*)
(* of a conversation are its whole render, chosen and rejected replies of  *)
(* a pair stay side by side under one multiplier, and a prompt over the    *)
(* limit is cut below it and does not count (llm_message_utils.py,         *)
(* processors.py, collate_fn.py, grpo.py:1277-1330).                       *)
MessagesAligned ==
  /\ Answered({"sft", "grpo", "preference"}) => Rectangular(Answer, call.divisor)
  /\ Answered({"sft"}) => \A b \in DOMAIN call.conversations :
       LET spoken == Spoken(call.conversations[b], call.template, call.prompt)
           f == Answer.fields
       IN  /\ Answer.lengths[b] = Len(spoken)
           /\ \A p \in DOMAIN f["token_ids"][b] :
                IF p <= Len(spoken)
                THEN /\ f["token_ids"][b][p] = spoken[p][1]
                     /\ f["token_loss_mask"][b][p] = (IF spoken[p][2] = "assistant" THEN 1 ELSE 0)
                ELSE f["token_loss_mask"][b][p] = 0
  /\ Answered({"grpo"}) => \A b \in DOMAIN call.samples :
       LET sample == call.samples[b]
           places == Places(sample.log)
           f == Answer.fields
           message(p) == sample.log[places[p][1]]
           own(p, field) == IF field \in DOMAIN message(p) THEN message(p)[field][places[p][2]] ELSE 0
       IN  /\ f["sample_mask"][b] = 1 <=>
                sample.loss_multiplier = 1 /\ ~(sample.truncated /\ call.filtering)
           /\ \A p \in DOMAIN f["token_ids"][b] :
             IF p <= Len(places)
             THEN /\ f["token_ids"][b][p] = own(p, "token_ids")
                  /\ f["generation_logprobs"][b][p] = own(p, "generation_logprobs")
                  /\ f["advantages"][b][p] = sample.advantage
                  /\ f["token_loss_mask"][b][p] = (IF message(p).role = "assistant" THEN 1 ELSE 0)
             ELSE f["token_loss_mask"][b][p] = 0
  /\ Answered({"preference"}) => \A i \in DOMAIN call.pairs : \A side \in {0, 1} :
       LET log == IF side = 0 THEN call.pairs[i].chosen ELSE call.pairs[i].rejected
           places == Places(log)
           f == Answer.fields
           b == 2 * i - 1 + side
       IN  /\ f["sample_mask"][b] = call.pairs[i].loss_multiplier
           /\ \A p \in DOMAIN places :
                /\ f["token_ids"][b][p] = log[places[p][1]].token_ids[places[p][2]]
                /\ f["token_loss_mask"][b][p] = (IF places[p][1] = Len(log) THEN 1 ELSE 0)
  /\ Answered({"process"}) /\ call.task # "multichoice" =>
       /\ Total(Answer.log) <= call.max
       /\ Answer.loss_multiplier = 1 <=> Total(call.log) <= call.max
       /\ Answer.loss_multiplier = 1 =>
            FlattenSeq([i \in DOMAIN Answer.log |-> Answer.log[i].token_ids])
            = FlattenSeq([i \in DOMAIN call.log |-> call.log[i].token_ids])

-----------------------------------------------------------------------------
(* Who is refused: a configuration that asks for more than there is, does  *)
(* not divide, or, in distillation, has an engine that spans nodes on the  *)
(* teacher's groups.                                                       *)
GpusAsked(cfg, clusters) ==
  (IF cfg.colocated \/ ~HasEngine(cfg) \/ cfg.algorithm = "eval" THEN WorldSize(clusters.train)
   ELSE WorldSize(clusters.train) + WorldSize(clusters.inference)) + cfg.rmNodes * cfg.rmGpus

Refusable(cfg) ==
  LET clusters == Split(cfg)
      e == cfg.engine
      size == e.tp * e.pp
      model == cfg.policy.tp * cfg.policy.pp * cfg.policy.cp
      enough == {i \in DOMAIN cfg.seen : i <= cfg.retries /\ cfg.seen[i].ready
                   /\ cfg.seen[i].gpus >= WorldSize(clusters.train)
                   /\ cfg.seen[i].cpus >= WorldSize(clusters.train) * clusters.train.slots}
  IN  \/ IsRefused(clusters) \/ enough = {}
      \/ cfg.algorithm # "eval" /\ (WorldSize(clusters.train) = 0 \/ WorldSize(clusters.train) % model # 0)
      \/ HasEngine(cfg) /\ \/ WorldSize(clusters.inference) % size # 0
                           \/ size <= clusters.inference.perNode /\ clusters.inference.perNode % size # 0
                           \/ e.pp > 1 /\ ~e.async
                           \/ e.ep > 1 /\ (e.ep % e.tp # 0 \/ (e.ep # e.tp /\ e.async))
                           \/ cfg.algorithm = "distillation" /\ cfg.colocated /\ Unified(clusters.inference, e)

PlacesOf(workers) == {workers[i].place : i \in DOMAIN workers}

(* The ranks that share every coordinate but the last axis', on one node   *)
(* when they fit there.                                                    *)
PeersTogether(sizes, workers, perNode, peers) ==
  perNode % peers = 0 =>
    \A r, s \in Ranks(sizes) : r \div peers = s \div peers => workers[r + 1].place[1] = workers[s + 1].place[1]

(* Every GPU of a cluster gets one worker of each group on it, tensor      *)
(* parallel peers and engines that fit on a node are on one, rank 0 is     *)
(* where the others are told to meet, each engine is called once through   *)
(* the worker that owns it, with a seed of its own, and in the collective  *)
(* that carries the weights every rank is taken once, the first by the     *)
(* first training worker; a configuration is refused for a reason          *)
(* (grpo.py:281-434, 578-598, virtual_cluster.py, worker_groups.py:305-580,*)
(* vllm_generation.py:60-337, 385-421).  Attaching never joins a cluster   *)
(* that another driver started on other devices.                           *)
RanksAgree ==
  /\ Answered({"attach"}) /\ Answer = "reused" =>
       \E tag \in call.tags : SortSeq(tag, <) = SortSeq(call.devices, <)
  /\ Answered({"setup"}) => (IsRefused(Answer) <=> Refusable(call.cfg))
  /\ Answered({"setup"}) /\ ~IsRefused(Answer) =>
       LET cfg == call.cfg
           a == Answer
           train == WorldSize(a.clusters.train)
           policy == a.policy.workers
           engine == a.engine.workers
           size == cfg.engine.tp * cfg.engine.pp
           firsts == RunOn(a.engine.sizes, {2, 3})
       IN  /\ GpusAsked(cfg, a.clusters) <= cfg.nodes * cfg.gpus
           /\ cfg.algorithm # "eval" =>
                /\ Len(policy) = train /\ Cardinality(PlacesOf(policy)) = train
                /\ Master(a.placed.train)[1] = policy[1].place[1]
                /\ PeersTogether(a.policy.sizes, policy, a.clusters.train.perNode, cfg.policy.tp)
           /\ HasEngine(cfg) =>
                /\ Len(engine) = WorldSize(a.clusters.inference)
                /\ Cardinality(PlacesOf(engine)) = Len(engine)
                /\ PeersTogether(a.engine.sizes, engine, a.clusters.inference.perNode, size)
                /\ firsts = {r \in Ranks(a.engine.sizes) : engine[r + 1].owns # <<>>}
                /\ \A r, s \in firsts : r # s => Seed(engine[r + 1]) # Seed(engine[s + 1])
                /\ cfg.engine.ep > cfg.engine.tp => \A r \in firsts :
                     LET own == ExpertDomain(cfg.engine, r)
                     IN  /\ own.leader \in firsts
                         /\ \A s \in firsts : ExpertDomain(cfg.engine, s) = own => s = r
           /\ HasEngine(cfg) /\ cfg.algorithm # "eval" =>
                IF cfg.colocated THEN PlacesOf(policy) = PlacesOf(engine)
                ELSE {CollectiveRank(train, a.engine, r) : r \in Ranks(a.engine.sizes)}
                     = train .. train + Len(engine) - 1

-----------------------------------------------------------------------------
(* Whether a response is right, for the verifiers that look for answers.   *)
Right(verifier, response, truth) ==
  IF verifier = "dapo" THEN response # <<>> /\ Last(response) = truth
  ELSE Slow \notin Range(response) /\ truth \in Range(response)

(* What a response that is scored once answers. *)
ScoredOnce(verifier, response) ==
  IF verifier = "dapo" THEN response # <<>> /\ Len(Last(response)) = 2
  ELSE Slow \in Range(response) \/ (Parsed(response) # <<>> /\ Unprintable \notin Range(response))
Given(response, truth) ==
  IF Slow \in Range(response) THEN Nothing
  ELSE IF truth \in Range(response) THEN truth ELSE Parsed(response)[1]

Proper(box) == box[1] < box[3] /\ box[2] < box[4]

(* A program run one statement after the other. *)
RunOf(row) ==
  LET after[n \in 0 .. Len(row.program)] ==
        IF n = 0 THEN [context |-> row.context, files |-> {}, failed |-> FALSE]
        ELSE LET before == after[n - 1]
                 s == row.program[n]
             IN  CASE before.failed -> before
                   [] ~before.failed /\ s.do = "set" ->
                        [before EXCEPT !.context = (s.var :> s.value) @@ @]
                   [] ~before.failed /\ s.do = "write" ->
                        [before EXCEPT !.files = @ \cup {<<row.dir, s.var>>}]
                   [] ~before.failed /\ s.do = "read" ->
                        [before EXCEPT !.failed = s.var \notin DOMAIN before.context]
                   [] ~before.failed /\ s.do \in {"escape", "import"} -> [before EXCEPT !.failed = TRUE]
  IN  after[Len(row.program)]

(* Half of all boards can be solved: those whose permutation has the       *)
(* parity of the empty place's distance from its corner.                   *)
Solvable(game) ==
  LET n == game.size
      at(i) == game.grid[(i \div n) + 1][(i % n) + 1]
      inversions == {<<i, j>> \in (0 .. n * n - 1) \X (0 .. n * n - 1) : i < j /\ at(i) > at(j)}
      solved == {<<i, n * n - 1>> : i \in 0 .. n * n - 2}
  IN  (Cardinality(inversions) - Cardinality(solved)
       - (n - game.empty[1]) - (n - game.empty[2])) % 2 = 0

PlayedFairly(size, max, played) ==
  LET last == played[Len(call.messages)]
      places == (1 .. size) \X (1 .. size)
      won == last.rewards # <<>> /\ Last(last.rewards) = 1
  IN  /\ \A n \in DOMAIN played :
           LET game == played[n].state.game
           IN  /\ {Tile(game, p) : p \in places} = 0 .. size * size - 1
               /\ Tile(game, game.empty) = 0 /\ Solvable(game)
               /\ played[n].state.moves <= max
      /\ \A i \in 1 .. Len(last.rewards) - 1 : last.rewards[i] = 0
      /\ won => \E p \in places : Beside(p, last.state.game.empty)
                                /\ Slide(last.state.game, p).grid = Solution(size)
      /\ last.over => won \/ last.state.moves = max

(* Of the subsets of k tests, those for which a prompt counts. *)
Counts(cfg, prompt, S) ==
  LET given(i) == Given(prompt.tests[i], prompt.truth)
      times(x) == Cardinality({i \in S : given(i) = x})
      first(x) == Min({i \in S : given(i) = x})
      right == {i \in S : Right(cfg.verifier, prompt.tests[i], prompt.truth)}
  IN  IF cfg.metric = "pass@k" THEN right # {}
      ELSE right # {} /\ \A i \in S : \/ times(given(i)) < times(prompt.truth)
                                       \/ /\ times(given(i)) = times(prompt.truth)
                                          /\ first(given(i)) >= first(prompt.truth)

(* Answers of one prompt are told apart by their first symbols.            *)
FirstsTell(prompt) ==
  LET all == UNION {Range(Parsed(t)) : t \in Range(prompt.tests)} \cup {prompt.truth}
  IN  \A x, y \in all : x[1] = y[1] => x = y

Scorable(cfg, dataset) == \A p \in Range(dataset) :
  (\A t \in Range(p.tests) : ScoredOnce(cfg.verifier, t)) /\ (cfg.metric = "cons@k" => FirstsTell(p))

(* Every row gets the score of its own last words, whichever worker scored *)
(* it and in whatever order the engine finished; an evaluation reports, of *)
(* all subsets of k tests of a prompt, the share with a right answer       *)
(* (pass@k) or with a right majority (cons@k), and saves every test with   *)
(* its own response and reward; a mean of rewards is 1 only for all of     *)
(* them; a program that runs keeps the variables and files of the          *)
(* statements before its first error, and ends an episode only by a value; *)
(* a puzzle stays solvable, is won once, by the move that solves it, and   *)
(* ends by that or by its last move (environments, evals/eval.py).         *)
(* Left out: responses whose extraction fails after they were scored, and  *)
(* answers of which cons@k sees the first character only.                  *)
ScoresMeant ==
  /\ Answered({"score"}) /\ call.env = "math" =>
       LET own(b) == Response(call.logs[b])
           rows == DOMAIN call.logs
           once == ~call.extracting \/ \A b \in rows : ScoredOnce(call.verifier, own(b))
           right(b) == Right(call.verifier, own(b), call.truths[b])
       IN  /\ call.verifier \in {"hf", "dapo"} /\ once =>
                Answer.rewards = [b \in rows |-> IF right(b) THEN 1 ELSE 0]
           /\ call.verifier \in {"english", "multilingual"} =>
                /\ Len(Answer.rewards) = Len(call.logs)
                /\ \A b \in rows : Answer.rewards[b] = 1 =>
                     \E i \in DOMAIN own(b) : <<own(b)[i].letter>> = call.truths[b]
                /\ \A b \in rows :
                     (own(b) # <<>> /\ \A i \in DOMAIN own(b) : own(b)[i].lang = 1 /\ own(b)[i].script = "latin"
                                        /\ ~own(b)[i].small /\ own(b)[i].letter \in {"A", "B", "C", "D"})
                     => Answer.rewards[b] = (IF <<own(b)[1].letter>> = call.truths[b] THEN 1 ELSE 0)
  /\ Answered({"score"}) /\ call.env = "jaccard" => \A b \in DOMAIN call.logs :
       LET words == Response(call.logs[b])
       IN  /\ 0 <= Answer[b][1] /\ Answer[b][1] <= Answer[b][2]
           /\ Answer[b][1] = 0 <=> Range(words) \cap Range(call.truths[b]) = {} /\ words # call.truths[b]
           /\ Answer[b][1] = Answer[b][2] =>
                Range(words) = Range(call.truths[b]) /\ Len(words) = Len(call.truths[b])
  /\ Answered({"score"}) /\ call.env = "vlm" /\ Answer # Raised =>
       /\ Len(Answer.rewards) = Len(call.responses)
       /\ \A b \in DOMAIN call.responses :
            LET x == call.responses[b]
                t == call.truths[b]
                names == {call.functions[i].name : i \in DOMAIN call.functions}
                best == /\ x.answers /\ ("format" \in names => x.thinks)
                        /\ (names \cap {"exact_alnum", "math_expr"} # {} => x.text = t.text)
                        /\ ("bbox_giou" \in names => x.box = t.box)
            IN  Proper(t.box) /\ (x.box = <<>> \/ Proper(x.box)) =>
                  /\ Answer.rewards[b][1] <= Answer.rewards[b][2]
                  /\ -Answer.rewards[b][2] < Answer.rewards[b][1]
                  /\ Answer.rewards[b][1] = Answer.rewards[b][2] <=> best
  /\ Answered({"score"}) /\ call.env = "reward_model" => \A b \in DOMAIN call.conversations :
       LET spoken == Spoken(call.conversations[b], call.template, FALSE)
       IN  Answer[b] = [i \in DOMAIN spoken |-> spoken[i][1]]
  /\ Answered({"code"}) =>
       LET runs(b) == call.rows[b].kind # "none"
           loses(b) == call.rows[b].kind = "broken"
                       \/ \E x \in DOMAIN RunOf(call.rows[b]).context : RunOf(call.rows[b]).context[x] = "range"
       IN  /\ Answer = Raised <=> \E b \in DOMAIN call.rows : loses(b)
           /\ Answer # Raised => \A b \in DOMAIN call.rows :
                LET row == call.rows[b]
                    done == Answer.rows[b]
                IN  /\ done.context = IF runs(b) THEN RunOf(row).context ELSE row.context
                    /\ done.files = IF runs(b) THEN RunOf(row).files ELSE {}
                    /\ done.terminated <=> call.onEvaluation /\ runs(b) /\ row.shows /\ ~RunOf(row).failed
  /\ Answered({"puzzle"}) => PlayedFairly(call.size, call.max, Answer)
  /\ Answered({"eval"}) /\ Scorable(call.cfg, call.dataset) =>
       LET cfg == call.cfg
           D == DOMAIN call.dataset
           subsets == {S \in SUBSET (1 .. cfg.n) : Cardinality(S) = cfg.k}
           counted(i) == {S \in subsets : Counts(cfg, call.dataset[i], S)}
       IN  /\ Answer = Raised <=> EvalRefuses(cfg)
           /\ Answer # Raised =>
                /\ Answer.score * Cardinality(subsets)
                     = PassShare(cfg.n, cfg.n, cfg.k) * Over(D, LAMBDA i : Cardinality(counted(i)))
                /\ Answer.data = [j \in 1 .. cfg.n * Len(call.dataset) |->
                     LET p == call.dataset[((j - 1) \div cfg.n) + 1]
                         t == p.tests[((j - 1) % cfg.n) + 1]
                     IN  [prompt |-> p.text, response |-> t,
                          reward |-> IF Right(cfg.verifier, t, p.truth) THEN 1 ELSE 0]]
=============================================================================
