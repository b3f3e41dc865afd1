---------------------------- MODULE MegatronPacking ----------------------------
(***************************************************************************)
(* Several sequences packed into one row for Megatron, each padded so that *)
(* it can be cut over the context-parallel ranks, the last one also for    *)
(* FP8 and for a length that all pipeline stages agree on; the log         *)
(* probabilities, the top-k and the loss taken apart again per sequence.   *)
(***************************************************************************)
EXTENDS TensorParallel

CONSTANTS
  Fp8Divisor,         \* 16 in the code
  BlockFp8Divisor     \* 128 in the code

RoundUp(x, m) == ((x + m - 1) \div m) * m

(* The padding of every sequence, of the packed row, and its fixed length  *)
(* (0 for none) under a layout [tp, sp, pp, cp, fp8].                      *)
SplitFactor(layout) ==
  (IF layout.cp > 1 THEN layout.cp * 2 ELSE 1) * (IF layout.tp > 1 /\ layout.sp THEN layout.tp ELSE 1)

PackParameters(layout, maxLen) ==
  LET row == CASE layout.fp8 = "none" -> 1
               [] layout.fp8 = "tensor" -> Fp8Divisor * SplitFactor(layout)
               [] layout.fp8 = "block" -> BlockFp8Divisor * SplitFactor(layout)
  IN  [each |-> SplitFactor(layout), row |-> row,
       to |-> IF layout.pp > 1 THEN RoundUp(maxLen, row) ELSE 0]

(* What the packer of the batch pads every sequence to (Policy.__init__).  *)
BatchMultiple(layout) == IF layout.cp > 1 THEN layout.cp * 2 * layout.tp ELSE layout.tp
PackedLength(lens, layout) ==
  SumOf([b \in DOMAIN lens |-> RoundUp(lens[b], BatchMultiple(layout))])

-----------------------------------------------------------------------------
(* cu_seqlens_padded: where every sequence starts, and where the last ends. *)
Bounds(lens, p) ==
  LET start(i) == SumOf([b \in 1 .. i - 1 |-> RoundUp(lens[b], p.each)])
      end == start(Len(lens) + 1)
  IN  [i \in 1 .. Len(lens) + 1 |->
         IF i <= Len(lens) THEN start(i) ELSE IF p.to > 0 THEN p.to ELSE RoundUp(end, p.row)]

Segment(cu, b) == cu[b + 1] - cu[b]

(* What is left for the last sequence once those before it are padded. *)
PaddedLength(lens, p, b) ==
  LET running == SumOf([a \in 1 .. b - 1 |-> RoundUp(lens[a], p.each)])
      own == RoundUp(lens[b], p.each)
  IN  IF b < Len(lens) THEN own
      ELSE IF p.to > 0 THEN p.to - running
      ELSE RoundUp(running + own, p.row) - running

(* The padded sequences; without padding of its own a sequence is as long  *)
(* as it is, and the row is padded behind the last.                        *)
PackedSequences(tokens, lens, p) ==
  [b \in DOMAIN lens |-> PadTo(SubSeq(tokens[b], 1, lens[b]), PaddedLength(lens, p, b), 0)]

(* The row that rank c's model sees, and the whole row. *)
PackedRow(seqs) == FlattenSeq(seqs)
PackedRowOn(seqs, c, cp) == FlattenSeq([b \in DOMAIN seqs |-> OnRank(seqs[b], c, cp)])

-----------------------------------------------------------------------------
(* from_parallel_logits_to_logprobs_packed_sequences.  logits[c] are the   *)
(* packed logits of context rank c - 1; `width` is that of the unpacked    *)
(* tensor.                                                                 *)
RolledTargets(row, cu, c, cp) ==
  FlattenSeq([b \in 1 .. Len(cu) - 1 |-> OnRank(Roll(SubSeq(row, cu[b] + 1, cu[b + 1])), c, cp)])

(* Sequence b of what the ranks hold of the packed row. *)
Unpacked(parts, cu, b) ==
  LET cp == Len(parts)
      own(c) == SubSeq(parts[c], cu[b] \div cp + 1, cu[b + 1] \div cp)
  IN  IF cp > 1 THEN AllGather([c \in 1 .. cp |-> own(c)]) ELSE own(1)

PackedLogprobs(logits, row, cu, width, tp, size) ==
  LET cp == Len(logits)
      parts == [c \in 1 .. cp |-> Logprobs(logits[c], RolledTargets(row, cu, c - 1, cp), tp, size)]
      kept(b) == Min({Segment(cu, b) - 1, width - 1})
  IN  [b \in 1 .. Len(cu) - 1 |->
         IF Segment(cu, b) > 0
         THEN PadTo(SubSeq(Unpacked(parts, cu, b), 1, kept(b)), width - 1, 0)
         ELSE [i \in 1 .. width - 1 |-> 0]]

(* get_topk_logits: the same way back, without a shift. *)
PackedTopk(logits, lens, cu, k, tp) ==
  LET cp == Len(logits)
      parts == [c \in 1 .. cp |-> [i \in DOMAIN logits[c] |-> VocabTopk(logits[c][i], k, tp)]]
  IN  [b \in DOMAIN lens |-> SubSeq(Unpacked(parts, cu, b), 1, lens[b])]

-----------------------------------------------------------------------------
(* SequencePackingLossWrapper: the loss function sees one sequence at a    *)
(* time, its row cut to the padded length, its logits out of the packed    *)
(* ones.  Loss(b, logprobs) is what it adds for the log probabilities of   *)
(* sequence b; the parts are summed.                                       *)
WrappedLogprobs(logits, tokens, cu, tp) ==
  LET cp == Len(logits)
      n(b) == Segment(cu, b)
      row(b) == SubSeq(tokens[b], 1, Min({n(b), Len(tokens[b])}))
      own(c, b) == SubSeq(logits[c + 1], cu[b] \div cp + 1, (cu[b] + n(b)) \div cp)
      all(b) == Gathered(cp, 0, n(b) \div cp, LAMBDA c, i :
                  LogprobOf(own(c, b)[i], Targets(row(b), n(b), c, cp)[i], tp))
  IN  [b \in 1 .. Len(cu) - 1 |-> SubSeq(all(b), 1, Len(row(b)) - 1)]

(* Mutant: the loss is not divided. *)
LossShareWhole(g, cp) == g

(* The gradient at the logits of tensor rank r and context rank c: each    *)
(* context rank computes the whole loss, divides it by their number, and   *)
(* gathering backwards sums over the ranks.                                *)
LossShare(g, cp) == [i \in DOMAIN g |-> g[i] \div cp]

WrappedGrads(logits, tokens, gs, cu, r, tp, c) ==
  LET cp == Len(logits)
      n(b) == Segment(cu, b)
      row(b) == SubSeq(tokens[b], 1, Min({n(b), Len(tokens[b])}))
      share(b) == PadTo(LossShare(SubSeq(gs[b], 1, Len(row(b)) - 1), cp), n(b), 0)
      at(b) == IF cp > 1 THEN AllGatherBack([q \in 1 .. cp |-> share(b)], c) ELSE share(b)
      own(b) == SubSeq(logits[c + 1], cu[b] \div cp + 1, (cu[b] + n(b)) \div cp)
  IN  FlattenSeq([b \in 1 .. Len(cu) - 1 |->
        LogprobGrads(own(b), Targets(row(b), n(b), c, cp), at(b), r, tp, 0)])

=============================================================================
