----------------------------- MODULE TensorParallel -----------------------------
(***************************************************************************)
(* Log probabilities, their gradients, the top-k and the entropy of logits *)
(* that are cut along the vocabulary over tensor-parallel ranks and along  *)
(* the sequence over context-parallel ranks, in chunks of the sequence.    *)
(* One row of a batch is a sequence of positions, a position the sequence  *)
(* of its logits; tokens are 0 .. V-1.  exp and log are Exp and Log, any   *)
(* two functions: what is compared are results of the same arithmetic on   *)
(* whole and on cut tensors.                                               *)
(***************************************************************************)
EXTENDS Integers, Sequences, SequencesExt, FiniteSetsExt

CONSTANTS Exp(_), Log(_)

LOCAL SumTo(n, F(_)) == MapThenSumSet(F, 1 .. n)
SumOf(s) == SumTo(Len(s), LAMBDA i : s[i])
Roll(s) == Tail(s) \o <<Head(s)>>
PadTo(s, n, x) == s \o [i \in 1 .. n - Len(s) |-> x]

-----------------------------------------------------------------------------
(* Tensor parallelism.  Rank r of tp holds the r-th slice of a position.   *)

Slice(row, r, tp) == LET w == Len(row) \div tp IN SubSeq(row, r * w + 1, (r + 1) * w)
AllReduce(tp, F(_)) == MapThenSumSet(F, 0 .. tp - 1)

(* Mutant: every rank normalises over its own slice. *)
LogSoftmaxLocal(row, r, tp) ==
  LET s == Slice(row, r, tp)
      top == Max(Range(s))
  IN  [v \in DOMAIN s |-> s[v] - top - Log(SumOf([u \in DOMAIN s |-> Exp(s[u] - top)]))]

(* The maximum and the normaliser are reduced over all ranks. *)
LogSoftmax(row, r, tp) ==
  LET local(q) == Slice(row, q, tp)
      top == Max({Max(Range(local(q))) : q \in 0 .. tp - 1})
      total == AllReduce(tp, LAMBDA q :
                 SumOf([v \in DOMAIN local(q) |-> Exp(local(q)[v] - top)]))
  IN  [v \in DOMAIN local(r) |-> local(r)[v] - top - Log(total)]

Softmax(row, r, tp) ==
  LET lp == LogSoftmax(row, r, tp) IN [v \in DOMAIN lp |-> Exp(lp[v])]

(* A token outside the slice counts as local index 0, or as the nearest    *)
(* one, and is multiplied by zero.                                         *)
InSlice(t, r, w) == r * w <= t /\ t < (r + 1) * w
Clamped(t, r, w) == IF t < r * w THEN 0 ELSE IF t >= (r + 1) * w THEN w - 1 ELSE t - r * w

LogprobOf(row, t, tp) ==
  LET w == Len(row) \div tp
  IN  AllReduce(tp, LAMBDA r :
        IF InSlice(t, r, w) THEN LogSoftmax(row, r, tp)[t - r * w + 1] ELSE 0)

GatheredLogprobs(row, ts, tp) ==
  LET w == Len(row) \div tp
  IN  [k \in DOMAIN ts |-> AllReduce(tp, LAMBDA r :
        LogSoftmax(row, r, tp)[Clamped(ts[k], r, w) + 1] * (IF InSlice(ts[k], r, w) THEN 1 ELSE 0))]

GatheredLogits(row, ts, tp) ==
  LET w == Len(row) \div tp
  IN  [k \in DOMAIN ts |-> AllReduce(tp, LAMBDA r :
        Slice(row, r, tp)[Clamped(ts[k], r, w) + 1] * (IF InSlice(ts[k], r, w) THEN 1 ELSE 0))]

EntropyOf(row, tp) ==
  AllReduce(tp, LAMBDA r :
    LET lp == LogSoftmax(row, r, tp) IN SumOf([v \in DOMAIN lp |-> Exp(lp[v]) * lp[v]]))

(* Gradients at rank r's slice. *)
LogprobGrad(row, t, g, r, tp) ==
  LET p == Softmax(row, r, tp)
  IN  [v \in DOMAIN p |->
         g * ((IF InSlice(t, r, Len(p)) /\ v = t - r * Len(p) + 1 THEN 1 ELSE 0) - p[v])]

GatherGrad(row, ts, gs, r, tp) ==
  LET p == Softmax(row, r, tp)
      scattered(v) == MapThenSumSet(LAMBDA k : gs[k],
        {k \in DOMAIN ts : InSlice(ts[k], r, Len(p)) /\ Clamped(ts[k], r, Len(p)) + 1 = v})
  IN  [v \in DOMAIN p |-> scattered(v) - p[v] * SumOf(gs)]

EntropyGrad(row, g, r, tp) ==
  LET lp == LogSoftmax(row, r, tp)
  IN  [v \in DOMAIN lp |-> g * Exp(lp[v]) * (lp[v] - EntropyOf(row, tp))]

(* The k largest of each rank, then the k largest of those.  Of equal      *)
(* logits the lower token goes first; torch promises no order.             *)
TopK(pairs, k) ==
  LET before(a, b) == a[1] > b[1] \/ (a[1] = b[1] /\ a[2] < b[2])
  IN  SubSeq(SortSeq(pairs, before), 1, k)

VocabTopk(row, k, tp) ==
  LET w == Len(row) \div tp
      local(r) == TopK([v \in 1 .. w |-> <<Slice(row, r, tp)[v], v - 1 + r * w>>], Min({k, w}))
  IN  TopK(FlattenSeq([r \in 1 .. tp |-> local(r - 1)]), Min({k, Max({1, w * tp})}))

-----------------------------------------------------------------------------
(* Chunks of the sequence: Op(i) for every position, `size` at a time.     *)
(* Without chunks (size 0) all at once.                                    *)

Chunked(n, size, Op(_)) ==
  LET c == IF size = 0 THEN Max({n, 1}) ELSE size
      num == (n + c - 1) \div c
      chunk(j) == [i \in 1 .. Min({n, j * c}) - (j - 1) * c |-> Op((j - 1) * c + i)]
  IN  FlattenSeq([j \in 1 .. num |-> chunk(j)])

Logprobs(rows, targets, tp, size) ==
  Chunked(Len(rows), size, LAMBDA i : LogprobOf(rows[i], targets[i], tp))

LogprobGrads(rows, targets, gs, r, tp, size) ==
  Chunked(Len(rows), size, LAMBDA i : LogprobGrad(rows[i], targets[i], gs[i], r, tp))

-----------------------------------------------------------------------------
(* Context parallelism.  Rank c of cp holds the chunks c and 2cp-1-c of a  *)
(* sequence whose length is a multiple of 2cp.                             *)

OnRank(s, c, cp) ==
  LET w == Len(s) \div (2 * cp)
      part(i) == SubSeq(s, i * w + 1, (i + 1) * w)
  IN  IF cp = 1 THEN s ELSE part(c) \o part(2 * cp - c - 1)

(* AllGatherCPTensor.forward: two chunks of every rank, put in order. *)
AllGather(parts) ==
  LET cp == Len(parts)
      w(c) == Len(parts[c]) \div 2
      half(i) == IF i < cp THEN SubSeq(parts[i + 1], 1, w(i + 1))
                 ELSE SubSeq(parts[2 * cp - i], w(2 * cp - i) + 1, Len(parts[2 * cp - i]))
  IN  FlattenSeq([i \in 1 .. 2 * cp |-> half(i - 1)])

(* AllGatherCPTensor.backward: the gradients of all ranks are summed, each *)
(* rank keeps its positions.                                               *)
AllGatherBack(grads, c) ==
  LET cp == Len(grads)
      sum == [i \in DOMAIN grads[1] |-> SumTo(cp, LAMBDA q : grads[q][i])]
  IN  OnRank(sum, c, cp)

Gathered(cp, size, n, Op(_, _)) ==
  LET parts == [c \in 1 .. cp |-> Chunked(n, size, LAMBDA i : Op(c - 1, i))]
  IN  IF cp > 1 THEN AllGather(parts) ELSE parts[1]

(* from_parallel_logits_to_logprobs: rows are the logits of the padded     *)
(* sequence as the ranks hold them together.                               *)
Targets(tokens, n, c, cp) == OnRank(PadTo(Roll(tokens), n, 0), c, cp)

ParallelLogprobs(rows, tokens, tp, cp, size) ==
  LET n == Len(rows)
      all == Gathered(cp, size, n \div cp, LAMBDA c, i :
               LogprobOf(OnRank(rows, c, cp)[i], Targets(tokens, n, c, cp)[i], tp))
  IN  SubSeq(all, 1, Len(tokens) - 1)

(* Its gradient at rank (r, c), when the gradient gs of the loss reached   *)
(* the log probabilities on each of the cp ranks.                          *)
ParallelGrads(rows, tokens, gs, r, tp, c, cp, size) ==
  LET n == Len(rows)
      padded == PadTo(gs, n, 0)
      at == IF cp > 1 THEN AllGatherBack([q \in 1 .. cp |-> padded], c) ELSE padded
  IN  LogprobGrads(OnRank(rows, c, cp), Targets(tokens, n, c, cp), at, r, tp, size)

(* gather_logits_at_global_indices, and the gather of log probabilities    *)
(* and of entropies in the distillation loss.                              *)
ParallelGather(rows, indices, tp, cp, size, Op(_, _, _)) ==
  LET n == Len(rows)
      own(c) == OnRank(PadTo(indices, n, [k \in DOMAIN indices[1] |-> 0]), c, cp)
      all == Gathered(cp, size, n \div cp, LAMBDA c, i : Op(OnRank(rows, c, cp)[i], own(c)[i], tp))
  IN  SubSeq(all, 1, Len(indices))

ParallelEntropy(rows, n, tp, cp, size) ==
  SubSeq(Gathered(cp, size, Len(rows) \div cp, LAMBDA c, i : EntropyOf(OnRank(rows, c, cp)[i], tp)), 1, n)

(* dtensor_from_parallel_logits_to_logprobs: the loader has permuted the   *)
(* sequence by order; the targets are put back, shifted and permuted       *)
(* again, and so are the results.                                          *)
Permuted(s, order) == [i \in DOMAIN order |-> s[order[i]]]
Restored(s, order) == [i \in DOMAIN order |-> s[CHOOSE j \in DOMAIN order : order[j] = i]]

DTensorLogprobs(rows, tokens, order, tp, size) ==
  LET targets == Permuted(Roll(Restored(tokens, order)), order)
  IN  Front(Restored(Logprobs(rows, targets, tp, size), order))

=============================================================================
