----------------------------- MODULE LossFunctions -----------------------------
(***************************************************************************)
(* The losses of a microbatch, up to the constant that the whole batch is  *)
(* divided by (global_valid_toks or global_valid_seqs): what microbatches  *)
(* of one batch add to the gradient has to add up to the batch's own loss. *)
(* A row of a batch is a record with the 0/1 tuple `mask` over its tokens, *)
(* `valid` (the sample mask) and tuples over the tokens; log probabilities *)
(* at position i are those of token i + 1 once the first column is         *)
(* dropped.  One stands for 1.0; shares of a row are scaled by Scale.      *)
(***************************************************************************)
EXTENDS MegatronPacking

CONSTANT
  Scale       \* a multiple of every number of tokens of a row

One == Exp(0)

Clamp(x, low, high) == Max({low, Min({x, high})})
Positions(row) == 1 .. Len(row.mask) - 1
TokenMask(row) == [i \in Positions(row) |-> row.mask[i + 1]]
Mask(row) == [i \in Positions(row) |-> row.mask[i + 1] * row.valid]
Shifted(s) == Tail(s)

MaskedSum(values, mask) == SumOf([i \in DOMAIN mask |-> values[i] * mask[i]])
MaskedMean(values, mask) == (Scale * MaskedSum(values, mask)) \div Max({1, SumOf(mask)})

OverRows(rows, Op(_)) == SumOf([b \in DOMAIN rows |-> Op(rows[b])])

-----------------------------------------------------------------------------
(* calculate_kl, per token; the clamps are 0 for none. *)
Kl(own, other, type, clampIn, clampOut) ==
  LET raw == other - own
      logr == IF clampIn = 0 THEN raw ELSE Clamp(raw, -clampIn, clampIn)
      kl == CASE type = "k1" -> -One * logr
              [] type = "k2" -> (One * logr * logr) \div 2
              [] type = "k3" -> Exp(logr) - One - One * logr
  IN  IF clampOut = 0 THEN kl ELSE Clamp(kl, -clampOut * One, clampOut * One)

-----------------------------------------------------------------------------
(* ClippedPGLossFn.  low, high and dual are in parts of One.               *)

Ratio(cfg, row, i) ==
  LET log == [j \in Positions(row) |-> row.curr[j] - Shifted(row.prev)[j]]
  IN  CASE cfg.ratio = "forced" -> One
        [] cfg.ratio = "none" -> row.curr[i]
        [] cfg.ratio = "ppo" ->
             IF cfg.sequenceRatio THEN Exp(MaskedMean(log, TokenMask(row)) \div Scale)
             ELSE Exp(log[i])

ClippedRatio(cfg, row, i) ==
  IF cfg.ratio = "ppo" THEN Clamp(Ratio(cfg, row, i), One - cfg.low, One + cfg.high)
  ELSE Ratio(cfg, row, i)

ClipLoss(cfg, row, i) ==
  LET a == Shifted(row.adv)[i]
      loss == Max({-a * Ratio(cfg, row, i), -a * ClippedRatio(cfg, row, i)})
  IN  IF cfg.dual > 0 /\ a < 0 THEN Min({loss, -a * cfg.dual}) ELSE loss

(* Mutant: the weight of a sequence sums over all its positions. *)
CorrectionUnmasked(cfg, row, i) ==
  LET diff == [j \in Positions(row) |-> Shifted(row.prev)[j] - Shifted(row.gen)[j]]
  IN  IF ~cfg.correct THEN One
      ELSE IF cfg.sequenceRatio THEN Exp(SumOf(diff)) ELSE Exp(diff[i])

(* What corrects for rollouts by other weights, per token or sequence.     *)
Correction(cfg, row, i) ==
  LET diff == [j \in Positions(row) |-> Shifted(row.prev)[j] - Shifted(row.gen)[j]]
      w == IF cfg.sequenceRatio THEN Exp(MaskedSum(diff, Mask(row))) ELSE Exp(diff[i])
  IN  IF ~cfg.correct THEN One
      ELSE IF cfg.truncate > 0 THEN Min({w, cfg.truncate}) ELSE w

KlPenalty(cfg, row, i) ==
  LET w == IF cfg.onPolicyKl THEN Exp(row.curr[i] - Shifted(row.gen)[i]) ELSE One
  IN  w * cfg.penalty * Kl(row.curr[i], Shifted(row.ref)[i], cfg.kl, cfg.clampIn, cfg.clampOut)

ClippedPG(cfg, rows) ==
  LET token(row) == [i \in Positions(row) |->
        Correction(cfg, row, i) * ClipLoss(cfg, row, i) + KlPenalty(cfg, row, i)]
  IN  OverRows(rows, LAMBDA row :
        IF cfg.tokenLevel THEN MaskedSum(token(row), Mask(row))
        ELSE MaskedMean(token(row), TokenMask(row)) * row.valid)

-----------------------------------------------------------------------------
(* The range of the ratios, <<>> where no token counts: of a microbatch,   *)
(* taken together over the sequences of a packed one, and reported by the  *)
(* training loop.                                                          *)
RatioRange(cfg, rows) ==
  LET values == UNION {{Ratio(cfg, rows[b], i) : i \in {j \in Positions(rows[b]) : Mask(rows[b])[j] = 1}} :
                         b \in DOMAIN rows}
  IN  IF values = {} THEN <<>> ELSE <<Min(values), Max(values)>>

Together(ranges) ==
  LET found == {b \in DOMAIN ranges : ranges[b] # <<>>}
  IN  IF found = {} THEN <<>>
      ELSE <<Min({ranges[b][1] : b \in found}), Max({ranges[b][2] : b \in found})>>

PackedRange(cfg, rows) == Together([b \in DOMAIN rows |-> RatioRange(cfg, <<rows[b]>>)])
ReportedRange(ranges) == IF Together(ranges) = <<>> THEN <<-1, -1>> ELSE Together(ranges)

-----------------------------------------------------------------------------
(* NLLLoss, over a batch, and per row for DPO. *)
Nll(rows) == -OverRows(rows, LAMBDA row : MaskedSum(row.curr, Mask(row)))
NllRow(row, average) ==
  -(IF average THEN MaskedMean(row.curr, Mask(row)) ELSE Scale * MaskedSum(row.curr, Mask(row)))

(* Preference and DPO: rows come in pairs, chosen before rejected.  A loss *)
(* is the logsigmoid of the difference of rewards, here Exp of it.         *)
Chosen(s) == [i \in 1 .. Len(s) \div 2 |-> s[2 * i - 1]]
Rejected(s) == [i \in 1 .. Len(s) \div 2 |-> s[2 * i]]

Preference(rewards, rows, beta) ==
  LET delta(i) == Chosen(rewards)[i] - Rejected(rewards)[i]
  IN  SumOf([i \in DOMAIN Chosen(rows) |-> -Exp(beta * delta(i)) * Chosen(rows)[i].valid])

(* The reference log probabilities were computed with the first column and *)
(* rolled to the left, so that the last column is dropped here.            *)
RolledReference(lp) == Roll(lp)

DpoReward(cfg, row) ==
  LET ref == RolledReference(row.ref)
      diff == [i \in Positions(row) |-> row.curr[i] - ref[i]]
  IN  IF cfg.preferenceAverage THEN MaskedMean(diff, TokenMask(row)) \div Scale
      ELSE MaskedSum(diff, TokenMask(row))

Dpo(cfg, rows) ==
  LET sft == [i \in DOMAIN rows |-> NllRow(rows[i], cfg.sftAverage)]
      rewards == [i \in DOMAIN rows |-> DpoReward(cfg, rows[i])]
  IN  cfg.sftWeight * SumOf([i \in DOMAIN Chosen(rows) |-> Chosen(sft)[i] * Chosen(rows)[i].valid])
      + cfg.preferenceWeight * Preference(rewards, rows, cfg.penalty)

-----------------------------------------------------------------------------
(* DistillationLossFn.  The teacher's top-k tokens and logits per position *)
(* are given; the student's logits are cut over tp and cp ranks.  Weights  *)
(* of a mixed loss are cfg.weight of cfg.whole.                            *)
LogInfinitesimal == -100

OfTopk(row) == LogSoftmax(row, 0, 1)      \* normalised over the k tokens alone

PerTokenKl(cfg, student, teacher, entropy) ==
  LET n == DOMAIN student
      forward == SumOf([k \in n |-> Exp(teacher[k]) * (teacher[k] - student[k])])
      reverse == SumOf([k \in n |-> Exp(student[k]) * (student[k] - teacher[k])])
      rest == entropy - SumOf([k \in n |-> Exp(student[k]) * student[k]])
      mass == One - SumOf([k \in n |-> Exp(student[k])])
      outside == IF cfg.zeroOutside THEN rest - LogInfinitesimal * mass ELSE 0
  IN  CASE cfg.type = "forward" -> forward
        [] cfg.type = "reverse" -> reverse + outside
        [] cfg.type = "mixed" -> cfg.weight * forward + (cfg.whole - cfg.weight) * (reverse + outside)

DistillKls(cfg, logits, tokens, teacher, tp, cp) ==
  LET student ==
        IF cfg.zeroOutside
        THEN ParallelGather(logits, tokens, tp, cp, Clamp(Len(logits) \div cp, 1, 1024), GatheredLogprobs)
        ELSE LET l == ParallelGather(logits, tokens, tp, cp, 0, GatheredLogits)
             IN  [i \in DOMAIN l |-> OfTopk(l[i])]
      entropy == IF cfg.zeroOutside /\ cfg.type # "forward"
                 THEN ParallelEntropy(logits, Len(tokens), tp, cp, Clamp(Len(logits) \div cp, 1, 1024))
                 ELSE [i \in DOMAIN tokens |-> 0]
  IN  [i \in 1 .. Len(tokens) - 1 |->
         PerTokenKl(cfg, student[i], OfTopk(teacher[i]), entropy[i])]

(* The share of a reply that is trained at a step of the warm-up, in       *)
(* millionths: always one, or that of the first entry whose end, in        *)
(* millionths of all steps, is not passed (of the last one after that).    *)
PrefixRatio(warmup, step, steps) ==
  LET due == {e \in DOMAIN warmup.schedule :
               steps <= 0 \/ Min({step, steps}) * 1000000 <= warmup.schedule[e].until * steps}
      entry == IF due = {} THEN Len(warmup.schedule) ELSE Min(due)
  IN  CASE warmup.mode = "none" -> 1000000
        [] warmup.mode = "fixed" -> Clamp(warmup.ratio, 0, 1000000)
        [] warmup.mode = "stepwise" -> Clamp(warmup.schedule[entry].ratio, 0, 1000000)

(* Only the first part of a row's response tokens is trained during the    *)
(* warm-up: ceil(ratio * n) of n, ratio in millionths.                     *)
PrefixMask(mask, ratio) ==
  LET keep == (SumOf(mask) * ratio + 999999) \div 1000000
      count(i) == SumOf(SubSeq(mask, 1, i))
  IN  IF ratio >= 1000000 THEN mask
      ELSE [i \in DOMAIN mask |-> IF mask[i] = 1 /\ count(i) <= keep THEN 1 ELSE 0]

-----------------------------------------------------------------------------
(* Around the losses. *)

(* maybe_pad_last_batch: copies of the last row that count for nothing.    *)
PadLastBatch(rows, dp, mbs) ==
  LET n == RoundUp(Len(rows), mbs * dp)
  IN  PadTo(rows, n, [Last(rows) EXCEPT !.valid = 0])

Microbatches(rows, size) ==
  [j \in 1 .. Len(rows) \div size |-> SubSeq(rows, (j - 1) * size + 1, j * size)]

(* calculate_baseline_and_std_per_prompt: the mean of a prompt's other     *)
(* valid rewards (or of all of them), scaled, and the rewards themselves   *)
(* when there is nothing to compare with.                                  *)
Baseline(prompts, rewards, valid, leaveOneOut) ==
  LET group(b) == {c \in DOMAIN prompts : prompts[c] = prompts[b]}
      validIn(b) == Cardinality({c \in group(b) : valid[c] = 1})
      others(b) == group(b) \ (IF leaveOneOut THEN {b} ELSE {})
      num(b) == validIn(b) - (IF leaveOneOut THEN 1 ELSE 0)
  IN  [b \in DOMAIN prompts |->
         IF validIn(b) <= 1 THEN Scale * rewards[b]
         ELSE (Scale * MapThenSumSet(LAMBDA c : rewards[c] * valid[c], others(b))) \div num(b)]

=============================================================================
