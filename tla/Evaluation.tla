------------------------------- MODULE Evaluation -------------------------------
(***************************************************************************)
(* The evaluation of a model on a dataset: every prompt is answered n      *)
(* times, the environment scores the answers, and pass@k or cons@k is      *)
(* summed over the prompts.  Scores are in parts of n!, which every number *)
(* of subsets of at most n tests divides.                                  *)
(***************************************************************************)
EXTENDS Environments

LOCAL INSTANCE Combinatorics

(* setup: what it asserts, and the size of a batch. *)
EvalRefuses(cfg) ==
  \/ cfg.metric \notin {"pass@k", "cons@k"}
  \/ cfg.n > 1 /\ (cfg.temperature = 0 \/ cfg.topK = 1)
  \/ cfg.k < 1 \/ cfg.n < cfg.k
  \/ cfg.backend # "vllm"

EvalBatches(cfg, dataset) ==
  LET size == IF cfg.batch = -1 THEN Len(dataset) ELSE cfg.batch
  IN  [j \in 1 .. (Len(dataset) + size - 1) \div size |->
         SubSeq(dataset, (j - 1) * size + 1, Min({j * size, Len(dataset)}))]

(* repeat_interleave, of whatever a batch holds. *)
Repeated(list, n) == [i \in 1 .. n * Len(list) |-> list[((i - 1) \div n) + 1]]

(* _generate_texts: asynchronously the texts come with their index, in any *)
(* order, and are sorted by it.                                            *)
Collected(texts, order) ==
  LET arrived == [i \in DOMAIN texts |-> <<order[i], texts[order[i]]>>]
      sorted == SortSeq(arrived, LAMBDA a, b : a[1] < b[1])
  IN  [i \in DOMAIN sorted |-> sorted[i][2]]

(* tensor.split and its like for lists: the last part may be shorter. *)
Groups(list, n) ==
  [j \in 1 .. (Len(list) + n - 1) \div n |-> SubSeq(list, (j - 1) * n + 1, Min({j * n, Len(list)}))]

(* eval_pass_k. *)
PassShare(n, c, k) ==
  LET product == FoldSet(LAMBDA i, p : (i - k) * p, 1, n - c + 1 .. n)
  IN  IF n - c < k THEN factorial[n] ELSE factorial[n] - product * factorial[n - c]

PassK(rewards, n, k) ==
  LET groups == Groups(rewards, n)
      correct(g) == MapThenSumSet(LAMBDA i : g[i], DOMAIN g)
  IN  MapThenSumSet(LAMBDA j : PassShare(n, correct(groups[j]), k), DOMAIN groups)

(* eval_cons_k: the first of the most common answers of every k tests, and *)
(* the reward of the first test that gave it.                              *)
MostCommon(answers) ==
  LET count(x) == Cardinality({i \in DOMAIN answers : answers[i] = x})
      most == Max({count(answers[i]) : i \in DOMAIN answers})
  IN  answers[Min({i \in DOMAIN answers : count(answers[i]) = most})]

ConsShare(rewards, answers, n, k) ==
  LET m == Len(answers)
      chosen(S) == LET s == SetToSortSeq(S, <) IN [i \in DOMAIN s |-> answers[s[i]]]
      favourite(S) == MostCommon(chosen(S))
      right(S) == rewards[Min({i \in DOMAIN answers : answers[i] = favourite(S)})] = 1
  IN  IF m = 0 \/ k > m THEN 0
      ELSE Cardinality({S \in kSubset(k, 1 .. m) : right(S)}) * (factorial[n] \div choose(m, k))

ConsK(rewards, answers, n, k) ==
  LET r == Groups(rewards, n)
      a == Groups(answers, n)
  IN  MapThenSumSet(LAMBDA j : ConsShare(r[j], a[j], n, k), DOMAIN r)

(* One batch: a prompt is a record of its text, its truth and the texts of *)
(* its n tests; order says in which the asynchronous engine returns them.  *)
EvalBatch(cfg, batch) ==
  LET rows == Repeated(batch, cfg.n)
      texts == [i \in DOMAIN rows |-> rows[i].tests[((i - 1) % cfg.n) + 1]]
      order == [i \in DOMAIN rows |-> IF cfg.order = "reversed" THEN Len(rows) + 1 - i ELSE i]
      outputs == IF cfg.async THEN Collected(texts, order) ELSE texts
      logs == [i \in DOMAIN rows |-> <<[role |-> "user", content |-> rows[i].text],
                                       [role |-> "assistant", content |-> outputs[i]]>>]
      env == MathStep(cfg.verifier, cfg.workers, logs, [i \in DOMAIN rows |-> rows[i].truth], TRUE)
      saved(i) == [prompt |-> rows[i].text, response |-> outputs[i], reward |-> env.rewards[i]]
  IN  IF cfg.metric = "cons@k" /\ Len(env.rewards) # Len(env.answers) THEN Raised
      ELSE [data |-> [i \in 1 .. Min({Len(rows), Len(env.rewards)}) |-> saved(i)],
            score |-> IF cfg.metric = "pass@k" THEN PassK(env.rewards, cfg.n, cfg.k)
                      ELSE ConsK(env.rewards, env.answers, cfg.n, cfg.k)]

(* run_env_eval: the mean over the dataset, as sum and size. *)
Evaluate(cfg, dataset) ==
  LET batches == EvalBatches(cfg, dataset)
      done == [j \in DOMAIN batches |-> EvalBatch(cfg, batches[j])]
  IN  IF EvalRefuses(cfg) \/ \E j \in DOMAIN done : done[j] = Raised THEN Raised
      ELSE [data |-> FlattenSeq([j \in DOMAIN done |-> done[j].data]),
            score |-> MapThenSumSet(LAMBDA j : done[j].score, DOMAIN done), size |-> Len(dataset)]
=============================================================================
