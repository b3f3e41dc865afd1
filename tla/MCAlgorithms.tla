------------------------------ MODULE MCAlgorithms ------------------------------
(* Calls small enough to compute, with integers for exponentials: any two  *)
(* functions do, since both sides of a comparison use the same.            *)
EXTENDS Algorithms

MCExp(x) == (x + 12) * (x + 12)
MCLog(n) == n \div 100
MCLogit(tokens, v) == ((SumOf(tokens) + Len(tokens)) * (v + 2) + v * v) % 5

Texts == {<<1, 3, 0, 2>>, <<2, 2, 1, 0, 3>>, <<0, 1>>, <<3, 1, 1, 2, 0, 1, 3>>}
Multiples(n, m) == [i \in 1 .. n |-> m * (((i * 5) % 7) - 3)]
Orders == {<<1, 4, 2, 3>>, <<4, 3, 2, 1>>, <<2, 1, 4, 3>>}

OnRow(op) == {[op |-> op, tokens |-> t, tp |-> tp, cp |-> cp, size |-> n,
               grads |-> Multiples(Len(t) - 1, cp)] :
                t \in Texts, tp \in {1, 2}, cp \in {1, 2}, n \in {0, 1, 3}}

TeacherRows(n) == [i \in 1 .. n |-> [v \in 1 .. V |-> (3 * v + i) % 5]]
DistillCfgs == [type : {"forward", "reverse", "mixed"}, zeroOutside : BOOLEAN,
                weight : {1}, whole : {4}]

DistillCalls == {[op |-> "distill", tokens |-> t, tp |-> tp, cp |-> cp, k |-> k, cfg |-> c,
                  teacher |-> TeacherRows(Len(t))] :
                    t \in {<<1, 3, 0, 2>>, <<2, 2, 1, 0, 3>>}, tp \in {1, 2}, cp \in {1, 2},
                    k \in {1, 3}, c \in DistillCfgs}

DistillGradCalls ==
  {[op |-> "distill_grads", tokens |-> t, tp |-> tp, size |-> n, k |-> k, teacher |-> TeacherRows(Len(t)),
    grads |-> [i \in DOMAIN t |-> Multiples(k, i)]] :
      t \in {<<1, 3, 0, 2>>, <<2, 2, 1, 0, 3>>}, tp \in {1, 2}, n \in {1, 3}, k \in {1, 3}}

DTensorCalls == {[op |-> "dtensor", tokens |-> t, order |-> o, tp |-> tp, size |-> n] :
                   t \in {<<1, 3, 0, 2>>, <<3, 0, 0, 1>>}, o \in Orders, tp \in {1, 2}, n \in {0, 3}}

-----------------------------------------------------------------------------
Layouts == {l \in [tp : {1, 2}, sp : BOOLEAN, pp : {1, 2}, cp : {1, 2},
                   fp8 : {"none", "tensor", "block"}] : l.sp => l.tp = 2}

Microbatch == {<< <<1, 3, 0>>, <<2, 2, 1, 0, 3>> >>, << <<2, 1, 3>> >>,
               << <<3, 1, 1, 2>>, <<0, 2>>, <<1, 3, 3>> >>}
Widened(seqs) == [b \in DOMAIN seqs |-> PadTo(seqs[b], 6, 0)]
Lengths(seqs) == [b \in DOMAIN seqs |-> Len(seqs[b])]

OnPack(op) == {[op |-> op, rows |-> Widened(s), lens |-> Lengths(s), layout |-> l, slack |-> n,
                k |-> 2, size |-> z,
                grads |-> [b \in DOMAIN s |-> PadTo(Multiples(Len(s[b]) - 1, l.cp), 5, 0)]] :
                  s \in Microbatch, l \in Layouts, n \in {0, 1}, z \in {0, 2}}
PackCalls ==
  {c \in OnPack("packed_logprobs") : c.slack = 0 \/ c.layout.pp = 2}
  \cup {c \in UNION {OnPack(op) : op \in {"packed_topk", "packed_loss", "packed_grads"}} :
          /\ c.size = 0
          /\ c.slack = (IF c.layout.pp = 2 /\ c.layout.fp8 = "none" THEN 1 ELSE 0)}

-----------------------------------------------------------------------------
(* Rows with something at every position, masked or not. *)
Row(mask, valid, seed) ==
  LET some(k) == [i \in DOMAIN mask |-> ((i * k + seed * (k + 1)) % 5) - 2]
  IN  [mask |-> mask, valid |-> valid, reward |-> seed,
       curr |-> [i \in 1 .. Len(mask) - 1 |-> some(2)[i]],
       prev |-> some(3), gen |-> some(4), ref |-> some(6), adv |-> [i \in DOMAIN mask |-> (seed % 3) - 1]]

Masks == {<<0, 0, 1, 1>>, <<0, 1, 0, 1>>, <<0, 1, 1, 1>>, <<0, 0, 0, 0>>}
RowsOf(m, v) == <<Row(<<0, 0, 1, 1>>, v, 2), Row(m, v, 3), Row(m, 1 - v, 4), Row(<<0, 1, 0, 1>>, 1 - v, 6)>>

PGCfgs == {c \in [tokenLevel : BOOLEAN, ratio : {"forced", "none", "ppo"}, sequenceRatio : BOOLEAN,
                  low : {44}, high : {25}, dual : {0, 432}, correct : BOOLEAN, truncate : {0, 200},
                  onPolicyKl : BOOLEAN, penalty : {1}, kl : {"k1", "k2", "k3"},
                  clampIn : {0, 2}, clampOut : {0}] :
             /\ c.sequenceRatio => ~c.tokenLevel
             /\ c.truncate > 0 => c.correct
             /\ c.dual > 0 => c.ratio = "ppo"
             /\ c.kl # "k3" => ~c.onPolicyKl /\ c.clampIn = 0}
DpoCfgs == [preferenceAverage : BOOLEAN, sftAverage : BOOLEAN, sftWeight : {0, 2}, preferenceWeight : {1}, penalty : {1}]

Batches == {RowsOf(m, v) : m \in Masks, v \in {0, 1}}
LossCall(loss, cfg, rows, dp, mbs) ==
  [op |-> "loss", loss |-> loss, cfg |-> cfg, rows |-> rows, dp |-> dp, mbs |-> mbs]
Three(rows) == SubSeq(rows, 1, 3)

LossCalls ==
  {LossCall("clipped_pg", c, IF c.dual > 0 THEN rows ELSE Three(rows), 2, 1) :
     c \in PGCfgs, rows \in Batches}
  \cup {LossCall("nll", <<>>, rows, 1, 3) : rows \in Batches}
  \cup {LossCall(loss, c, [i \in DOMAIN rows |-> [rows[i] EXCEPT !.valid = rows[((i + 1) \div 2) * 2].valid]], dp, 2) :
          loss \in {"preference", "dpo"}, c \in DpoCfgs, rows \in Batches, dp \in {1, 3}}

RangeCalls == {[op |-> "range", cfg |-> c, rows |-> rows, mbs |-> n, packed |-> x] :
                 c \in {d \in PGCfgs : d.ratio = "ppo" /\ d.dual = 0 /\ ~d.correct /\ d.kl = "k1"},
                 rows \in Batches \cup {<<Row(<<0, 0, 0>>, 1, 2), Row(<<0, 1, 1>>, 0, 1)>>},
                 n \in {1, 2}, x \in BOOLEAN}
BaselineCalls == {[op |-> "baseline", prompts |-> <<1, 1, 2, 1>>, rewards |-> r, valid |-> v,
                   leaveOneOut |-> l] :
                    r \in {<<1, 0, 1, 1>>, <<0, 3, 1, 5>>}, v \in [1 .. 4 -> {0, 1}], l \in BOOLEAN}
Rising == <<[until |-> 250000, ratio |-> 250000], [until |-> 500000, ratio |-> 333334],
            [until |-> 1000000, ratio |-> 1000000]>>
Warmups == {[mode |-> "none"], [mode |-> "fixed", ratio |-> 500000], [mode |-> "fixed", ratio |-> 0],
            [mode |-> "stepwise", schedule |-> Rising]}
WarmupCalls == {[op |-> "warmup", mask |-> m, warmup |-> w, step |-> n, steps |-> 5] :
                  m \in Masks, w \in Warmups, n \in 0 .. 6}

-----------------------------------------------------------------------------
Says(role, text) == [role |-> role, content |-> [j \in DOMAIN text |-> <<text[j]>>]]
Conversations == {<<Says("user", <<"a", "b">>), Says("assistant", <<"c">>)>>,
                  <<Says("system", <<"s">>), Says("user", <<"a">>), Says("assistant", <<"c", "d">>),
                    Says("user", <<"b">>), Says("assistant", <<"a">>)>>,
                  <<Says("user", <<"a">>), Says("assistant", <<"c">>), Says("tool", <<"t", "u">>),
                    Says("assistant", <<"d">>)>>,
                  <<Says("user", <<"a">>)>>}
SftCalls == {[op |-> "sft", conversations |-> <<x, y>>, template |-> t, prompt |-> p, divisor |-> n] :
               x, y \in Conversations, t \in {"turns", "bare"}, p \in BOOLEAN, n \in {1, 4}}

Asked(text) == [role |-> "user", token_ids |-> text]
Told(text, lp) == [role |-> "assistant", token_ids |-> text, generation_logprobs |-> lp]
Fed(text) == [role |-> "environment", token_ids |-> text]
Ref(text) == [role |-> "assistant", token_ids |-> text]
Logs == {<<Asked(<<5, 6>>), Told(<<7, 8, 9>>, <<-1, -2, -3>>)>>,
         <<Asked(<<5>>), Told(<<7>>, <<-4>>), Fed(<<3, 3>>), Told(<<9, 8>>, <<-1, -5>>)>>,
         <<Asked(<<4, 4, 4>>), Told(<<2>>, <<-2>>), Fed(<<6>>)>>}
Sample(log, advantage, m, cut) ==
  [log |-> log, advantage |-> advantage, loss_multiplier |-> m, truncated |-> cut]
GrpoCalls == {[op |-> "grpo", samples |-> <<Sample(x, 2, 1, cut), Sample(y, -1, m, ~cut)>>,
               filtering |-> filter, divisor |-> n] :
                x, y \in Logs, n \in {1, 3, 8}, m \in {0, 1}, cut, filter \in BOOLEAN}

Pair(c, r, m) == [chosen |-> c, rejected |-> r, loss_multiplier |-> m]
PreferenceCalls == {[op |-> "preference", divisor |-> n, pairs |->
                       <<Pair(<<Asked(<<5>>), Ref(<<6, 7>>)>>, <<Asked(<<5>>), Ref(<<8>>)>>, x),
                         Pair(<<Asked(<<4, 4>>), Ref(<<3>>)>>, <<Asked(<<4, 4>>), Ref(<<2, 2, 2>>)>>, y)>>] :
                       x, y \in {0, 1}, n \in {1, 4}}
ProcessCalls == {[op |-> "process", task |-> t, log |-> l, max |-> n] :
                   t \in {"math", "helpsteer", "multichoice"},
                   l \in {<<Asked(<<5, 6, 7>>)>>, <<Asked(<<5, 6>>), Ref(<<7, 8, 9>>)>>,
                          <<Asked(<<1, 2, 3, 4, 5, 6>>), Ref(<<7>>)>>},
                   n \in {3, 5, 6, 7, 12}}

-----------------------------------------------------------------------------
AttachCalls == {[op |-> "attach", answers |-> a, tags |-> t, devices |-> d] :
                  a \in BOOLEAN, t \in {{}, {<<0, 1>>}, {<<0, 1, 2>>}}, d \in {<<1, 0>>, <<0, 1>>, <<2, 0, 1>>, <<3>>}}

Resources == {<<[gpus |-> 2, cpus |-> 2, ready |-> TRUE], [gpus |-> 12, cpus |-> 36, ready |-> TRUE]>>,
              <<[gpus |-> 12, cpus |-> 36, ready |-> FALSE]>>}
Clusters == {c \in [algorithm : {"grpo", "distillation", "sft", "eval"}, nodes : 1 .. 3, gpus : {2, 4},
                    colocated : BOOLEAN, infNodes : {0, 1, 2}, infGpus : {0, 2, 4},
                    rmNodes : {0, 1}, rmGpus : {0, 1}, backend : {"vllm", "megatron"},
                    seen : Resources, retries : {1, 2},
                    policy : {[pp |-> 1, cp |-> 1, tp |-> 2], [pp |-> 2, cp |-> 2, tp |-> 1]},
                    engine : {[tp |-> 1, pp |-> 1, ep |-> 1, async |-> TRUE],
                              [tp |-> 2, pp |-> 1, ep |-> 4, async |-> FALSE],
                              [tp |-> 3, pp |-> 1, ep |-> 1, async |-> FALSE],
                              [tp |-> 2, pp |-> 2, ep |-> 2, async |-> TRUE]}] :
               /\ c.rmNodes = c.rmGpus /\ (c.rmNodes > 0 => c.algorithm = "grpo")
               /\ (c.colocated => c.infNodes = 0 /\ c.infGpus = 0)
               /\ (c.algorithm = "sft" => c.colocated) /\ (c.algorithm = "eval" => c.colocated)
               /\ (c.retries = 1 => c.engine.tp = 2)
               /\ c.algorithm \in {"eval"} => c.backend = "vllm"}
SetupCalls == {[op |-> "setup", cfg |-> c] : c \in Clusters}

-----------------------------------------------------------------------------
(* Responses by what is found in them; the first symbols tell answers      *)
(* apart in some prompts only.                                             *)
Answers1 == {<< <<"4", "2">> >>, << <<"7">>, <<"4", "2">> >>, <<Slow>>, <<>>, << <<"7">>, Unprintable>>, << <<"1", "3">> >>}
Logged(response) == <<Says("user", <<"a">>), [role |-> "assistant", content |-> SubSeq(response, 1, Len(response) \div 2)],
                      [role |-> "assistant", content |-> SubSeq(response, (Len(response) \div 2) + 1, Len(response))]>>
MathRows(x, y, z) == [logs |-> <<Logged(x), Logged(y), Logged(z), Logged(x), Logged(y)>>]
MathCalls == {[op |-> "score", env |-> "math", verifier |-> v, workers |-> w, extracting |-> e,
               logs |-> MathRows(x, y, z).logs,
               truths |-> <<<<"4", "2">>, <<"7">>, <<"4", "2">>, <<"1", "3">>, <<"4", "2">>>>] :
                v \in {"hf", "dapo", "unknown"}, w \in {1, 2, 4, 5, 7}, e \in BOOLEAN,
                x, y \in Answers1, z \in {<< <<"4", "2">> >>, << <<"1", "3">> >>}}
Mark(lang, script, small, letter) == [lang |-> lang, script |-> script, small |-> small, letter |-> letter]
Marks == {<<Mark(1, "latin", FALSE, "A")>>, <<Mark(1, "latin", FALSE, "E"), Mark(1, "latin", FALSE, "A")>>,
          <<Mark(2, "latin", FALSE, "B"), Mark(1, "latin", FALSE, "A")>>, <<Mark(1, "arabic", FALSE, "A")>>,
          <<Mark(1, "latin", TRUE, "A")>>, <<>>}
ChoiceCalls == {[op |-> "score", env |-> "math", verifier |-> v, workers |-> w, extracting |-> e,
                 logs |-> <<Logged(x), Logged(y)>>, truths |-> << <<"A">>, <<"B">> >>] :
                  v \in {"english", "multilingual"}, w \in {1, 3}, e \in BOOLEAN, x, y \in Marks}
Words == {<<"x">>, <<"x", "y">>, <<"y", "x">>, <<>>, <<"x", "x">>, <<"z", "x", "y">>}
JaccardCalls == {[op |-> "score", env |-> "jaccard", workers |-> w, truths |-> <<t, <<"x", "y">>, t>>,
                  logs |-> <<Logged(x), Logged(y), Logged(t)>>] : w \in {1, 2}, t, x, y \in Words}
Boxes == {<<>>, <<0, 0, 2, 2>>, <<1, 1, 2, 2>>, <<1, 0, 3, 1>>, <<2, 2, 0, 0>>}
Seen == {r \in [thinks : BOOLEAN, answers : BOOLEAN, text : {<<"4">>, <<"5">>, Slow}, box : Boxes] :
           ~r.answers => r.text = <<"4">> /\ r.box = <<>>}
Reward(name, n) == [name |-> name, weight |-> n]
VlmCalls == {[op |-> "score", env |-> "vlm", functions |-> f, workers |-> 2, responses |-> <<x, x>>,
              truths |-> <<[text |-> <<"4">>, box |-> <<0, 0, 2, 2>>], [text |-> <<"5">>, box |-> <<1, 1, 2, 2>>]>>] :
               f \in {<<>>, <<Reward("format", 1), Reward("exact_alnum", 3)>>,
                      <<Reward("math_expr", 2)>>, <<Reward("format", 1), Reward("bbox_giou", 4)>>}, x \in Seen}
RewardCalls == {[op |-> "score", env |-> "reward_model", conversations |-> <<x, y>>, template |-> t] :
                  x, y \in Conversations, t \in {"turns", "bare"}}

Do(what, x) == [do |-> what, var |-> x, value |-> "one"]
Programs == {<<Do("set", "x"), Do("read", "x")>>, <<Do("read", "y")>>, <<Do("set", "x"), Do("escape", "f"), Do("set", "y")>>,
             <<Do("write", "f"), Do("import", "os"), Do("write", "g")>>,
             <<Do("set", "x"), [do |-> "set", var |-> "x", value |-> "range"], Do("write", "f")>>,
             <<[do |-> "set", var |-> "x", value |-> "range"], Do("set", "x"), Do("read", "x")>>}
CodeRows == {r \in [kind : {"none", "broken", "program"}, program : Programs, shows : BOOLEAN,
                    context : {<<>>, [y |-> "two"]}, dir : {"d", "e"}] :
               /\ r.kind # "program" => r.program = <<Do("read", "y")>> /\ r.shows
               /\ r.shows => Last(r.program).do = "read"
               /\ r.dir = "e" => r.kind = "program"}
CodeCalls == {[op |-> "code", workers |-> w, onEvaluation |-> e, rows |-> <<x, y>>] :
                w \in {1, 3}, e \in BOOLEAN, x \in CodeRows,
                y \in {r \in CodeRows : r.dir = "d" /\ (r.shows \/ r.context = <<>>)}}

Word(w) == [word |-> w, place |-> <<>>]
Moves(n) == {Word(w) : w \in {"up", "down", "left", "right", "view"}}
            \cup {[word |-> "slide", place |-> p] : p \in {<<>>, <<1, n>>, <<n, n - 1>>, <<n + 1, n>>}}
Open == Word("<action>")
Close == Word("</action>")
Acts(n) == {<<Open, m, Close>> : m \in Moves(n)}
           \cup {<<Open, Word("up")>>, <<Open, Word("up"), Close, Open, Word("left"), Close>>,
                 <<Close, Open, Word("left"), Word("left"), Close>>}
Start1 == {<<>>, <<0>>, <<1, 1>>, <<0, 0, 1>>}
PuzzleCalls == {[op |-> "puzzle", size |-> 2, choices |-> c, messages |-> <<x, y, z>>, max |-> 2] :
                  c \in Start1, x, y \in Acts(2),
                  z \in {<<Open, Word(w), Close>> : w \in {"up", "left"}}}
               \cup {[op |-> "puzzle", size |-> 3, choices |-> c, messages |-> <<x, y>>, max |-> 5] :
                  c \in {<<1, 0, 2>>, <<0, 1, 1, 2, 3>>}, x, y \in Acts(3)}

Prompt(text, truth, tests) == [text |-> text, truth |-> truth, tests |-> tests]
Datasets(n) == {<<Prompt(<<"p">>, <<"4", "2">>, SubSeq(<<x, y, z>>, 1, n)), Prompt(<<"q">>, <<"7">>, SubSeq(<<y, y, x>>, 1, n)),
                 Prompt(<<"r">>, <<"1", "3">>, SubSeq(<<z, x, y>>, 1, n))>> : x, y \in Answers1 \ {<<>>}, z \in {<< <<"4", "2">> >>, << <<"1", "3">> >>}}
EvalCfgs == {c \in [metric : {"pass@k", "cons@k"}, n : {1, 3}, k : 0 .. 3, temperature : {0, 1}, topK : {-1},
                    backend : {"vllm"}, batch : {-1, 2}, workers : {2}, async : BOOLEAN,
                    order : {"reversed"}, verifier : {"hf", "dapo"}] :
               /\ c.temperature = 0 => c.k = 1
               /\ c.k = 0 => c.n = 1 /\ c.async
               /\ c.verifier = "dapo" => c.metric = "pass@k"
               /\ c.async <=> c.batch = 2}
EvalCalls == UNION {{[op |-> "eval", cfg |-> c, dataset |-> d] : d \in Datasets(c.n)} : c \in EvalCfgs}

ScoreCalls == MathCalls \cup ChoiceCalls \cup JaccardCalls \cup VlmCalls \cup RewardCalls \cup CodeCalls
              \cup PuzzleCalls \cup EvalCalls

MCCalls == ScoreCalls \cup AttachCalls \cup SetupCalls \cup OnRow("logprobs") \cup OnRow("grads") \cup DTensorCalls \cup DistillCalls \cup DistillGradCalls \cup PackCalls
           \cup LossCalls \cup RangeCalls \cup BaselineCalls \cup WarmupCalls
           \cup SftCalls \cup GrpoCalls \cup PreferenceCalls \cup ProcessCalls
=============================================================================
