------------------------------ MODULE Environments ------------------------------
(***************************************************************************)
(* The environments that score a batch of conversations in one step: the   *)
(* rows are dealt to a pool of workers and their results put together      *)
(* again.  A response is the sequence of what the (external) parsers find  *)
(* in the assistant's messages; an answer is a tuple of symbols, <<>> for  *)
(* None.                                                                   *)
(***************************************************************************)
EXTENDS MessageLogs

Raised == [raised |-> TRUE]
Nothing == <<>>

(* Mutant: rows are dealt by turns. *)
ChunksByTurns(list, workers) ==
  [w \in 1 .. workers |-> [i \in 1 .. (Len(list) + workers - w) \div workers |-> list[(i - 1) * workers + w]]]

(* chunk_list_to_workers. *)
Chunks(list, workers) ==
  LET n == Len(list)
      size == (n + workers - 1) \div workers
  IN  IF n <= workers THEN [w \in 1 .. workers |-> IF w <= n THEN <<list[w]>> ELSE <<>>]
      ELSE [w \in 1 .. (n + size - 1) \div size |-> SubSeq(list, (w - 1) * size + 1, Min({w * size, n}))]

(* What the workers return for their chunks, one after the other. *)
Dealt(xs, ys, workers, Work(_, _)) ==
  LET a == Chunks(xs, workers)
      b == Chunks(ys, workers)
  IN  FlattenSeq([w \in DOMAIN a |-> Work(a[w], b[w])])

Response(log) == FlattenSeq([i \in DOMAIN log |-> IF log[i].role = "assistant" THEN log[i].content ELSE <<>>])

-----------------------------------------------------------------------------
(* The verifiers of the math environment; one appends to two lists, so a   *)
(* row's verdict is the pair of what it appends.  math_verify (external)   *)
(* finds the response's answers, runs out of time, or cannot print what it *)
(* found.                                                                  *)

Slow == <<"slow">>
Unprintable == <<"unprintable">>
Parsed(response) == SelectSeq(response, LAMBDA x : x \notin {Slow, Unprintable})
Point(b) == IF b THEN 1 ELSE 0
Verdict(scores, answers) == [scores |-> scores, answers |-> answers]

(* What may fail after the score was appended appends a second one. *)
HfVerdict(response, truth, extracting) ==
  LET found == Parsed(response)
      right == truth \in Range(found)
  IN  CASE Slow \in Range(response) -> Verdict(<<0>>, <<Nothing>>)
        [] Slow \notin Range(response) /\ ~extracting -> Verdict(<<Point(right)>>, <<>>)
        [] Slow \notin Range(response) /\ extracting ->
             IF found = <<>> \/ Unprintable \in Range(response)
             THEN Verdict(<<Point(right), 0>>, <<Nothing>>)
             ELSE Verdict(<<Point(right)>>, <<IF right THEN truth ELSE <<found[1][1]>> >>)

(* dapo_math_verify: the last answer counts.  It is a text, so that taking *)
(* it apart as (golds, predictions) succeeds for two characters alone.     *)
DapoVerdict(response, truth, extracting) ==
  LET pred == IF response = <<>> THEN <<"i", "n", "v">> ELSE Last(response)
      score == Point(pred = truth)
  IN  CASE ~extracting -> Verdict(<<score>>, <<>>)
        [] extracting /\ Len(pred) = 2 -> Verdict(<<score>>, << <<pred[2]>> >>)
        [] extracting /\ Len(pred) # 2 -> Verdict(<<score, 0>>, <<Nothing>>)

(* Multiple choice.  A response holds letters after the word for "answer"  *)
(* of a language; letters of other scripts stand for Latin ones.           *)
Letter(mark) == IF mark.script = "latin" /\ mark.small THEN <<"small", mark.letter>> ELSE <<mark.letter>>
FirstOf(marks) == IF marks = <<>> THEN Nothing ELSE Letter(marks[1])

MultilingualAnswer(response) ==
  LET readable == SelectSeq(response, LAMBDA m : m.letter \in {"A", "B", "C", "D"})
      first == Min({readable[i].lang : i \in DOMAIN readable} \cup {99})
  IN  FirstOf(SelectSeq(readable, LAMBDA m : m.lang = first))

EnglishAnswer(response) == FirstOf(SelectSeq(response, LAMBDA m : m.lang = 1 /\ m.script = "latin"))

Choice(answer, truth) == Verdict(<<Point(answer = truth)>>, <<answer>>)

Verify(verifier, response, truth, extracting) ==
  CASE verifier = "hf" -> HfVerdict(response, truth, extracting)
    [] verifier = "dapo" -> DapoVerdict(response, truth, extracting)
    [] verifier = "multilingual" -> Choice(MultilingualAnswer(response), truth)
    [] verifier = "english" -> Choice(EnglishAnswer(response), truth)
    [] verifier = "unknown" -> Verdict(<<0>>, <<Nothing>>)

(* MathEnvironment.step. *)
MathStep(verifier, workers, logs, truths, extracting) ==
  LET worker(rs, gs) == [i \in DOMAIN rs |-> Verify(verifier, rs[i], gs[i], extracting)]
      verdicts == Dealt([b \in DOMAIN logs |-> Response(logs[b])], truths, workers, worker)
  IN  [rewards |-> FlattenSeq([i \in DOMAIN verdicts |-> verdicts[i].scores]),
       answers |-> IF extracting THEN FlattenSeq([i \in DOMAIN verdicts |-> verdicts[i].answers]) ELSE <<>>]

-----------------------------------------------------------------------------
(* CodeJaccardEnvironment.step: shared words over all words, times the     *)
(* shorter over the longer length in characters, as a fraction.            *)
Characters(words) == Max({0, 2 * Len(words) - 1})

Jaccard(response, truth) ==
  LET a == Range(response)
      b == Range(truth)
      short == Min({Characters(response), Characters(truth)})
      long == Max({Characters(response), Characters(truth), 1})
  IN  IF response = truth THEN <<1, 1>>
      ELSE IF b = {} THEN <<0, 1>>
      ELSE <<Cardinality(a \cap b) * short, Cardinality(a \cup b) * long>>

JaccardStep(workers, logs, truths) ==
  Dealt([b \in DOMAIN logs |-> Response(logs[b])], truths, workers,
        LAMBDA rs, gs : [i \in DOMAIN rs |-> Jaccard(rs[i], gs[i])])

-----------------------------------------------------------------------------
(* VLMEnvironment: a weighted mean of reward functions, fractions in which *)
(* a thousandth is the least area.                                         *)

Span(a, b) == Max({0, b - a})
Area(a) == IF a > 0 THEN a * 1000 ELSE 1
Signed(box) == (box[3] - box[1]) * (box[4] - box[2])

GIoU(g, r) ==
  LET common == Span(Max({g[1], r[1]}), Min({g[3], r[3]})) * Span(Max({g[2], r[2]}), Min({g[4], r[4]}))
      union == Area(Signed(g) + Signed(r) - common)
      hull == Area((Max({g[3], r[3]}) - Min({g[1], r[1]})) * (Max({g[4], r[4]}) - Min({g[2], r[2]})))
  IN  <<1000 * common * hull - (hull - union) * union, union * hull>>

(* A response: whether it thinks, whether it answers, and what. *)
RewardOf(name, response, truth) ==
  CASE name = "format" -> <<Point(response.thinks) + 3 * Point(response.answers), 4>>
    [] name = "exact_alnum" -> <<Point(response.answers /\ response.text = truth.text), 1>>
    [] name = "math_expr" -> <<Point(response.answers /\ response.text # Slow /\ response.text = truth.text), 1>>
    [] name = "bbox_giou" -> IF response.answers /\ Len(response.box) = 4 THEN GIoU(truth.box, response.box)
                             ELSE <<0, 1>>

(* combine_reward_functions: the fractions over one denominator. *)
Combined(functions, response, truth) ==
  LET n == DOMAIN functions
      part(i) == RewardOf(functions[i].name, response, truth)
      others(i) == FoldSet(LAMBDA j, product : part(j)[2] * product, 1, n \ {i})
      weights == MapThenSumSet(LAMBDA i : functions[i].weight, n)
  IN  <<MapThenSumSet(LAMBDA i : functions[i].weight * part(i)[1] * others(i), n),
        weights * others(0)>>

VlmStep(functions, workers, responses, truths) ==
  IF functions = <<>> THEN Raised
  ELSE [rewards |-> Dealt(responses, truths, workers,
          LAMBDA rs, gs : [i \in DOMAIN rs |-> Combined(functions, rs[i], gs[i])])]

-----------------------------------------------------------------------------
(* RewardModelEnvironment.step: the (external) model scores the tokens of  *)
(* a row up to its length; the score is named by them.                     *)
RewardModelStep(conversations, template, pad) ==
  LET batch == FlatBatch([b \in DOMAIN conversations |->
                 Formatted(conversations[b], template, TRUE, TRUE, FALSE)], 1, pad)
  IN  [b \in DOMAIN conversations |-> SubSeq(batch.fields.token_ids[b], 1, batch.lengths[b])]

-----------------------------------------------------------------------------
(* CodeEnvironment.  A program is a sequence of statements; `shows` says   *)
(* that the last one is an expression.  A row has the variables of its own *)
(* earlier programs and a working directory.                               *)

Fails(row, i) ==
  LET s == row.program[i]
      known == DOMAIN row.context \cup {row.program[j].var : j \in {k \in 1 .. i - 1 : row.program[k].do = "set"}}
  IN  \/ s.do = "read" /\ s.var \notin known
      \/ s.do = "escape" \/ s.do = "import"     \* safe_open, safe_import

(* The statements that took effect: all before the first that fails. *)
Effective(row) ==
  LET bad == {i \in DOMAIN row.program : Fails(row, i)}
  IN  IF bad = {} THEN row.program ELSE SubSeq(row.program, 1, Min(bad) - 1)

ContextAfter(row) ==
  LET done == Effective(row)
      sets(x) == {i \in DOMAIN done : done[i].do = "set" /\ done[i].var = x}
      set == {done[i].var : i \in {j \in DOMAIN done : done[j].do = "set"}}
  IN  [x \in DOMAIN row.context \cup set |->
         IF sets(x) = {} THEN row.context[x] ELSE done[Max(sets(x))].value]

Written(row) == {<<row.dir, Effective(row)[i].var>> : i \in {j \in DOMAIN Effective(row) : Effective(row)[j].do = "write"}}

Silent(row) == [terminated |-> FALSE, context |-> row.context, files |-> {}, result |-> "nothing"]
Execute(row) ==
  LET whole == Effective(row) = row.program
      shown == whole /\ row.shows
  IN  IF row.kind = "none" THEN Silent(row)
      ELSE [terminated |-> shown, context |-> ContextAfter(row), files |-> Written(row),
            result |-> IF ~whole THEN "error" ELSE IF shown THEN "value" ELSE "nothing"]

(* A program that does not parse raises outside the try, and so does a     *)
(* variable that sanitize cannot build again from its items (a range).     *)
Breaks(row) == row.kind = "broken" \/ "range" \in Range(Execute(row).context)

CodeStep(workers, onEvaluation, rows) ==
  IF \E b \in DOMAIN rows : Breaks(rows[b]) THEN Raised
  ELSE LET done == Dealt(rows, rows, workers, LAMBDA rs, same : [i \in DOMAIN rs |-> Execute(rs[i])])
       IN  [rows |-> [b \in DOMAIN done |-> [done[b] EXCEPT !.terminated = onEvaluation /\ @]]]
=============================================================================
