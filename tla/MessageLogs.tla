------------------------------ MODULE MessageLogs ------------------------------
(***************************************************************************)
(* Conversations on their way to tensors: a datum is tokenized and cut to  *)
(* the longest allowed length, a conversation is cut into the chunks its   *)
(* chat template renders per message, messages get their per-token loss    *)
(* mask, advantage and log probabilities, and a batch is flattened into    *)
(* rows of one width.  A message is a record of per-token tuples; which    *)
(* fields it has differs from message to message.  A text is a sequence of *)
(* symbols, and the tokenizer makes one token of each.                     *)
(***************************************************************************)
EXTENDS Integers, Sequences, SequencesExt, FiniteSetsExt, TLC

Start(role) == <<"start", role>>
Bos == <<"bos">>
Eos == <<"eos">>
Newline == <<"newline">>

Fill(s, x) == [i \in DOMAIN s |-> x]
Total(log) == Len(FlattenSeq([i \in DOMAIN log |-> log[i].token_ids]))

-----------------------------------------------------------------------------
(* Chat templates (external): every message between its header and an end  *)
(* of turn, or the bare contents.  Both render a longer conversation as a  *)
(* continuation of the shorter one.                                        *)
Render(template, conversation, prompt) ==
  LET turn(m) == IF template = "turns" THEN <<Start(m.role)>> \o m.content \o <<Eos, Newline>>
                 ELSE m.content
  IN  FlattenSeq([i \in DOMAIN conversation |-> turn(conversation[i])])
      \o (IF template = "turns" /\ prompt THEN <<Start("assistant")>> ELSE <<>>)

FirstDifference(s, t) ==
  LET n == Min({Len(s), Len(t)})
  IN  Min({i - 1 : i \in {j \in 1 .. n : s[j] # t[j]}} \cup {n})

RECURSIVE WithoutNewlines(_)
WithoutNewlines(s) == IF s # <<>> /\ Last(s) = Newline THEN WithoutNewlines(Front(s)) ELSE s

WithBos(text) == IF text # <<>> /\ Head(text) = Bos THEN text ELSE <<Bos>> \o text
WithEos(text) ==
  LET body == WithoutNewlines(text)
  IN  IF body # <<>> /\ Last(body) = Eos THEN text ELSE Append(text, Eos)

(* get_formatted_message_log: each message's chunk is what the render up   *)
(* to it has beyond the first difference from the render before.           *)
Formatted(conversation, template, bos, eos, prompt) ==
  LET render(i) == IF i = 0 THEN <<>>
        ELSE Render(template, SubSeq(conversation, 1, i),
                    prompt /\ conversation[i].role \in {"user", "tool"})
      chunk(i) == LET d == FirstDifference(render(i - 1), render(i))
                  IN  SubSeq(render(i), d + 1, Len(render(i)))
      ends(i) == LET c == IF i = 1 /\ bos THEN WithBos(chunk(1)) ELSE chunk(i)
                 IN  IF i = Len(conversation) /\ eos THEN WithEos(c) ELSE c
  IN  [i \in DOMAIN conversation |-> [role |-> conversation[i].role, token_ids |-> ends(i)]]

-----------------------------------------------------------------------------
(* The processors: a prompt that is too long is cut and counts for nothing *)
(* in the loss.  helpsteer3 puts the whole conversation into the first     *)
(* message; multichoice never cuts.                                        *)
Cut(log, each) == [i \in DOMAIN log |->
  [log[i] EXCEPT !.token_ids = SubSeq(@, 1, Min({each, Len(@)}))]]

ProcessMath(log, max) ==
  IF Total(log) > max
  THEN [log |-> Cut(log, Min({4, max \div Len(log)})), loss_multiplier |-> 0]
  ELSE [log |-> log, loss_multiplier |-> 1]

ProcessHelpSteer(log, max) ==
  LET all == FlattenSeq([i \in DOMAIN log |-> log[i].token_ids])
      first == [i \in DOMAIN log |-> [log[i] EXCEPT !.token_ids = IF i = 1 THEN all ELSE <<>>]]
  IN  IF Len(all) > max THEN [log |-> Cut(first, max \div Len(log)), loss_multiplier |-> 0]
      ELSE [log |-> first, loss_multiplier |-> 1]

ProcessMultichoice(log) == [log |-> log, loss_multiplier |-> 1]

-----------------------------------------------------------------------------
(* add_loss_mask_to_message_log, and what grpo_train adds per message: the *)
(* reply tokens count, and a message without log probabilities gets zeros. *)
LossMask(log, onlyFinal) == [i \in DOMAIN log |->
  ("token_loss_mask" :>
     Fill(log[i].token_ids,
          IF (IF onlyFinal THEN i = Len(log) ELSE log[i].role = "assistant") THEN 1 ELSE 0)) @@ log[i]]

(* Mutant: messages without log probabilities stay without. *)
GrpoFieldsUnfilled(log, advantage) ==
  LET masked == LossMask(log, FALSE)
  IN  [i \in DOMAIN masked |-> masked[i] @@ ("advantages" :> Fill(masked[i].token_ids, advantage))]

GrpoFields(log, advantage) ==
  LET masked == LossMask(log, FALSE)
  IN  [i \in DOMAIN masked |->
         masked[i] @@ ("generation_logprobs" :> Fill(masked[i].token_ids, 0))
                   @@ ("advantages" :> Fill(masked[i].token_ids, advantage))]

(* Overlong filtering: a truncated sample does not count. *)
SampleMask(multiplier, truncated, filtering) ==
  IF filtering /\ truncated THEN 0 ELSE multiplier

-----------------------------------------------------------------------------
(* message_log_to_flat_messages: per field, the tuples of the messages     *)
(* that have it, in order.                                                 *)
Tensors(m) == DOMAIN m \ {"role", "content"}

Flat(log) ==
  [k \in UNION {Tensors(log[i]) : i \in DOMAIN log} |->
     FlattenSeq([i \in DOMAIN log |-> IF k \in DOMAIN log[i] THEN log[i][k] ELSE <<>>])]

(* batched_message_log_to_flat_message: rows of one width, the longest     *)
(* tuple of any field rounded up; a field the first row lacks is not       *)
(* padded.                                                                 *)
Longest(flat) == Max({Len(flat[k]) : k \in DOMAIN flat} \cup {0})

Width(flats, divisor) ==
  LET most == Max({Longest(flats[b]) : b \in DOMAIN flats})
  IN  IF most % divisor # 0 THEN (most \div divisor + 1) * divisor ELSE most

PadRight(s, n, x) == s \o [i \in 1 .. n - Len(s) |-> x]

FlatBatch(logs, divisor, pad) ==
  LET flats == [b \in DOMAIN logs |-> Flat(logs[b])]
      field(b, k) == IF k \in DOMAIN flats[b] THEN flats[b][k] ELSE <<>>
      rows(k) == [b \in DOMAIN logs |->
        IF k \in DOMAIN flats[1]
        THEN PadRight(field(b, k), Width(flats, divisor), IF k = "token_ids" THEN pad ELSE 0)
        ELSE field(b, k)]
  IN  [fields |-> [k \in UNION {DOMAIN flats[b] : b \in DOMAIN flats} |-> rows(k)],
       lengths |-> [b \in DOMAIN logs |-> Longest(flats[b])]]

-----------------------------------------------------------------------------
(* The batches of the training loops.                                      *)

WithMask(batch, mask) == [batch EXCEPT !.fields = @ @@ ("sample_mask" :> mask)]

GrpoBatch(samples, filtering, divisor, pad) ==
  WithMask(
    FlatBatch([b \in DOMAIN samples |-> GrpoFields(samples[b].log, samples[b].advantage)], divisor, pad),
    [b \in DOMAIN samples |->
       SampleMask(samples[b].loss_multiplier, samples[b].truncated, filtering)])

SftBatch(conversations, template, prompt, divisor, pad) ==
  FlatBatch([b \in DOMAIN conversations |->
    LossMask(Formatted(conversations[b], template, TRUE, TRUE, prompt), FALSE)], divisor, pad)

(* preference_collate_fn: chosen and rejected take turns, only the last    *)
(* message counts, both have the pair's multiplier.                        *)
Interleaved(pairs) ==
  FlattenSeq([i \in DOMAIN pairs |-> <<pairs[i].chosen, pairs[i].rejected>>])

PreferenceBatch(pairs, divisor, pad) ==
  LET logs == Interleaved(pairs)
  IN  WithMask(
        FlatBatch([b \in DOMAIN logs |-> LossMask(logs[b], TRUE)], divisor, pad),
        FlattenSeq([i \in DOMAIN pairs |-> <<pairs[i].loss_multiplier, pairs[i].loss_multiplier>>]))

=============================================================================
