----------------------------- MODULE RolloutTokens -----------------------------
(***************************************************************************)
(* The token identifiers of a conversation held over the HTTP server:      *)
(* NeMo-Gym sends text, the server renders it with the chat template and   *)
(* puts back the tokens the model has really seen and generated, so that   *)
(* one turn's tokens are a prefix of the next turn's.                      *)
(* A text is a sequence of atoms and a token a sequence of them: the       *)
(* tokenizer writes two equal neighbours as one token, the model may       *)
(* generate them as two.                                                   *)
(***************************************************************************)
EXTENDS Integers, Sequences, FiniteSetsExt, SequencesExt

Eos == <<"eos">>
Header(role) == <<role>>

(* External: the tokenizer.                                                *)
Merge(tokens, atom) ==
  IF tokens # <<>> /\ Last(tokens) = <<atom>>
  THEN Append(Front(tokens), <<atom, atom>>) ELSE Append(tokens, <<atom>>)

Tokenize(text) == FoldLeft(Merge, <<>>, text)

(* External: the chat template: a header for the role, the text, an end.   *)
RenderOne(message) == <<Header(message.role)>> \o Tokenize(message.text) \o <<Eos>>
Render(messages) == FlattenSeq([k \in DOMAIN messages |-> RenderOne(messages[k])])

(* The last place of an end of message within the first n tokens.          *)
LastEos(tokens, n) == Max({0} \cup {k \in 1 .. n : tokens[k] = Eos})

(* Mutant: the first end of message is taken. *)
ReplacePrefixFirst(model, prefix, template) ==
  LET kept == IF Last(model) = Eos THEN Front(model) ELSE model
  IN kept \o SubSeq(template, Min({k \in DOMAIN template : template[k] = Eos}), Len(template))

(* _replace_prefix_tokens *)
ReplacePrefix(model, prefix, template) ==
  LET kept == IF Last(model) = Eos THEN Front(model) ELSE model
  IN kept \o SubSeq(template, LastEos(template, Len(prefix)), Len(template))

(* _preprocess_chat: the messages up to the last answer are rendered again *)
(* to find where the template's tokens of the new messages begin.          *)
LastAnswer(messages) ==
  Max({0} \cup {k \in DOMAIN messages : messages[k].role = "assistant"})

PromptTokens(messages, seen) ==
  LET template == Render(messages) \o <<Header("assistant")>>
      known == LastAnswer(messages)
  IN IF seen = <<>> THEN template
     ELSE ReplacePrefix(seen,
            Render(IF known = 0 THEN messages ELSE SubSeq(messages, 1, known)), template)
=============================================================================
