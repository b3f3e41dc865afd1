-------------------------------- MODULE Rollouts --------------------------------
(***************************************************************************)
(* The rollouts of experience/rollouts.py: all samples in lock step with   *)
(* the synchronous engine ("batch"), every sample by itself with the       *)
(* asynchronous one ("async"), and conversations that NeMo-Gym leads over  *)
(* HTTP ("gym").                                                           *)
(*                                                                         *)
(* A message log is an object the batch and its selections share, so logs  *)
(* live in a heap and a row holds a reference.  The engine and the         *)
(* environments know a sample only by what they are handed: answers and    *)
(* observations carry the sample named in the log's first message, and     *)
(* what the environment sends back continues the extra_env_info it got.    *)
(***************************************************************************)
EXTENDS RolloutTokens, FiniteSets, BatchSharding

CONSTANTS
  Batches,      \* mode -> the batches to try: the task and the length of every prompt,
                \* and how many samples each prompt has (num_generations_per_prompt)
  MaxLen,       \* max_seq_len and the engine's max_model_len
  MaxNew,       \* max_new_tokens
  MaxTurns,     \* max_rollout_turns; also bounds the calls of a conversation
  NumShards,    \* data parallel size of the engine
  Replies,      \* what an environment may say: obs (tokens), end, info, stops, reward
  MayFail,      \* an engine call or an environment may fail, once
  Generations   \* gym: the tokens the model may generate

ASSUME RolloutAssumption ==
  /\ {MaxLen, MaxNew, MaxTurns, NumShards} \subseteq Nat \ {0}
  /\ MayFail \in BOOLEAN
  /\ \A b \in UNION {Batches[m] : m \in DOMAIN Batches} :
       b.rows \in Seq(Range(b.rows)) /\ b.gen \in Nat \ {0} /\ \A i \in DOMAIN b.rows : b.rows[i].len \in 1 .. MaxLen
  /\ \A r \in Replies : r.obs \in Nat /\ r.end \in BOOLEAN /\ r.reward \in Int
  /\ \A g \in Generations :
       g \in Seq(Seq(STRING)) /\ \A k \in DOMAIN g : g[k] \notin {Header("user"), Header("assistant")}

VARIABLES
  mode, task, phase, failures,
  heap, ref,    \* the logs, and which of them a sample has
  stops, info,  \* current_stop_strings, extra_env_info
  total, terminated, truncated, maxed, turns,
  active, view, outs, replies,          \* batch: active_indices, active_batch, results
  asked, served,                        \* what engine and environments have seen
  chat, arrived, results                \* gym

loop == <<active, view, outs, replies>>
sample == <<heap, ref, stops, info, total, terminated, truncated, maxed, turns>>
gym == <<chat, arrived, results>>
vars == <<mode, task, phase, failures, sample, loop, asked, served, gym>>

Samples == DOMAIN task
Size(messages) == MapThenSumSet(LAMBDA k : messages[k].len, DOMAIN messages)
Turn(messages) == Cardinality({k \in DOMAIN messages : messages[k].role = "assistant"})

-----------------------------------------------------------------------------
(* repeat_interleave: every prompt gen times, each with its own copy.      *)

Copy(b) == [s \in 1 .. Len(b.rows) * b.gen |-> s]

PromptOf(b, s) == b.rows[((s - 1) \div b.gen) + 1]
User(s, len) == [role |-> "user", of |-> s, turn |-> 0, len |-> len]

Init ==
  \E m \in DOMAIN Batches : \E b \in Batches[m] :
    LET all == DOMAIN Copy(b)
    IN /\ mode = m
       /\ task = [s \in all |-> PromptOf(b, s).task]
       /\ heap = [s \in all |-> <<User(s, PromptOf(b, s).len)>>]
       /\ ref = Copy(b)
       /\ stops = [s \in all |-> {<<s, 0>>}]
       /\ info = [s \in all |-> [of |-> s, step |-> 0]]
       /\ total = [s \in all |-> 0] /\ turns = [s \in all |-> 0]
       /\ terminated = [s \in all |-> FALSE] /\ truncated = [s \in all |-> FALSE]
       /\ maxed = [s \in all |-> FALSE]
       /\ phase = IF m = "batch" THEN "select" ELSE "concurrent"
       /\ active = [s \in all |-> s] /\ view = <<>> /\ outs = <<>> /\ replies = <<>>
       /\ asked = [s \in all |-> <<>>] /\ served = [s \in all |-> <<>>]
       /\ chat = [s \in all |-> [messages |-> <<[role |-> "user", text |-> <<"u">>]>>,
                                 calls |-> <<>>]]
       /\ arrived = <<>> /\ results = <<>> /\ failures = 0

-----------------------------------------------------------------------------
(* The engine and the environments, external.                              *)

Room(messages) == Max({0, Min({MaxNew, MaxLen - Size(messages)})})

(* generate: an answer to what the row's log says, no longer than the room *)
(* in the model's context.                                                 *)
AnswerTo(messages, len) ==
  [role |-> "assistant", of |-> Head(messages).of, turn |-> Turn(messages) + 1, len |-> len]

Lengths(messages) == IF Room(messages) = 0 THEN {0} ELSE 1 .. Room(messages)

(* _merge_stop_strings, over the rows of one request.                      *)
Merged(rowStops) == UNION rowStops

(* step: the observation, the next info and stop strings, the reward.      *)
Feedback(messages, given, r) ==
  [obs |-> r.obs, end |-> r.end, reward |-> r.reward,
   of |-> Head(messages).of, turn |-> Turn(messages),
   info |-> IF r.info THEN <<[given EXCEPT !.step = @ + 1]>> ELSE <<>>,
   stops |-> IF r.stops THEN {<<Head(messages).of, Turn(messages)>>} ELSE {}]

(* What the environment has seen of a sample.                              *)
Record(messages, given, feedback) ==
  served' = [served EXCEPT ![Head(messages).of] =
               Append(@, [turn |-> Turn(messages), given |-> given, said |-> feedback])]

Observation(feedback, len) ==
  [role |-> "environment", of |-> feedback.of, turn |-> feedback.turn, len |-> len]

(* An observation that does not fit is cut to the tokens left, and the     *)
(* sample is truncated.                                                    *)
Overflows(messages, feedback) == Size(messages) + feedback.obs >= MaxLen

(* Mutant: the answer is left out of the length. *)
CutForgetful(messages, feedback) ==
  IF Overflows(messages, feedback) THEN Max({0, MaxLen - Size(Front(messages))}) ELSE feedback.obs

Cut(messages, feedback) ==
  IF Overflows(messages, feedback) THEN Max({0, MaxLen - Size(messages)}) ELSE feedback.obs

-----------------------------------------------------------------------------
(* run_multi_turn_rollout                                                  *)

ActiveBatch ==
  [k \in DOMAIN active |->
     [log |-> ref[active[k]], stops |-> stops[active[k]],
      info |-> info[active[k]], task |-> task[active[k]]]]

MoreTurns == active # <<>> /\ turns[active[1]] < MaxTurns

Select ==
  /\ mode = "batch" /\ phase = "select"
  /\ MoreTurns
  /\ view' = ActiveBatch
  /\ outs' = <<>> /\ replies' = <<>> /\ phase' = "generate"
  /\ UNCHANGED <<mode, task, failures, sample, active, asked, served, gym>>

(* VllmGeneration.generate: the rows are cut into shards, a shard is one   *)
(* request to its engine, and the results come back in shard order.        *)

ShardWith(k) ==
  LET parts == UnevenShards([i \in DOMAIN view |-> i], NumShards)
  IN CHOOSE p \in Range(parts) : k \in Range(p)

Generate ==
  /\ phase = "generate" /\ Len(outs) < Len(view)
  /\ LET k == Len(outs) + 1
         messages == heap[view[k].log]
     IN /\ \E len \in Lengths(messages) : outs' = Append(outs, AnswerTo(messages, len))
        /\ asked' = [asked EXCEPT ![Head(messages).of] =
             Append(@, Merged({view[i].stops : i \in Range(ShardWith(k))}))]
  /\ UNCHANGED <<mode, task, phase, failures, sample, active, view, replies, served, gym>>

(* generate_responses: the answers are appended to the logs of the         *)
(* selection, which are those of the batch.                                *)
Appended(rows, messages) ==
  FoldLeft(LAMBDA logs, k : [logs EXCEPT ![rows[k].log] = Append(@, messages[k])],
           heap, [k \in DOMAIN rows |-> k])

Respond ==
  /\ phase = "generate" /\ Len(outs) = Len(view)
  /\ heap' = Appended(view, outs)
  /\ phase' = "feedback"
  /\ UNCHANGED <<mode, task, failures, ref, stops, info, total, terminated, truncated, maxed,
                 turns, loop, asked, served, gym>>

(* calculate_rewards: the rows by task, in the order the tasks first       *)
(* appear; the next of those left.                                         *)
NextGrouped(rows, left) ==
  LET first(k) == Min({i \in DOMAIN rows : rows[i].task = rows[k].task})
      soonest == Min({first(k) : k \in left})
  IN Min({k \in left : first(k) = soonest})

Step ==
  /\ phase = "feedback" /\ Len(replies) < Len(view)
  /\ LET k == NextGrouped(view, DOMAIN view \ {replies[i].index : i \in DOMAIN replies})
         messages == heap[view[k].log]
     IN \E r \in Replies :
          LET feedback == Feedback(messages, view[k].info, r)
          IN /\ replies' = Append(replies, [index |-> k, said |-> feedback])
             /\ Record(messages, view[k].info, feedback)
  /\ UNCHANGED <<mode, task, phase, failures, sample, active, view, outs, asked, gym>>

(* Mutant: the results are taken in the order of the groups. *)
InOrderGrouped == [k \in DOMAIN replies |-> replies[k].said]

(* The results, sorted back by the index of their row.                     *)
InOrder ==
  [k \in DOMAIN replies |-> replies[CHOOSE i \in DOMAIN replies : replies[i].index = k].said]

(* The place of the row among those that go on.                            *)
Rank(k, going) == Cardinality({j \in going : j <= k})

(* Mutant: the next infos are read at the place of the survivor. *)
ContinuingByPlace(said, k, going) == said[Rank(k, going)]

(* The feedback of the k-th active row, for a row that goes on.            *)
Continuing(said, k, going) == said[k]

Collect ==
  /\ phase = "feedback" /\ Len(replies) = Len(view)
  /\ LET said == InOrder
         place(s) == CHOOSE k \in DOMAIN active : active[k] = s
         over(k) == Overflows(heap[ref[active[k]]], said[k])
         going == {k \in DOMAIN active : ~said[k].end /\ ~over(k)}
         goes(s) == s \in Range(active) /\ place(s) \in going
         next(s) == Continuing(said, place(s), going)
     IN /\ heap' = Appended(view, [k \in DOMAIN view |->
                     Observation(said[k], Cut(heap[ref[active[k]]], said[k]))])
        /\ total' = [s \in Samples |->
             IF s \in Range(active) THEN total[s] + said[place(s)].reward ELSE total[s]]
        /\ turns' = [s \in Samples |-> IF s \in Range(active) THEN turns[s] + 1 ELSE turns[s]]
        /\ truncated' = [s \in Samples |->
             truncated[s] \/ (s \in Range(active) /\ over(place(s)))]
        /\ terminated' = [s \in Samples |->
             terminated[s] \/ (s \in Range(active) /\ ~goes(s))]
        /\ stops' = [s \in Samples |-> IF goes(s) THEN next(s).stops ELSE stops[s]]
        /\ info' = [s \in Samples |->
             IF goes(s) /\ next(s).info # <<>> THEN next(s).info[1] ELSE info[s]]
        /\ active' = [i \in 1 .. Cardinality(going) |->
             active[CHOOSE k \in going : Rank(k, going) = i]]
  /\ view' = <<>> /\ outs' = <<>> /\ replies' = <<>> /\ phase' = "select"
  /\ UNCHANGED <<mode, task, failures, ref, maxed, asked, served, gym>>

FinishBatch ==
  /\ mode = "batch" /\ phase = "select"
  /\ ~MoreTurns
  /\ maxed' = [s \in Samples |-> s \in Range(active)]
  /\ phase' = "returned"
  /\ UNCHANGED <<mode, task, failures, heap, ref, stops, info, total, terminated, truncated,
                 turns, loop, asked, served, gym>>

(* A failing engine or environment ends the rollout of the whole batch.    *)
FailBatch ==
  /\ phase \in {"generate", "feedback"} /\ MayFail
  /\ phase' = "raised" /\ failures' = 1
  /\ UNCHANGED <<mode, task, sample, loop, asked, served, gym>>

-----------------------------------------------------------------------------
(* run_async_multi_turn_rollout: one coroutine per sample.  turns[s] is    *)
(* counted before the answer, so a coroutine waits for the engine while    *)
(* its log has fewer answers than turns.                                   *)

Ended(s) == terminated[s] \/ truncated[s]
Pending(s) == turns[s] > Len(asked[s]) /\ s \notin Range(arrived)
Idle == mode = "async" /\ phase = "concurrent" /\ outs = <<>>

Begin(s) ==
  /\ Idle /\ s \notin Range(arrived) /\ ~Pending(s)
  /\ ~Ended(s) /\ turns[s] < MaxTurns
  /\ turns' = [turns EXCEPT ![s] = @ + 1]
  /\ UNCHANGED <<mode, task, phase, failures, heap, ref, stops, info, total, terminated,
                 truncated, maxed, loop, asked, served, gym>>

(* The answer arrives.  The environment's step that follows holds the      *)
(* event loop: outs names the sample, and nothing else runs.               *)
Resume(s) ==
  /\ Idle /\ Pending(s)
  /\ LET messages == heap[ref[s]]
     IN /\ \E len \in Lengths(messages) :
             heap' = [heap EXCEPT ![ref[s]] = Append(@, AnswerTo(messages, len))]
        /\ asked' = [asked EXCEPT ![Head(messages).of] = Append(@, Merged({stops[s]}))]
  /\ outs' = <<s>>
  /\ UNCHANGED <<mode, task, phase, failures, ref, stops, info, total, terminated, truncated,
                 maxed, turns, active, view, replies, served, gym>>

StepOne ==
  /\ mode = "async" /\ phase = "concurrent" /\ outs # <<>>
  /\ \E r \in Replies :
       LET s == outs[1]
           messages == heap[ref[s]]
           said == Feedback(messages, info[s], r)
           over == Overflows(messages, said)
           goes == ~said.end /\ ~over
       IN /\ Record(messages, info[s], said)
          /\ heap' = [heap EXCEPT ![ref[s]] = Append(@, Observation(said, Cut(messages, said)))]
          /\ total' = [total EXCEPT ![s] = @ + said.reward]
          /\ terminated' = [terminated EXCEPT ![s] = said.end]
          /\ truncated' = [truncated EXCEPT ![s] = over]
          /\ stops' = IF goes /\ said.stops # {} THEN [stops EXCEPT ![s] = said.stops] ELSE stops
          /\ info' = IF goes /\ said.info # <<>> THEN [info EXCEPT ![s] = said.info[1]] ELSE info
  /\ outs' = <<>>
  /\ UNCHANGED <<mode, task, phase, failures, ref, maxed, turns, active, view, replies,
                 asked, gym>>

(* The coroutine leaves its loop; arrived collects those that have.        *)
Leave(s) ==
  /\ arrived' = Append(arrived, s)
  /\ maxed' = [maxed EXCEPT ![s] = turns[s] >= MaxTurns]
  /\ UNCHANGED <<mode, task, phase, heap, ref, stops, info, total, terminated, truncated,
                 turns, loop, asked, served, chat, results>>

EndOfLoop(s) ==
  /\ Idle /\ s \notin Range(arrived) /\ ~Pending(s)
  /\ Ended(s) \/ turns[s] = MaxTurns
  /\ Leave(s) /\ UNCHANGED failures

(* An error or a timeout of the engine ends this sample's loop only; the   *)
(* sample keeps what it has.                                               *)
FailSample(s) ==
  /\ Idle /\ Pending(s)
  /\ MayFail /\ failures = 0 /\ failures' = 1
  /\ Leave(s)

(* An error of the environment is raised for the whole batch.              *)
FailRollout ==
  /\ mode = "async" /\ phase = "concurrent" /\ outs # <<>>
  /\ MayFail /\ failures = 0 /\ failures' = 1
  /\ phase' = "raised"
  /\ UNCHANGED <<mode, task, sample, loop, asked, served, gym>>

Gather ==
  /\ Idle /\ Range(arrived) = Samples
  /\ phase' = "returned"
  /\ UNCHANGED <<mode, task, failures, sample, loop, asked, served, gym>>

-----------------------------------------------------------------------------
(* run_async_nemo_gym_rollout                                              *)

Seen(calls) == IF calls = <<>> THEN <<>> ELSE Last(calls).prompt \o Last(calls).generation
Without(tokens, special) ==
  FlattenSeq([k \in DOMAIN tokens |-> IF tokens[k] \in special THEN <<>> ELSE tokens[k]])
Text(tokens) == Without(tokens, {Eos})
Special == {Eos, Header("user"), Header("assistant")}
Talking(s) == mode = "gym" /\ phase = "concurrent" /\ s \notin Range(arrived)
Spoke(s) == Last(chat[s].messages).role = "assistant"

(* The server's chat completion endpoint.                                  *)
Complete(s) ==
  /\ Talking(s) /\ ~Spoke(s) /\ Len(chat[s].calls) < MaxTurns
  /\ \E generation \in Generations :
       chat' = [chat EXCEPT ![s] =
         [messages |-> Append(@.messages, [role |-> "assistant", text |-> Text(generation)]),
          calls |-> Append(@.calls, [prompt |-> PromptTokens(@.messages, Seen(@.calls)),
                                     generation |-> generation])]]
  /\ UNCHANGED <<mode, task, phase, failures, sample, loop, asked, served, arrived, results>>

(* The agent goes on with the result of a tool or a user's message.        *)
Continue(s) ==
  /\ Talking(s) /\ Spoke(s) /\ Len(chat[s].calls) < MaxTurns
  /\ chat' = [chat EXCEPT ![s].messages = Append(@, [role |-> "user", text |-> <<"t">>])]
  /\ UNCHANGED <<mode, task, phase, failures, sample, loop, asked, served, arrived, results>>

(* The assertion on the prefix, and the log made of the calls.             *)
Contiguous(calls) ==
  \A k \in 2 .. Len(calls) :
    IsPrefix(calls[k - 1].prompt \o calls[k - 1].generation, calls[k].prompt)

GymLog(calls) ==
  FlattenSeq([k \in DOMAIN calls |->
    LET before == IF k = 1 THEN 0 ELSE Len(calls[k - 1].prompt \o calls[k - 1].generation)
    IN <<[role |-> "user", tokens |-> SubSeq(calls[k].prompt, before + 1, Len(calls[k].prompt))],
         [role |-> "assistant", tokens |-> calls[k].generation]>>])

(* run_rollouts: the results are taken as they come.                       *)
Arrive(s) ==
  /\ Talking(s) /\ Spoke(s)
  /\ IF Contiguous(chat[s].calls)
     THEN /\ results' = Append(results, GymLog(chat[s].calls))
          /\ arrived' = Append(arrived, s) /\ UNCHANGED phase
     ELSE phase' = "raised" /\ UNCHANGED <<results, arrived>>
  /\ UNCHANGED <<mode, task, failures, sample, loop, asked, served, chat>>

(* The results at the index their row was given.                           *)
ByRow == [s \in Samples |-> results[CHOOSE k \in DOMAIN arrived : arrived[k] = s]]

GatherGym ==
  /\ mode = "gym" /\ phase = "concurrent" /\ Range(arrived) = Samples
  /\ results' = ByRow /\ phase' = "returned"
  /\ UNCHANGED <<mode, task, failures, sample, loop, asked, served, chat, arrived>>

-----------------------------------------------------------------------------
Over == phase \in {"returned", "raised"} /\ UNCHANGED vars

Batch == Select \/ Generate \/ Respond \/ Step \/ Collect \/ FinishBatch \/ FailBatch
Async == \/ \E s \in Samples : Begin(s) \/ Resume(s) \/ EndOfLoop(s) \/ FailSample(s)
         \/ StepOne \/ FailRollout \/ Gather
Gym == (\E s \in Samples : Complete(s) \/ Continue(s) \/ Arrive(s)) \/ GatherGym

Next == Batch \/ Async \/ Gym \/ Over

Spec == Init /\ [][Next]_vars

-----------------------------------------------------------------------------
(* Both loops give every sample an episode of its own: its answers and     *)
(* observations only, in turn, within the context, none after the end      *)
(* (run_multi_turn_rollout, run_sample_multi_turn_rollout).                *)
E == INSTANCE Episodes WITH
       log <- [s \in Samples |-> heap[ref[s]]],
       over <- {s \in Samples : Ended(s) \/ s \in Range(arrived)
                                \/ phase \in {"returned", "raised"}}
Implements == E!Spec

(* An environment is always handed the info it last returned for the same  *)
(* sample, whatever samples have left the batch in between.                *)
EnvInStep ==
  \A s \in Samples : \A t \in DOMAIN served[s] :
    LET given == {u \in 1 .. t - 1 : served[s][u].said.info # <<>>}
    IN /\ served[s][t].turn = t
       /\ served[s][t].given = IF given = {} THEN [of |-> s, step |-> 0]
                               ELSE served[s][Max(given)].said.info[1]

(* The stop strings an environment asks for reach the engine in the next   *)
(* request for that sample, and before it answered the prompt's own do.    *)
StopsReachEngine ==
  \A s \in Samples : \A t \in DOMAIN asked[s] :
    (IF t = 1 THEN {<<s, 0>>} ELSE served[s][t - 1].said.stops) \subseteq asked[s][t]

(* A sample's reward is the sum of what its environment gave for it, not   *)
(* for another row of its group.                                           *)
RewardsOwn ==
  phase \in {"select", "returned"} =>
    \A s \in Samples :
      total[s] = MapThenSumSet(LAMBDA t : served[s][t].said.reward, DOMAIN served[s])

(* A returned sample is marked truncated exactly when its last observation *)
(* filled the context: overlong filtering relies on the mark.              *)
TruncationTold ==
  phase = "returned" =>
    \A s \in Samples :
      LET messages == heap[ref[s]]
      IN truncated[s] <=> Last(messages).role = "environment" /\ Size(messages) = MaxLen

(* What a sample is handed and what it asked for are its own, in turn.     *)
SamplesInStep == EnvInStep /\ StopsReachEngine

(* What is returned for a sample is what happened to it.                   *)
OutcomesOwn == RewardsOwn /\ TruncationTold

(* Every NeMo-Gym result stands at its row, with the tokens the model      *)
(* generated and all the text that was said, and no conversation is        *)
(* refused for tokens that do not continue the ones before.                *)
GymFaithful ==
  /\ mode = "gym" => phase # "raised"
  /\ mode = "gym" /\ phase = "returned" =>
       \A s \in Samples :
         LET log == results[s]  calls == chat[s].calls  messages == chat[s].messages
         IN /\ Len(log) = 2 * Len(calls)
            /\ \A k \in DOMAIN calls : /\ log[2 * k - 1].role = "user"
                                       /\ log[2 * k] = [role |-> "assistant", tokens |-> calls[k].generation]
            /\ Without(FlattenSeq([k \in DOMAIN log |-> log[k].tokens]), Special)
                 = FlattenSeq([k \in DOMAIN messages |-> messages[k].text])
=============================================================================
