------------------------------- MODULE Episodes -------------------------------
(***************************************************************************)
(* What a rollout of a batch promises: every sample has an episode of its  *)
(* own.  Its log starts with its prompt, then the model's answers and the  *)
(* environment's observations alternate, every one made for this sample    *)
(* and this turn, and the log never outgrows the model's context.  The     *)
(* episodes are independent, and one that is over does not change.         *)
(***************************************************************************)
EXTENDS Integers, Sequences, FiniteSets, FiniteSetsExt

CONSTANTS
  MaxLen,       \* max_seq_len
  MaxTurns      \* max_rollout_turns

VARIABLES
  log,          \* the messages of every sample
  over          \* the samples that go no further

Samples == DOMAIN log
Size(messages) == MapThenSumSet(LAMBDA k : messages[k].len, DOMAIN messages)
Turns(messages) == Cardinality({k \in DOMAIN messages : messages[k].role = "assistant"})
Prompt(s, len) == [role |-> "user", of |-> s, turn |-> 0, len |-> len]
Waiting(s) == log[s][Len(log[s])].role = "assistant"

Init ==
  /\ \A s \in Samples : log[s] = <<Prompt(s, log[s][1].len)>> /\ Size(log[s]) <= MaxLen
  /\ over = {}

(* The model answers, within the turns it has.                             *)
Answer(s) ==
  /\ s \notin over /\ ~Waiting(s) /\ Turns(log[s]) < MaxTurns
  /\ LET turn == Turns(log[s]) + 1
     IN \E len \in 0 .. MaxLen - Size(log[s]) :
          log'[s] = Append(log[s], [role |-> "assistant", of |-> s, turn |-> turn, len |-> len])
  /\ s \notin over'

(* The environment observes, and what it says is cut to the room left; a   *)
(* log without room ends the episode.                                      *)
Observe(s) ==
  /\ s \notin over /\ Waiting(s)
  /\ \E len \in 0 .. MaxLen - Size(log[s]) :
       log'[s] = Append(log[s], [role |-> "environment", of |-> s,
                                 turn |-> Turns(log[s]), len |-> len])
  /\ Size(log'[s]) = MaxLen => s \in over'

Stop(s) == s \notin over /\ log'[s] = log[s] /\ s \in over'

Stay(s) == log'[s] = log[s] /\ (s \in over <=> s \in over')

Next ==
  /\ DOMAIN log' = Samples /\ over' \subseteq Samples
  /\ \A s \in Samples : Answer(s) \/ Observe(s) \/ Stop(s) \/ Stay(s)

Spec == Init /\ [][Next]_<<log, over>>
=============================================================================
