------------------------------ MODULE MCRollouts ------------------------------
(* Instances of Rollouts for TLC.                                          *)
EXTENDS Rollouts

Row(t, len) == [task |-> t, len |-> len]

OfRows(gen, rows) == [gen |-> gen, rows |-> rows]

\* Two tasks, in groups of siblings and mixed as in a validation; the longest
\* prompt leaves no room for an answer.
MCBatches ==
  [m \in {"batch", "async", "gym"} |->
     IF m = "batch" THEN {OfRows(2, <<Row("math", 2), Row("code", 4)>>),
                          OfRows(1, <<Row("math", 2), Row("code", 7), Row("math", 3)>>)}
     ELSE IF m = "async" THEN {OfRows(2, <<Row("math", 3)>>), OfRows(1, <<Row("math", 2), Row("code", 7)>>)}
     ELSE {OfRows(2, <<Row("gym", 1)>>)}]

Say(tokens, last, state, strings, points) ==
  [obs |-> tokens, end |-> last, info |-> state, stops |-> strings, reward |-> points]

\* Go on with a new state and new stop strings, go on with neither, and end.
MCReplies == {Say(1, FALSE, TRUE, TRUE, 0), Say(2, FALSE, FALSE, FALSE, 1), Say(0, TRUE, TRUE, FALSE, 2)}

\* The same text in one token or in two, ended by the model or cut off.
MCGenerations ==
  {<< <<"a", "a">>, Eos>>, << <<"a">>, <<"a">>, Eos>>, << <<"a">>, <<"a">> >>}
=============================================================================
