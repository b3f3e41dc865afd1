------------------------------ MODULE SlidingPuzzle ------------------------------
(***************************************************************************)
(* The sliding puzzle: a board of size * size numbers whose 0 is the empty *)
(* place, shuffled by legal moves, and the turns an assistant plays on it. *)
(* Places are <<row, column>>, from 1.                                     *)
(***************************************************************************)
EXTENDS Integers, Sequences, SequencesExt, FiniteSetsExt

OnBoard(size, p) == p[1] \in 1 .. size /\ p[2] \in 1 .. size
Solution(size) ==
  [r \in 1 .. size |-> [c \in 1 .. size |-> IF r = size /\ c = size THEN 0 ELSE (r - 1) * size + c]]

(* Right, Down, Left, Up. *)
Neighbours(size, p) ==
  SelectSeq(<< <<p[1], p[2] + 1>>, <<p[1] + 1, p[2]>>, <<p[1], p[2] - 1>>, <<p[1] - 1, p[2]>> >>,
            LAMBDA q : OnBoard(size, q))

Tile(game, p) == game.grid[p[1]][p[2]]
Swapped(game, p) ==
  [game.grid EXCEPT ![game.empty[1]][game.empty[2]] = Tile(game, p), ![p[1]][p[2]] = 0]

Slide(game, p) == [game EXCEPT !.grid = Swapped(game, p), !.empty = p]

(* generate: choices[i] is the i-th random choice. *)
Shuffled(size, choices) ==
  LET after[n \in 0 .. Len(choices)] ==
        IF n = 0 THEN [size |-> size, grid |-> Solution(size), empty |-> <<size, size>>]
        ELSE LET moves == Neighbours(size, after[n - 1].empty)
             IN  Slide(after[n - 1], moves[(choices[n] % Len(moves)) + 1])
  IN  after[Len(choices)]

(* The place a direction names: the tile that moves there. *)
Toward(p, direction) ==
  CASE direction = "up" -> <<p[1] + 1, p[2]>>
    [] direction = "down" -> <<p[1] - 1, p[2]>>
    [] direction = "left" -> <<p[1], p[2] + 1>>
    [] direction = "right" -> <<p[1], p[2] - 1>>

Beside(p, q) == Max({p[1] - q[1], q[1] - p[1]}) + Max({p[2] - q[2], q[2] - p[2]}) = 1

(* SlidingPuzzleGameLogic.step.  An action is a direction, "slide" with a  *)
(* place (<<>> when it does not parse), or anything else.                  *)
Legal(game, action) ==
  CASE action.word = "slide" -> action.place # <<>> /\ OnBoard(game.size, action.place)
                                /\ Beside(action.place, game.empty)
    [] action.word \in {"up", "down", "left", "right"} ->
         OnBoard(game.size, Toward(game.empty, action.word))
    [] OTHER -> FALSE

Moved(game, action) ==
  IF ~Legal(game, action) THEN game
  ELSE Slide(game, IF action.word = "slide" THEN action.place ELSE Toward(game.empty, action.word))

Wins(game, action) == Legal(game, action) /\ Moved(game, action).grid = Solution(game.size)

-----------------------------------------------------------------------------
(* _parse_action: a message is a sequence of tags and actions; the action  *)
(* is all between the last opening tag and the first closing tag after it. *)
Unknown == [word |-> "unknown", place |-> <<>>]

ParsedAction(message) ==
  LET opens == {i \in DOMAIN message : message[i].word = "<action>"}
      start == Max(opens)
      closes == {i \in DOMAIN message : i > start /\ message[i].word = "</action>"}
      content == SubSeq(message, start + 1, Min(closes) - 1)
  IN  IF opens = {} \/ closes = {} THEN <<>>
      ELSE IF Len(content) = 1 THEN content ELSE <<Unknown>>

(* process_turn, on a state [game, moves]: what it returns. *)
Turn(state, message, max) ==
  LET action == ParsedAction(message)
      says(reward, done, next) == [reward |-> reward, terminated |-> done, metadata |-> next]
  IN  IF state.moves >= max THEN says(0, TRUE, <<>>)
      ELSE IF action = <<>> THEN says(0, FALSE, <<>>)
      ELSE IF action[1].word = "view" THEN says(0, FALSE, <<state>>)
      ELSE IF Wins(state.game, action[1]) THEN says(1, TRUE, <<>>)
      ELSE says(0, FALSE, << [game |-> Moved(state.game, action[1]), moves |-> state.moves + 1] >>)

(* The turns of a rollout: without metadata the state stays the last one,  *)
(* and a turn that ends the episode is the last.                           *)
Turns(first, messages, max) ==
  LET after[n \in 0 .. Len(messages)] ==
        IF n = 0 THEN [state |-> first, rewards |-> <<>>, over |-> FALSE]
        ELSE LET before == after[n - 1]
                 turn == Turn(before.state, messages[n], max)
             IN  IF before.over THEN before
                 ELSE [state |-> IF turn.metadata = <<>> THEN before.state ELSE turn.metadata[1],
                       rewards |-> Append(before.rewards, turn.reward), over |-> turn.terminated]
  IN  [n \in 0 .. Len(messages) |-> after[n]]
=============================================================================
