--------------------------- MODULE CheckpointManager ---------------------------
(***************************************************************************)
(* Checkpoints on disk: a training run writes one into tmp_step_<s>, has   *)
(* CheckpointManager rename it to step_<s> and prune the old ones, and may *)
(* be killed between any two file operations; it then starts again from    *)
(* the directory get_latest_checkpoint_path names.  A directory is what    *)
(* its files hold; a file holds the number of the attempt that wrote it.   *)
(* Metrics are ordered so that larger is better.                           *)
(***************************************************************************)
EXTENDS Integers, FiniteSets

CONSTANTS
  MaxStep,        \* bound on the training steps
  KeepTopK,       \* keep_top_k; MaxStep or more stands for None
  Scores,         \* values of the metric
  MaxAttempts     \* bound on the checkpoints begun

ASSUME CheckpointAssumption ==
  /\ MaxStep \in Nat /\ KeepTopK \in Nat /\ MaxAttempts \in Nat
  /\ Scores \subseteq Nat

VARIABLES
  tmp, final, old,    \* tmp_step_<s>, step_<s> and old_step_<s>
  phase, saving, file,\* what the run does; the step it saves, the file it writes
  position,           \* the last step it saved or resumed from
  attempt, score,     \* checkpoints begun so far, and the metric of each
  doomed,             \* steps that the pruning has still to remove
  ever                \* every <<step, attempt>> that was finalized (history)

disk == <<tmp, final, old>>
vars == <<disk, phase, saving, file, position, attempt, score, doomed, ever>>

Steps == 1 .. MaxStep
Attempts == 1 .. MaxAttempts
NoMetric == -1      \* -inf: the checkpoint was saved without the metric
Gone == -1          \* no such file
Torn == 0           \* opened for writing and not closed
Info == 1           \* training_info.json and config.yaml
Files == 1 .. 3     \* then the policy, then train_dataloader.pt
Empty == [f \in Files |-> Gone]

Phases == {"train", "write", "finalize", "swap", "clear", "prune", "remove", "down"}

Dir == [Files -> {Gone, Torn} \cup Attempts]
TypeOK ==
  /\ tmp \in [Steps -> Dir] /\ final \in [Steps -> Dir] /\ old \in [Steps -> Dir]
  /\ phase \in Phases
  /\ saving \in 0 .. MaxStep /\ position \in 0 .. MaxStep
  /\ file \in Files
  /\ attempt \in 0 .. MaxAttempts
  /\ score \in [Attempts -> Scores \cup {NoMetric}]
  /\ doomed \subseteq Steps
  /\ ever \subseteq Steps \X Attempts

Init ==
  /\ tmp = [s \in Steps |-> Empty] /\ final = tmp /\ old = tmp
  /\ phase = "train" /\ saving = 0 /\ file = Info /\ position = 0
  /\ attempt = 0 /\ score = [a \in Attempts |-> NoMetric]
  /\ doomed = {} /\ ever = {}

-----------------------------------------------------------------------------
(* Writing. *)

(* init_tmp_checkpoint, up to opening its first file.  A directory left by *)
(* a crash is used again.  Training saves steps in increasing order, and   *)
(* may save the step it resumed from once more.                            *)
Begin(s, m) ==
  /\ phase = "train" /\ phase' = "write"
  /\ s >= position /\ saving' = s
  /\ attempt < MaxAttempts /\ attempt' = attempt + 1
  /\ score' = [score EXCEPT ![attempt + 1] = m]
  /\ tmp' = [tmp EXCEPT ![s][Info] = Torn] /\ file' = Info
  /\ UNCHANGED <<final, old, position, doomed, ever>>

(* The file is complete, and the next one is opened. *)
WriteFile ==
  /\ phase = "write"
  /\ IF file = 3
       THEN /\ tmp' = [tmp EXCEPT ![saving][file] = attempt]
            /\ phase' = "finalize" /\ file' = Info
       ELSE /\ tmp' = [tmp EXCEPT ![saving][file] = attempt, ![saving][file + 1] = Torn]
            /\ file' = file + 1 /\ UNCHANGED phase
  /\ UNCHANGED <<final, old, saving, position, attempt, score, doomed, ever>>

-----------------------------------------------------------------------------
(* finalize_checkpoint *)

(* os.rename(tmp_step_<s>, step_<s>): the checkpoint counts as saved. *)
Publish ==
  /\ final' = [final EXCEPT ![saving] = tmp[saving]]
  /\ tmp' = [tmp EXCEPT ![saving] = Empty]
  /\ ever' = ever \cup {<<saving, attempt>>}
  /\ position' = saving

(* Mutant: renamed before the last file is complete. *)
RenameEarly ==
  /\ phase = "finalize" \/ (phase = "write" /\ file = 3)
  /\ final[saving] = Empty
  /\ Publish /\ phase' = "prune" /\ file' = Info
  /\ UNCHANGED <<old, saving, attempt, score, doomed>>

Rename ==
  /\ phase = "finalize" /\ final[saving] = Empty
  /\ Publish /\ phase' = "prune"
  /\ UNCHANGED <<old, saving, file, attempt, score, doomed>>

SetAside ==
  /\ phase = "finalize" /\ final[saving] # Empty /\ old[saving] = Empty
  /\ old' = [old EXCEPT ![saving] = final[saving]]
  /\ final' = [final EXCEPT ![saving] = Empty]
  /\ phase' = "swap"
  /\ UNCHANGED <<tmp, saving, file, position, attempt, score, doomed, ever>>

(* An old_step_<s> that a crash left behind: rename raises, the run ends.  *)
SetAsideFails ==
  /\ phase = "finalize" /\ final[saving] # Empty /\ old[saving] # Empty
  /\ phase' = "down"
  /\ UNCHANGED <<disk, saving, file, position, attempt, score, doomed, ever>>

Swap ==
  /\ phase = "swap"
  /\ Publish /\ phase' = "clear"
  /\ UNCHANGED <<old, saving, file, attempt, score, doomed>>

(* shutil.rmtree, file by file in any order. *)
ClearOld ==
  /\ phase = "clear"
  /\ \E f \in Files :
       /\ old[saving][f] # Gone
       /\ old' = [old EXCEPT ![saving][f] = Gone]
       /\ phase' = IF old'[saving] = Empty THEN "prune" ELSE phase
  /\ UNCHANGED <<tmp, final, saving, file, position, attempt, score, doomed, ever>>

-----------------------------------------------------------------------------
(* remove_old_checkpoints *)

(* The directories whose training info can be read, and the metric in it.  *)
History == {s \in Steps : final[s][Info] # Gone}
Metric(s) == score[final[s][Info]]

(* Better metric x, and of equal ones the more recent step s.              *)
Above(x, s, y, t) == x > y \/ (x = y /\ s > t)

(* Mutant: sorted the wrong way round. *)
SurplusAscending ==
  {s \in History :
     /\ \E t \in History : t > s
     /\ KeepTopK <= Cardinality({t \in History : Above(Metric(s), s, Metric(t), t)})}

(* All but the best KeepTopK and the latest. *)
Surplus ==
  {s \in History :
     /\ \E t \in History : t > s
     /\ KeepTopK <= Cardinality({t \in History : Above(Metric(t), t, Metric(s), s)})}

Prune ==
  /\ phase = "prune"
  /\ doomed' = Surplus
  /\ phase' = IF Surplus = {} THEN "train" ELSE "remove"
  /\ UNCHANGED <<disk, saving, file, position, attempt, score, ever>>

(* shutil.rmtree of one doomed directory after the other, file by file; in *)
(* which order does not matter, since a crash may leave any part of them.  *)
Remove ==
  /\ phase = "remove"
  /\ \E s \in doomed, f \in Files :
       /\ final[s][f] # Gone
       /\ final' = [final EXCEPT ![s][f] = Gone]
       /\ doomed' = IF final'[s] = Empty THEN doomed \ {s} ELSE doomed
       /\ phase' = IF doomed' = {} THEN "train" ELSE phase
  /\ UNCHANGED <<tmp, old, saving, file, position, attempt, score, ever>>

-----------------------------------------------------------------------------
(* Crash and restart. *)

Crash ==
  /\ phase # "down" /\ phase' = "down"
  /\ UNCHANGED <<disk, saving, file, position, attempt, score, doomed, ever>>

(* get_latest_checkpoint_path goes by the names of the directories alone.  *)
Latest ==
  IF \A s \in Steps : final[s] = Empty THEN 0
  ELSE CHOOSE s \in Steps : /\ final[s] # Empty
                            /\ \A t \in Steps : final[t] # Empty => t <= s

(* A new run cannot start on a checkpoint that is not whole. *)
Whole(d) == \E a \in Attempts : d = [f \in Files |-> a]

Restart ==
  /\ phase = "down"
  /\ Latest # 0 => Whole(final[Latest])
  /\ phase' = "train" /\ position' = Latest
  /\ saving' = 0 /\ file' = Info /\ doomed' = {}
  /\ UNCHANGED <<disk, attempt, score, ever>>

Next ==
  \/ \E s \in Steps, m \in Scores \cup {NoMetric} : Begin(s, m)
  \/ WriteFile \/ Rename \/ SetAside \/ SetAsideFails \/ Swap \/ ClearOld
  \/ Prune \/ Remove \/ Crash \/ Restart

Spec == Init /\ [][Next]_vars

-----------------------------------------------------------------------------
(* A restart finds, under the name it goes by, every file of one and the   *)
(* same attempt, wherever the run was killed: neither a torn or forgotten  *)
(* file, nor one left in a reused directory, nor a half removed one.  The  *)
(* exception is a run killed between the two renames that replace a        *)
(* checkpoint: what is the latest then may be half removed.                *)
LatestWhole ==
  (Latest # 0 /\ \A s \in Steps : final[s] = Empty => old[s] = Empty) => Whole(final[Latest])

(* The newest saved checkpoint is never lost: whole under its own name, or *)
(* set aside whole while it is being replaced.  Only the second case, a    *)
(* crash between the two renames, makes a restart fall back behind it.     *)
Newest(s) == \E a \in Attempts : <<s, a>> \in ever /\ \A e \in ever : e[1] <= s
NewestDurable ==
  \A s \in Steps : Newest(s) => Whole(final[s]) \/ Whole(old[s])

(* A restart finds the newest checkpoint, or a whole one before it.        *)
RestartFindsWhole == LatestWhole /\ NewestDurable

(* A checkpoint that fewer than KeepTopK ever beat is there, and whole:    *)
(* pruning with missing metrics and equal metrics, a pruning cut short by  *)
(* a crash and the one after it never cost one of the best.                *)
Current(s) == CHOOSE a \in Attempts : /\ <<s, a>> \in ever
                                      /\ \A e \in ever : e[1] = s => e[2] <= a
BestKept ==
  \A s \in {e[1] : e \in ever} :
    LET better == {e \in ever : Above(score[e[2]], e[1], score[Current(s)], s)} IN
      old[s] = Empty /\ Cardinality(better) < KeepTopK => Whole(final[s])

=============================================================================
