------------------------ MODULE CheckpointManagerProofs ------------------------
(***************************************************************************)
(* Checkpoints on disk proved for any number of steps, attempts and        *)
(* checkpoints kept, and a kill between any two file operations: a restart *)
(* finds a whole checkpoint, the newest is never lost, and the pruning     *)
(* keeps the best.                                                         *)
(***************************************************************************)
EXTENDS CheckpointManager, FiniteSetTheorems, FunctionTheorems, WellFoundedInduction, TLAPS

Saving == {"write", "finalize", "swap", "clear"}

(* The run knows the step and the attempt it is saving.                    *)
TypeInv == TypeOK /\ (phase \in Saving => saving \in Steps /\ attempt \in Attempts)

(* What is under tmp_step_<s> when it is renamed is whole: every file was  *)
(* written by this attempt, also those an earlier attempt had left there.  *)
WrittenInv ==
  /\ phase = "write" => \A f \in Files : f < file => tmp[saving][f] = attempt
  /\ phase \in {"finalize", "swap"} => \A f \in Files : tmp[saving][f] = attempt

(* Only what was saved is under the other names, and of what was ever      *)
(* saved there is a newest.                                                *)
SavedSteps == {e[1] : e \in ever}
SavedInv ==
  /\ \A s \in Steps : final[s] # Empty \/ old[s] # Empty => s \in SavedSteps
  /\ ever # {} => \E s \in Steps : Newest(s)

(* The newest is whole under its name, or that name is free and it stands  *)
(* aside; neither removal ever reaches it.                                 *)
NewestInv ==
  /\ \A s \in Steps : Newest(s) => Whole(final[s]) \/ (final[s] = Empty /\ Whole(old[s]))
  /\ phase = "swap" => final[saving] = Empty
  /\ phase = "clear" => Whole(final[saving])
  /\ \A s \in doomed : \E e \in ever : e[1] > s

DiskInv == TypeInv /\ WrittenInv /\ SavedInv /\ NewestInv

-----------------------------------------------------------------------------
(* A set of steps that is not empty has a greatest.                        *)
LEMMA GreatestStep ==
  ASSUME NEW T, T \subseteq Steps, T # {}
  PROVE  \E s \in T : \A t \in T : t <= s
<1> DEFINE D == {MaxStep - t : t \in T}
<1>1. MaxStep \in Nat
  BY CheckpointAssumption
<1>2. D \subseteq Nat /\ D # {}
  <2>1. \A t \in T : MaxStep - t \in Nat
    BY <1>1 DEF Steps
  <2> QED
    BY <2>1
<1>3. PICK d \in D : \A c \in D : <<c, d>> \notin OpToRel(<, Nat)
  <2> HIDE DEF D
  <2> QED
    BY <1>2, WFMin, NatLessThanWellFounded, Zenon
<1>4. \A c \in D : ~(c < d)
  <2> HIDE DEF D
  <2> QED
    BY <1>2, <1>3, Zenon DEF OpToRel
<1>5. PICK s \in T : d = MaxStep - s
  OBVIOUS
<1>6. \A t \in T : MaxStep - t \in D
  OBVIOUS
<1> QED
  BY <1>1, <1>4, <1>5, <1>6 DEF Steps

(* A restart finds the greatest step that has a directory, if there is one.*)
LEMMA LatestGreatest ==
  IF \A s \in Steps : final[s] = Empty THEN Latest = 0
  ELSE /\ Latest \in Steps /\ final[Latest] # Empty
       /\ \A t \in Steps : final[t] # Empty => t <= Latest
<1> DEFINE T == {s \in Steps : final[s] # Empty}
<1>1. CASE T # {}
  <2>1. \E s \in T : \A t \in T : t <= s
    BY <1>1, GreatestStep
  <2>2. \E s \in Steps : final[s] # Empty /\ \A t \in Steps : final[t] # Empty => t <= s
    BY <2>1
  <2> QED
    BY <1>1, <2>2 DEF Latest
<1>2. CASE T = {}
  BY <1>2 DEF Latest
<1> QED
  BY <1>1, <1>2

-----------------------------------------------------------------------------
(* Types. *)

LEMMA TypeInvInit == Init => TypeInv
<1> SUFFICES ASSUME Init PROVE TypeInv
  OBVIOUS
<1>1. Empty \in Dir
  BY DEF Empty, Dir
<1> QED
  BY <1>1, CheckpointAssumption DEF Init, TypeInv, TypeOK, Saving, Phases, Files, Info

(* Writing or removing one file leaves a directory. *)
LEMMA DirUpdate ==
  ASSUME NEW d \in [Steps -> Dir], NEW s, NEW f, NEW v \in {Gone, Torn} \cup Attempts
  PROVE  [d EXCEPT ![s][f] = v] \in [Steps -> Dir]
BY DEF Dir

LEMMA TypeInvStep == TypeInv /\ [Next]_vars => TypeInv'
<1> SUFFICES ASSUME TypeInv, [Next]_vars PROVE TypeInv'
  OBVIOUS
<1>1. MaxStep \in Nat /\ MaxAttempts \in Nat /\ Empty \in Dir
  BY CheckpointAssumption DEF Empty, Dir
<1> USE DEF TypeInv, TypeOK, Saving, Phases, disk
<1>2. ASSUME NEW s \in Steps, NEW m \in Scores \cup {NoMetric}, Begin(s, m) PROVE TypeInv'
  <2>1. tmp' \in [Steps -> Dir]
    BY <1>2, DirUpdate DEF Begin
  <2>2. saving' \in Steps /\ saving' \in 0 .. MaxStep
    BY <1>1, <1>2 DEF Begin, Steps
  <2>3. attempt' \in Attempts /\ attempt' \in 0 .. MaxAttempts
    BY <1>1, <1>2 DEF Begin, Attempts
  <2>4. file' \in Files
    BY <1>2 DEF Begin, Files, Info
  <2> QED
    BY <1>2, <2>1, <2>2, <2>3, <2>4 DEF Begin
<1>3. CASE WriteFile
  <2>1. attempt \in Attempts
    BY <1>3 DEF WriteFile
  <2>2. tmp' \in [Steps -> Dir]
    <3>1. [tmp EXCEPT ![saving][file] = attempt] \in [Steps -> Dir]
      BY <2>1, DirUpdate
    <3>2. CASE file = 3
      BY <1>3, <3>1, <3>2 DEF WriteFile
    <3>3. CASE file # 3
      <4> DEFINE written == [tmp EXCEPT ![saving][file] = attempt]
      <4>1. tmp' = [written EXCEPT ![saving][file + 1] = Torn]
        BY <1>3, <3>3 DEF WriteFile
      <4> QED
        BY <3>1, <4>1, DirUpdate
    <3> QED
      BY <3>2, <3>3
  <2>3. file' \in Files
    BY <1>3 DEF WriteFile, Files, Info
  <2> QED
    BY <1>3, <2>2, <2>3 DEF WriteFile
<1>4. CASE Rename
  BY <1>1, <1>4 DEF Rename, Publish, Steps
<1>5. CASE SetAside
  BY <1>1, <1>5 DEF SetAside
<1>6. CASE SetAsideFails
  BY <1>6 DEF SetAsideFails
<1>7. CASE Swap
  BY <1>1, <1>7 DEF Swap, Publish, Steps
<1>8. CASE ClearOld
  <2>1. PICK f \in Files : old' = [old EXCEPT ![saving][f] = Gone]
    BY <1>8 DEF ClearOld
  <2>2. old' \in [Steps -> Dir]
    BY <2>1, DirUpdate
  <2> QED
    BY <1>8, <2>2 DEF ClearOld
<1>9. CASE Prune
  BY <1>9 DEF Prune, Surplus, History
<1>10. CASE Remove
  <2>1. PICK s \in doomed, f \in Files :
          /\ final' = [final EXCEPT ![s][f] = Gone]
          /\ doomed' = IF final'[s] = Empty THEN doomed \ {s} ELSE doomed
          /\ phase' = IF doomed' = {} THEN "train" ELSE phase
    BY <1>10 DEF Remove
  <2>2. final' \in [Steps -> Dir] /\ doomed' \subseteq Steps
    BY <2>1, DirUpdate
  <2> QED
    BY <1>10, <2>1, <2>2 DEF Remove
<1>11. CASE Crash
  BY <1>11 DEF Crash
<1>12. CASE Restart
  <2>1. Latest \in 0 .. MaxStep
    BY <1>1, LatestGreatest DEF Steps
  <2> QED
    BY <1>1, <1>12, <2>1 DEF Restart, Files, Info
<1>13. CASE UNCHANGED vars
  BY <1>13 DEF vars
<1> QED
  BY <1>2, <1>3, <1>4, <1>5, <1>6, <1>7, <1>8, <1>9, <1>10, <1>11, <1>12, <1>13 DEF Next

(* Directories, counters and phases keep their types, and a run that saves *)
(* knows which step and attempt.                                           *)
THEOREM CheckpointTypes == Spec => []TypeOK
<1>1. TypeInv => TypeOK
  BY DEF TypeInv
<1> QED
  BY <1>1, TypeInvInit, TypeInvStep, PTL DEF Spec

-----------------------------------------------------------------------------
(* Contents. *)

(* Empty and torn directories are not whole. *)
LEMMA EmptyNotWhole == ~Whole(Empty)
BY CheckpointAssumption DEF Whole, Empty, Gone, Attempts, Files

LEMMA DiskInvInit == Init => DiskInv
<1> SUFFICES ASSUME Init PROVE DiskInv
  OBVIOUS
<1>1. \A s \in Steps : final[s] = Empty /\ old[s] = Empty
  BY DEF Init
<1> QED
  BY <1>1, TypeInvInit DEF Init, DiskInv, WrittenInv, SavedInv, NewestInv, Newest

(* What the next file operation leaves under tmp_step_<s> was written by   *)
(* this attempt.                                                           *)
LEMMA WrittenInvStep == TypeInv /\ WrittenInv /\ [Next]_vars => WrittenInv'
<1> SUFFICES ASSUME TypeInv, WrittenInv, [Next]_vars PROVE WrittenInv'
  OBVIOUS
<1> USE DEF WrittenInv
<1>1. ASSUME NEW s \in Steps, NEW m \in Scores \cup {NoMetric}, Begin(s, m) PROVE WrittenInv'
  BY <1>1 DEF Begin, Files, Info
<1>2. CASE WriteFile
  <2>1. phase = "write" /\ saving \in Steps /\ file \in 1 .. 3 /\ tmp \in [Steps -> Dir]
    BY <1>2 DEF WriteFile, TypeInv, TypeOK, Saving, Files
  <2>2. DOMAIN tmp[saving] = 1 .. 3
    BY <2>1 DEF Dir, Files
  <2>3. CASE file = 3
    BY <1>2, <2>1, <2>2, <2>3 DEF WriteFile, Files
  <2>4. CASE file # 3
    BY <1>2, <2>1, <2>2, <2>4 DEF WriteFile, Files
  <2> QED
    BY <2>3, <2>4
<1>3. CASE Rename \/ SetAside \/ SetAsideFails \/ Swap \/ ClearOld \/ Prune \/ Remove
  BY <1>3 DEF Rename, SetAside, SetAsideFails, Swap, ClearOld, Prune, Remove, disk
<1>4. CASE Crash \/ Restart
  BY <1>4 DEF Crash, Restart
<1>5. CASE UNCHANGED vars
  BY <1>5 DEF vars, disk
<1> QED
  BY <1>1, <1>2, <1>3, <1>4, <1>5 DEF Next

(* A step that was saved is whole under one name or the other, and a file  *)
(* operation takes away only what the newest does not need.                *)
LEMMA PublishKeeps ==
  ASSUME TypeInv, SavedInv, NewestInv, phase \in {"finalize", "swap"},
         final[saving] = Empty, \A f \in Files : tmp[saving][f] = attempt, Publish, UNCHANGED old
  PROVE  /\ SavedInv' /\ Whole(final'[saving])
         /\ \A s \in Steps : Newest(s)' => Whole(final'[s]) \/ (final'[s] = Empty /\ Whole(old[s]))
<1>1. /\ saving \in Steps /\ attempt \in Attempts /\ ever \subseteq Steps \X Attempts
      /\ final \in [Steps -> Dir] /\ tmp[saving] \in Dir
  BY DEF TypeInv, TypeOK, Saving
<1>2. ever' = ever \cup {<<saving, attempt>>}
  BY DEF Publish
<1>3. /\ final'[saving] = tmp[saving]
      /\ \A s \in Steps : s # saving => final'[s] = final[s]
  BY <1>1 DEF Publish
<1>4. Whole(final'[saving])
  <2>1. tmp[saving] = [f \in Files |-> attempt]
    BY <1>1 DEF Dir
  <2> QED
    BY <1>1, <1>3, <2>1 DEF Whole
<1>5. \A s \in Steps : s # saving /\ Newest(s)' => Newest(s)
  BY <1>1, <1>2 DEF Newest
<1>6. SavedInv'
  <2>1. SavedSteps \subseteq SavedSteps' /\ saving \in SavedSteps'
    <3>1. <<saving, attempt>> \in ever' /\ <<saving, attempt>>[1] = saving
      BY <1>2
    <3> QED
      BY <1>2, <3>1 DEF SavedSteps
  <2>2. \A s \in Steps : final'[s] # Empty \/ old'[s] # Empty => s \in SavedSteps'
    BY <1>3, <2>1 DEF SavedInv
  <2>3. PICK z \in Steps : z = saving
    BY <1>1
  <2>4. \E s \in Steps : Newest(s)'
    <3>1. CASE ever = {}
      <4>1. Newest(z)'
        BY <1>1, <1>2, <2>3, <3>1, CheckpointAssumption DEF Newest, Steps
      <4> QED
        BY <4>1
    <3>2. CASE ever # {}
      <4>1. PICK s \in Steps : Newest(s)
        BY <3>2 DEF SavedInv
      <4>2. PICK a \in Attempts : <<s, a>> \in ever /\ \A e \in ever : e[1] <= s
        BY <4>1 DEF Newest
      <4>3. \A e \in ever : e[1] \in Nat
        BY <1>1 DEF Steps
      <4>4. CASE z <= s
        <5>1. Newest(s)'
          BY <1>2, <2>3, <4>2, <4>4 DEF Newest
        <5> QED
          BY <5>1
      <4>5. CASE s < z
        <5>1. \A e \in ever' : e[1] <= z
          BY <1>1, <1>2, <2>3, <4>2, <4>3, <4>5 DEF Steps
        <5>2. Newest(z)'
          BY <1>1, <1>2, <2>3, <5>1 DEF Newest
        <5> QED
          BY <5>2
      <4> QED
        BY <4>4, <4>5 DEF Steps
    <3> QED
      BY <3>1, <3>2
  <2> QED
    BY <2>2, <2>4 DEF SavedInv
<1> QED
  BY <1>3, <1>4, <1>5, <1>6 DEF NewestInv

LEMMA SavedNewestStep ==
  TypeInv /\ WrittenInv /\ SavedInv /\ NewestInv /\ [Next]_vars => SavedInv' /\ NewestInv'
<1> SUFFICES ASSUME TypeInv, WrittenInv, SavedInv, NewestInv, [Next]_vars
             PROVE  SavedInv' /\ NewestInv'
  OBVIOUS
<1>1. final \in [Steps -> Dir] /\ old \in [Steps -> Dir] /\ ever \subseteq Steps \X Attempts
  BY DEF TypeInv, TypeOK
<1>2. ASSUME UNCHANGED <<final, old, saving, ever, doomed>>,
             phase' \in {"write", "finalize", "down", phase}
      PROVE  SavedInv' /\ NewestInv'
  BY <1>2 DEF SavedInv, SavedSteps, NewestInv, Newest
<1>3. ASSUME NEW s \in Steps, NEW m \in Scores \cup {NoMetric}, Begin(s, m)
      PROVE  SavedInv' /\ NewestInv'
  BY <1>3 DEF Begin, SavedInv, SavedSteps, NewestInv, Newest
<1>4. CASE WriteFile
  <2>1. phase' \in {"write", "finalize"}
    BY <1>4 DEF WriteFile
  <2> QED
    BY <1>2, <1>4, <2>1 DEF WriteFile
<1>5. CASE Rename
  <2>1. phase = "finalize" /\ final[saving] = Empty /\ Publish /\ phase' = "prune"
        /\ UNCHANGED <<old, doomed>>
    BY <1>5 DEF Rename
  <2>2. \A f \in Files : tmp[saving][f] = attempt
    BY <2>1 DEF WrittenInv
  <2>3. /\ SavedInv'
        /\ \A s \in Steps : Newest(s)' => Whole(final'[s]) \/ (final'[s] = Empty /\ Whole(old[s]))
    BY <2>1, <2>2, PublishKeeps
  <2>4. \A s \in doomed' : \E e \in ever' : e[1] > s
    BY <2>1 DEF NewestInv, Publish
  <2> QED
    BY <2>1, <2>3, <2>4 DEF NewestInv
<1>6. CASE SetAside
  <2>1. /\ saving \in Steps /\ final[saving] # Empty
        /\ old' = [old EXCEPT ![saving] = final[saving]]
        /\ final' = [final EXCEPT ![saving] = Empty]
        /\ phase' = "swap" /\ UNCHANGED <<saving, doomed, ever>>
    BY <1>6 DEF SetAside, TypeInv, Saving
  <2>2. /\ final'[saving] = Empty /\ old'[saving] = final[saving]
        /\ \A s \in Steps : s # saving => final'[s] = final[s] /\ old'[s] = old[s]
    BY <1>1, <2>1
  <2>3. SavedInv'
    BY <2>1, <2>2 DEF SavedInv, SavedSteps, Newest
  <2>4. ASSUME NEW s \in Steps, Newest(s)'
        PROVE  Whole(final'[s]) \/ (final'[s] = Empty /\ Whole(old'[s]))
    <3>1. Newest(s)
      BY <2>1, <2>4 DEF Newest
    <3>2. Whole(final[s]) \/ (final[s] = Empty /\ Whole(old[s]))
      BY <3>1 DEF NewestInv
    <3> QED
      BY <2>1, <2>2, <3>2
  <2> QED
    BY <2>1, <2>2, <2>3, <2>4 DEF NewestInv
<1>7. CASE SetAsideFails \/ Crash
  BY <1>2, <1>7 DEF SetAsideFails, Crash, disk
<1>8. CASE Swap
  <2>1. phase = "swap" /\ Publish /\ phase' = "clear" /\ UNCHANGED <<old, saving, doomed>>
    BY <1>8 DEF Swap
  <2>2. (\A f \in Files : tmp[saving][f] = attempt) /\ final[saving] = Empty
    BY <2>1 DEF WrittenInv, NewestInv
  <2>3. /\ SavedInv' /\ Whole(final'[saving])
        /\ \A s \in Steps : Newest(s)' => Whole(final'[s]) \/ (final'[s] = Empty /\ Whole(old[s]))
    BY <2>1, <2>2, PublishKeeps
  <2>4. \A s \in doomed' : \E e \in ever' : e[1] > s
    BY <2>1 DEF NewestInv, Publish
  <2> QED
    BY <2>1, <2>3, <2>4 DEF NewestInv
<1>9. CASE ClearOld
  <2>1. PICK f \in Files : /\ old[saving][f] # Gone
                          /\ old' = [old EXCEPT ![saving][f] = Gone]
    BY <1>9 DEF ClearOld
  <2>2. /\ phase = "clear" /\ phase' \in {"prune", "clear"}
        /\ UNCHANGED <<final, saving, doomed, ever>> /\ saving \in Steps
    BY <1>9 DEF ClearOld, TypeInv, Saving
  <2>3. \A s \in Steps : s # saving => old'[s] = old[s]
    BY <1>1, <2>1
  <2>4. old[saving] # Empty /\ Whole(final[saving])
    BY <2>1, <2>2 DEF Empty, NewestInv
  <2>5. SavedInv'
    BY <2>2, <2>3, <2>4 DEF SavedInv, SavedSteps, Newest
  <2>6. \A s \in Steps : Newest(s)' => Newest(s)
    BY <2>2 DEF Newest
  <2> QED
    BY <2>2, <2>3, <2>4, <2>5, <2>6 DEF NewestInv
<1>10. CASE Prune
  <2>1. /\ UNCHANGED <<final, old, saving, ever>> /\ doomed' = Surplus
        /\ phase' \in {"train", "remove"}
    BY <1>10 DEF Prune, disk
  <2>2. \A s \in Surplus : \E e \in ever : e[1] > s
    <3> SUFFICES ASSUME NEW s \in Surplus PROVE \E e \in ever : e[1] > s
      OBVIOUS
    <3>1. PICK t \in History : t > s
      BY DEF Surplus
    <3>2. final[t] # Empty /\ t \in Steps
      BY DEF History, Empty, Info, Files
    <3>3. t \in SavedSteps
      BY <3>2 DEF SavedInv
    <3> QED
      BY <3>1, <3>3 DEF SavedSteps
  <2> QED
    BY <2>1, <2>2 DEF SavedInv, SavedSteps, NewestInv, Newest
<1>11. CASE Remove
  <2>1. PICK r \in doomed, f \in Files :
          /\ final[r][f] # Gone
          /\ final' = [final EXCEPT ![r][f] = Gone]
          /\ doomed' = IF final'[r] = Empty THEN doomed \ {r} ELSE doomed
          /\ phase' = IF doomed' = {} THEN "train" ELSE phase
    BY <1>11 DEF Remove
  <2>2. phase = "remove" /\ UNCHANGED <<old, saving, ever>> /\ r \in Steps
    BY <1>11, <2>1 DEF Remove, TypeInv, TypeOK
  <2>3. /\ final[r] # Empty
        /\ \A s \in Steps : s # r => final'[s] = final[s]
    BY <1>1, <2>1, <2>2 DEF Empty
  <2>4. SavedInv'
    BY <2>2, <2>3 DEF SavedInv, SavedSteps, Newest
  <2>5. \A s \in Steps : Newest(s)' => s # r /\ Newest(s)
    <3>1. PICK e \in ever : e[1] > r
      BY <2>1 DEF NewestInv
    <3>2. e[1] \in Nat /\ r \in Nat
      BY <1>1, <2>2 DEF Steps
    <3> QED
      BY <2>2, <3>1, <3>2 DEF Newest
  <2>6. \A s \in doomed' : \E e \in ever' : e[1] > s
    BY <2>1, <2>2 DEF NewestInv
  <2> QED
    BY <2>1, <2>2, <2>3, <2>4, <2>5, <2>6 DEF NewestInv
<1>12. CASE Restart
  BY <1>12 DEF Restart, disk, SavedInv, SavedSteps, NewestInv, Newest
<1>13. CASE UNCHANGED vars
  BY <1>2, <1>13 DEF vars, disk
<1> QED
  BY <1>3, <1>4, <1>5, <1>6, <1>7, <1>8, <1>9, <1>10, <1>11, <1>12, <1>13 DEF Next

(* Wherever a run is killed, the latest checkpoint that the next one finds *)
(* is whole, and the newest that was ever saved is whole under one name or *)
(* the other.                                                              *)
THEOREM RestartAlwaysFindsWhole == Spec => []RestartFindsWhole
<1>1. DiskInv => RestartFindsWhole
  <2> SUFFICES ASSUME DiskInv PROVE RestartFindsWhole
    OBVIOUS
  <2>1. NewestDurable
    BY DEF DiskInv, NewestInv, NewestDurable
  <2>2. ASSUME Latest # 0, \A s \in Steps : final[s] = Empty => old[s] = Empty
        PROVE  Whole(final[Latest])
    <3>1. /\ Latest \in Steps /\ final[Latest] # Empty
          /\ \A t \in Steps : final[t] # Empty => t <= Latest
      BY <2>2, LatestGreatest
    <3>2. Latest \in SavedSteps
      BY <3>1 DEF DiskInv, SavedInv
    <3>3. PICK m \in Steps : Newest(m)
      BY <3>2 DEF DiskInv, SavedInv, SavedSteps
    <3>4. Latest <= m
      BY <3>2, <3>3 DEF Newest, SavedSteps
    <3>5. Whole(final[m]) /\ final[m] # Empty
      BY <2>2, <3>3, EmptyNotWhole DEF DiskInv, NewestInv
    <3>6. m <= Latest
      BY <3>1, <3>5
    <3>7. m = Latest
      BY <3>1, <3>4, <3>6 DEF Steps
    <3> QED
      BY <3>5, <3>7
  <2> QED
    BY <2>1, <2>2 DEF RestartFindsWhole, LatestWhole
<1>2. DiskInv /\ [Next]_vars => DiskInv'
  BY TypeInvStep, WrittenInvStep, SavedNewestStep DEF DiskInv
<1> QED
  BY <1>1, <1>2, DiskInvInit, PTL DEF Spec

-----------------------------------------------------------------------------
(* The best checkpoints.  A directory holds nothing but files of the       *)
(* newest attempt at its step; a saved step that is not there whole is set *)
(* aside, or KeepTopK of those ever saved beat it, and the pruning removes *)
(* only such steps.                                                        *)
IsCurrent(s, a) == <<s, a>> \in ever /\ \A e \in ever : e[1] = s => e[2] <= a
Better(s) == {e \in ever : Above(score[e[2]], e[1], score[Current(s)], s)}
Beaten(s) == KeepTopK <= Cardinality(Better(s))
Kept(s) == \A f \in Files : final[s][f] = Current(s)

BestInv ==
  /\ IsFiniteSet(ever) /\ \A e \in ever : e[2] <= attempt
  /\ \A s \in SavedSteps : IsCurrent(s, Current(s))
  /\ \A s \in Steps, f \in Files :
       final[s][f] # Gone => s \in SavedSteps /\ final[s][f] = Current(s)
  /\ phase = "clear" => Kept(saving)
  /\ \A s \in SavedSteps : Kept(s) \/ old[s] # Empty \/ Beaten(s)
  /\ \A s \in doomed : s \in SavedSteps /\ Beaten(s)
  /\ phase \notin {"remove", "down"} => doomed = {}

(* The newest attempt at a step is the one that no other exceeds.          *)
LEMMA CurrentIs ==
  ASSUME TypeInv, NEW s, NEW a, IsCurrent(s, a)
  PROVE  Current(s) = a /\ a \in Attempts /\ s \in Steps /\ s \in SavedSteps
<1>1. ever \subseteq Steps \X Attempts
  BY DEF TypeInv, TypeOK
<1>2. a \in Attempts /\ s \in Steps
  BY <1>1 DEF IsCurrent
<1>3. \A b \in Attempts :
        (<<s, b>> \in ever /\ \A e \in ever : e[1] = s => e[2] <= b) => b = a
  <2> SUFFICES ASSUME NEW b \in Attempts, IsCurrent(s, b) PROVE b = a
    BY DEF IsCurrent
  <2>1. a <= b /\ b <= a
    <3>1. \A e \in ever : e[1] = s => e[2] <= a /\ e[2] <= b
      BY DEF IsCurrent
    <3>2. <<s, a>> \in ever /\ <<s, b>> \in ever
      BY DEF IsCurrent
    <3> QED
      BY <3>1, <3>2
  <2> QED
    BY <1>2, <2>1 DEF Attempts
<1>4. Current(s) = a
  BY <1>2, <1>3 DEF Current, IsCurrent
<1>5. s \in SavedSteps
  BY DEF IsCurrent, SavedSteps
<1> QED
  BY <1>2, <1>4, <1>5

(* What is saved has a newest attempt, and what beats a step is finite.    *)
LEMMA BestShape ==
  ASSUME TypeInv, BestInv
  PROVE  /\ ever \subseteq Steps \X Attempts /\ SavedSteps \subseteq Steps
         /\ \A s \in SavedSteps : Current(s) \in Attempts
         /\ \A s : IsFiniteSet(Better(s)) /\ Cardinality(Better(s)) \in Nat
<1>1. ever \subseteq Steps \X Attempts
  BY DEF TypeInv, TypeOK
<1>2. SavedSteps \subseteq Steps
  BY <1>1 DEF SavedSteps
<1>3. \A s \in SavedSteps : Current(s) \in Attempts
  BY CurrentIs DEF BestInv
<1>4. ASSUME NEW s PROVE IsFiniteSet(Better(s)) /\ Cardinality(Better(s)) \in Nat
  <2>1. Better(s) \subseteq ever
    BY DEF Better
  <2>2. IsFiniteSet(Better(s))
    BY <2>1, FS_Subset DEF BestInv
  <2> QED
    BY <2>2, FS_CardinalityType
<1> QED
  BY <1>1, <1>2, <1>3, <1>4

(* Once beaten, a step stays beaten as long as it is not saved again.      *)
LEMMA BeatenStays ==
  ASSUME TypeInv, BestInv, IsFiniteSet(ever'), ever \subseteq ever', NEW s,
         Current(s)' = Current(s), Current(s) \in Attempts,
         \A a \in Attempts : a <= attempt => score'[a] = score[a],
         Current(s) <= attempt, Beaten(s)
  PROVE  Beaten(s)'
<1>1. Better(s) \subseteq Better(s)'
  <2>1. ASSUME NEW e \in Better(s) PROVE e \in Better(s)'
    <3>1. e \in ever /\ e[2] \in Attempts /\ e[2] <= attempt
      BY BestShape DEF Better, BestInv
    <3>2. score'[e[2]] = score[e[2]] /\ score'[Current(s)] = score[Current(s)]
      BY <3>1
    <3>3. Above(score'[e[2]], e[1], score'[Current(s)'], s)
      BY <2>1, <3>2 DEF Better
    <3> QED
      BY <3>1, <3>3 DEF Better
  <2> QED
    BY <2>1
<1>2. IsFiniteSet(Better(s)')
  <2>1. Better(s)' \subseteq ever'
    BY DEF Better
  <2> QED
    BY <2>1, FS_Subset
<1>3. Cardinality(Better(s)) <= Cardinality(Better(s)') /\ Cardinality(Better(s)') \in Nat
  BY <1>1, <1>2, FS_Subset, FS_CardinalityType
<1>4. Cardinality(Better(s)) \in Nat /\ KeepTopK \in Nat
  BY BestShape, CheckpointAssumption
<1> QED
  BY <1>3, <1>4 DEF Beaten

(* The histories the pruning counts are among those ever saved, each under *)
(* its step and the attempt whose metric it reads.                         *)
LEMMA SurplusBeaten ==
  ASSUME TypeInv, BestInv, NEW s \in Surplus
  PROVE  Beaten(s)
<1> DEFINE T == {t \in History : Above(Metric(t), t, Metric(s), s)}
           F == [t \in T |-> <<t, final[t][Info]>>]
<1>1. \A t \in History : /\ t \in SavedSteps /\ final[t][Info] = Current(t)
                         /\ <<t, Current(t)>> \in ever
  BY DEF History, BestInv, IsCurrent, Files, Info
<1>2. s \in History /\ KeepTopK <= Cardinality(T)
  BY DEF Surplus
<1>3. \A t \in T : F[t] \in Better(s)
  BY <1>1, <1>2 DEF Better, Metric
<1>4. F \in Injection(T, Better(s))
  <2>1. F \in [T -> Better(s)]
    BY <1>3
  <2>2. \A a, b \in T : F[a] = F[b] => a = b
    OBVIOUS
  <2> HIDE DEF F, T
  <2> QED
    BY <2>1, <2>2, Fun_IsInj
<1>5. IsFiniteSet(T) /\ Cardinality(T) <= Cardinality(Better(s))
  <2> HIDE DEF F, T
  <2> QED
    BY <1>4, BestShape, FS_Injection
<1>6. Cardinality(T) \in Nat /\ Cardinality(Better(s)) \in Nat /\ KeepTopK \in Nat
  <2> HIDE DEF T
  <2> QED
    BY <1>5, FS_CardinalityType, BestShape, CheckpointAssumption
<1> HIDE DEF T
<1> QED
  BY <1>2, <1>5, <1>6 DEF Beaten

LEMMA InitBest == Init => BestInv
<1> SUFFICES ASSUME Init PROVE BestInv
  OBVIOUS
<1>1. IsFiniteSet(ever)
  BY FS_EmptySet DEF Init
<1>2. \A s \in Steps, f \in Files : final[s][f] = Gone
  BY DEF Init, Empty
<1>3. SavedSteps = {} /\ ever = {} /\ doomed = {} /\ phase = "train"
  BY DEF Init, SavedSteps
<1> QED
  BY <1>1, <1>2, <1>3 DEF BestInv

(* While nothing is saved, the newest attempts stay and the beaten steps   *)
(* stay beaten.                                                            *)
LEMMA NothingSaved ==
  ASSUME TypeInv, BestInv, UNCHANGED ever, attempt <= attempt',
         attempt' \in Nat, \A a \in Attempts : a <= attempt => score'[a] = score[a]
  PROVE  /\ IsFiniteSet(ever') /\ \A e \in ever' : e[2] <= attempt'
         /\ SavedSteps' = SavedSteps
         /\ \A s : Current(s)' = Current(s)
         /\ \A s \in SavedSteps' : IsCurrent(s, Current(s))'
         /\ \A s \in SavedSteps : Beaten(s) => Beaten(s)'
<1>1. attempt \in Nat /\ ever \subseteq Steps \X Attempts
  BY CheckpointAssumption DEF TypeInv, TypeOK
<1>2. \A e \in ever' : e[2] <= attempt'
  BY <1>1 DEF BestInv, Attempts
<1>3. SavedSteps' = SavedSteps
  BY DEF SavedSteps
<1>4. \A s : Current(s)' = Current(s)
  BY DEF Current
<1>5. \A s \in SavedSteps' : IsCurrent(s, Current(s))'
  BY <1>3, <1>4 DEF BestInv, IsCurrent
<1>6. ASSUME NEW s \in SavedSteps, Beaten(s) PROVE Beaten(s)'
  <2>1. Current(s) \in Attempts /\ Current(s) <= attempt
    BY BestShape DEF BestInv, IsCurrent
  <2> QED
    BY <1>4, <1>6, <2>1, BeatenStays DEF BestInv
<1> QED
  BY <1>2, <1>3, <1>4, <1>5, <1>6 DEF BestInv

LEMMA CurrentAfter ==
  (TypeInv => \A s, a : IsCurrent(s, a) => Current(s) = a)'
<1>1. TypeInv => \A s, a : IsCurrent(s, a) => Current(s) = a
  BY CurrentIs
<1> QED
  BY <1>1, PTL

(* Saving a step makes this attempt its newest, and whole.                 *)
LEMMA PublishBest ==
  ASSUME TypeInv, TypeInv', BestInv, phase \in {"finalize", "swap"},
         \A f \in Files : tmp[saving][f] = attempt,
         Publish, UNCHANGED <<old, saving, attempt, score, doomed>>
  PROVE  BestInv'
<1>1. /\ saving \in Steps /\ attempt \in Attempts /\ ever \subseteq Steps \X Attempts
      /\ final \in [Steps -> Dir] /\ Attempts \subseteq Nat
  BY DEF TypeInv, TypeOK, Saving, Attempts
<1>2. /\ ever' = ever \cup {<<saving, attempt>>}
      /\ \A f \in Files : final'[saving][f] = attempt
      /\ \A s \in Steps : s # saving => final'[s] = final[s]
  BY <1>1 DEF Publish
<1>3. /\ IsFiniteSet(ever')
      /\ \A e \in ever' : e[2] <= attempt
  <2>1. IsFiniteSet(ever')
    BY <1>2, FS_AddElement DEF BestInv
  <2>2. \A e \in ever : e[2] <= attempt
    BY DEF BestInv
  <2> QED
    BY <1>1, <1>2, <2>1, <2>2
<1>4. /\ SavedSteps \subseteq SavedSteps' /\ saving \in SavedSteps'
      /\ \A s \in SavedSteps' : s # saving => s \in SavedSteps
  <2>1. <<saving, attempt>> \in ever' /\ <<saving, attempt>>[1] = saving
    BY <1>2
  <2> QED
    BY <1>2, <2>1 DEF SavedSteps
<1>5. IsCurrent(saving, attempt)' /\ Current(saving)' = attempt
  <2>1. IsCurrent(saving, attempt)'
    BY <1>2, <1>3 DEF IsCurrent
  <2>2. \A a, s : IsCurrent(s, a)' => Current(s)' = a
    BY CurrentAfter
  <2> QED
    BY <2>1, <2>2
<1>6. ASSUME NEW s \in SavedSteps, s # saving
      PROVE  /\ IsCurrent(s, Current(s))' /\ Current(s)' = Current(s)
             /\ s \in Steps /\ Current(s) \in Attempts /\ Current(s) <= attempt
  <2>1. PICK c \in Attempts : c = Current(s)
    BY BestShape
  <2>2. <<s, c>> \in ever /\ \A e \in ever : e[1] = s => e[2] <= c
    BY <2>1 DEF BestInv, IsCurrent
  <2>3. IsCurrent(s, c)'
    BY <1>2, <1>6, <2>2 DEF IsCurrent
  <2>4. Current(s)' = c
    BY <2>3, CurrentAfter
  <2>5. IsCurrent(s, Current(s))'
    BY <2>3, <2>4 DEF IsCurrent
  <2> QED
    BY <1>1, <2>1, <2>2, <2>4, <2>5, BestShape DEF BestInv
<1>7. Kept(saving)'
  BY <1>2, <1>5 DEF Kept
<1>8. ASSUME NEW s \in SavedSteps', s # saving
      PROVE  (Kept(s) \/ old[s] # Empty \/ Beaten(s)) => (Kept(s) \/ old[s] # Empty \/ Beaten(s))'
  <2>1. s \in SavedSteps /\ Current(s)' = Current(s) /\ final'[s] = final[s]
    BY <1>2, <1>4, <1>6, <1>8
  <2>2. Kept(s) => Kept(s)'
    BY <2>1 DEF Kept
  <2>3. Beaten(s) => Beaten(s)'
    BY <1>2, <1>3, <1>6, <1>8, <2>1, BeatenStays
  <2> QED
    BY <2>2, <2>3
<1>9. doomed = {} /\ \A s \in SavedSteps : Kept(s) \/ old[s] # Empty \/ Beaten(s)
  BY DEF BestInv
<1>10. \A s \in SavedSteps' : IsCurrent(s, Current(s))'
  <2> SUFFICES ASSUME NEW s \in SavedSteps' PROVE IsCurrent(s, Current(s))'
    OBVIOUS
  <2>1. CASE s = saving
    BY <1>5, <2>1 DEF IsCurrent
  <2>2. CASE s # saving
    BY <1>4, <1>6, <2>2
  <2> QED
    BY <2>1, <2>2
<1>11. ASSUME NEW s \in Steps, NEW f \in Files, final'[s][f] # Gone
       PROVE  s \in SavedSteps' /\ final'[s][f] = Current(s)'
  <2>1. CASE s = saving
    BY <1>2, <1>4, <1>5, <2>1
  <2>2. CASE s # saving
    <3>1. s \in SavedSteps /\ final[s][f] = Current(s) /\ final'[s] = final[s]
      BY <1>2, <1>11, <2>2 DEF BestInv
    <3> QED
      BY <1>4, <1>6, <2>2, <3>1
  <2> QED
    BY <2>1, <2>2
<1>12. \A s \in SavedSteps' : (Kept(s) \/ old[s] # Empty \/ Beaten(s))'
  <2> SUFFICES ASSUME NEW s \in SavedSteps' PROVE (Kept(s) \/ old[s] # Empty \/ Beaten(s))'
    OBVIOUS
  <2>1. CASE s = saving
    BY <1>7, <2>1 DEF Kept
  <2>2. CASE s # saving
    BY <1>4, <1>8, <1>9, <2>2
  <2> QED
    BY <2>1, <2>2
<1> QED
  BY <1>3, <1>7, <1>9, <1>10, <1>11, <1>12 DEF BestInv

LEMMA NextBest == TypeInv /\ TypeInv' /\ WrittenInv /\ BestInv /\ [Next]_vars => BestInv'
<1> SUFFICES ASSUME TypeInv, TypeInv', WrittenInv, BestInv, [Next]_vars PROVE BestInv'
  OBVIOUS
<1>1. /\ final \in [Steps -> Dir] /\ old \in [Steps -> Dir] /\ doomed \subseteq Steps
      /\ attempt \in Nat /\ attempt' \in Nat /\ Attempts \subseteq Nat
      /\ score \in [Attempts -> Scores \cup {NoMetric}]
  BY CheckpointAssumption DEF TypeInv, TypeOK, Attempts
<1>2. ASSUME UNCHANGED <<final, old, saving, ever, doomed>>, attempt <= attempt',
             \A a \in Attempts : a <= attempt => score'[a] = score[a],
             phase' = "clear" => phase = "clear",
             phase' \notin {"remove", "down"} => doomed = {}
      PROVE  BestInv'
  <2>1. \A s : Kept(s)' <=> Kept(s)
    BY <1>1, <1>2, NothingSaved DEF Kept
  <2> QED
    BY <1>1, <1>2, <2>1, NothingSaved DEF BestInv, Kept
<1>3. ASSUME NEW s \in Steps, NEW m \in Scores \cup {NoMetric}, Begin(s, m) PROVE BestInv'
  <2>1. UNCHANGED <<final, old, ever, doomed>> /\ phase' = "write" /\ doomed = {}
    BY <1>3 DEF Begin, BestInv
  <2>2. attempt' = attempt + 1 /\ score' = [score EXCEPT ![attempt + 1] = m]
    BY <1>3 DEF Begin
  <2>3. attempt <= attempt' /\ \A a \in Attempts : a <= attempt => score'[a] = score[a]
    BY <1>1, <2>2
  <2>4. \A r : Kept(r)' <=> Kept(r)
    BY <1>1, <2>1, <2>3, NothingSaved DEF Kept
  <2> QED
    BY <1>1, <2>1, <2>3, <2>4, NothingSaved DEF BestInv
<1>4. CASE WriteFile
  BY <1>1, <1>2, <1>4 DEF WriteFile, BestInv
<1>5. CASE Rename
  BY <1>5, PublishBest DEF Rename, WrittenInv
<1>6. CASE SetAside
  <2>1. /\ saving \in Steps /\ final[saving] # Empty /\ doomed = {}
        /\ old' = [old EXCEPT ![saving] = final[saving]]
        /\ final' = [final EXCEPT ![saving] = Empty]
        /\ phase' = "swap" /\ UNCHANGED <<attempt, score, doomed, ever>>
    BY <1>6 DEF SetAside, TypeInv, Saving, BestInv
  <2>2. /\ final'[saving] = Empty /\ old'[saving] = final[saving]
        /\ \A s \in Steps : s # saving => final'[s] = final[s] /\ old'[s] = old[s]
    BY <1>1, <2>1
  <2>3. SavedSteps' = SavedSteps /\ SavedSteps \subseteq Steps /\ \A s : Current(s)' = Current(s)
    BY <1>1, <2>1, NothingSaved, BestShape
  <2>4. \A s \in Steps, f \in Files :
          final'[s][f] # Gone => s \in SavedSteps' /\ final'[s][f] = Current(s)'
    BY <2>2, <2>3 DEF BestInv, Empty
  <2>5. ASSUME NEW s \in SavedSteps PROVE (Kept(s) \/ old[s] # Empty \/ Beaten(s))'
    <3>1. CASE s = saving
      BY <2>1, <2>2, <3>1
    <3>2. CASE s # saving
      BY <1>1, <2>1, <2>2, <2>3, <3>2, NothingSaved DEF BestInv, Kept
    <3> QED
      BY <3>1, <3>2
  <2> QED
    BY <1>1, <2>1, <2>3, <2>4, <2>5, NothingSaved DEF BestInv
<1>7. CASE SetAsideFails \/ Crash
  BY <1>1, <1>2, <1>7 DEF SetAsideFails, Crash, disk
<1>8. CASE Swap
  BY <1>8, PublishBest DEF Swap, WrittenInv
<1>9. CASE ClearOld
  <2>1. /\ phase = "clear" /\ phase' \in {"prune", "clear"} /\ saving \in Steps
        /\ Kept(saving) /\ doomed = {}
        /\ UNCHANGED <<final, saving, attempt, score, doomed, ever>>
    BY <1>9 DEF ClearOld, TypeInv, Saving, BestInv
  <2>2. \A s \in Steps : s # saving => old'[s] = old[s]
    BY <1>1, <1>9 DEF ClearOld
  <2>3. SavedSteps' = SavedSteps /\ SavedSteps \subseteq Steps /\ \A s : Kept(s)' <=> Kept(s)
    BY <1>1, <2>1, NothingSaved, BestShape DEF Kept
  <2>4. ASSUME NEW s \in SavedSteps PROVE (Kept(s) \/ old[s] # Empty \/ Beaten(s))'
    <3>1. CASE s = saving
      BY <2>1, <2>3, <3>1
    <3>2. CASE s # saving
      BY <1>1, <2>1, <2>2, <2>3, <3>2, NothingSaved DEF BestInv
    <3> QED
      BY <3>1, <3>2
  <2>5. Kept(saving)'
    BY <2>1, <2>3 DEF Kept
  <2> QED
    BY <1>1, <2>1, <2>3, <2>4, <2>5, NothingSaved DEF BestInv
<1>10. CASE Prune
  <2>1. /\ UNCHANGED <<final, old, attempt, score, ever>> /\ doomed' = Surplus
        /\ phase' = IF Surplus = {} THEN "train" ELSE "remove"
    BY <1>10 DEF Prune, disk
  <2>2. \A s \in Surplus : s \in SavedSteps /\ Beaten(s)
    BY SurplusBeaten DEF Surplus, History, BestInv, Files, Info
  <2>3. \A s : Kept(s)' <=> Kept(s)
    BY <1>1, <2>1, NothingSaved DEF Kept
  <2> QED
    BY <1>1, <2>1, <2>2, <2>3, NothingSaved DEF BestInv
<1>11. CASE Remove
  <2>1. PICK r \in doomed, f \in Files :
          /\ final' = [final EXCEPT ![r][f] = Gone]
          /\ doomed' = IF final'[r] = Empty THEN doomed \ {r} ELSE doomed
          /\ phase' = IF doomed' = {} THEN "train" ELSE phase
    BY <1>11 DEF Remove
  <2>2. phase = "remove" /\ UNCHANGED <<old, saving, attempt, score, ever>> /\ r \in Steps
    BY <1>1, <1>11 DEF Remove, disk
  <2>3. /\ SavedSteps' = SavedSteps /\ SavedSteps \subseteq Steps
        /\ \A s : Current(s)' = Current(s)
    BY <1>1, <2>2, NothingSaved, BestShape
  <2>4. \A s \in Steps : s # r => final'[s] = final[s]
    BY <1>1, <2>1, <2>2
  <2>5. \A g \in Files : final'[r][g] # Gone => final'[r][g] = final[r][g]
    BY <1>1, <2>1, <2>2 DEF Dir
  <2>6. \A s \in Steps, g \in Files :
          final'[s][g] # Gone => s \in SavedSteps' /\ final'[s][g] = Current(s)'
    BY <2>2, <2>3, <2>4, <2>5 DEF BestInv
  <2>7. \A s \in doomed' : s \in doomed
    BY <2>1
  <2>8. \A s \in doomed : s \in SavedSteps /\ Beaten(s)'
    BY <1>1, <2>2, NothingSaved DEF BestInv
  <2>9. ASSUME NEW s \in SavedSteps PROVE (Kept(s) \/ old[s] # Empty \/ Beaten(s))'
    <3>1. CASE s = r
      BY <2>8, <3>1
    <3>2. CASE s # r
      BY <1>1, <2>2, <2>3, <2>4, <3>2, NothingSaved DEF BestInv, Kept
    <3> QED
      BY <3>1, <3>2
  <2>10. phase' # "clear" /\ (phase' \notin {"remove", "down"} => doomed' = {})
    BY <2>1, <2>2
  <2> QED
    BY <1>1, <2>2, <2>3, <2>6, <2>7, <2>8, <2>9, <2>10, NothingSaved DEF BestInv
<1>12. CASE Restart
  <2>1. /\ UNCHANGED <<final, old, attempt, score, ever>> /\ doomed' = {} /\ phase' = "train"
    BY <1>12 DEF Restart, disk
  <2>2. \A s : Kept(s)' <=> Kept(s)
    BY <1>1, <2>1, NothingSaved DEF Kept
  <2> QED
    BY <1>1, <2>1, <2>2, NothingSaved DEF BestInv
<1>13. CASE UNCHANGED vars
  BY <1>1, <1>2, <1>13 DEF vars, disk, BestInv
<1> QED
  BY <1>3, <1>4, <1>5, <1>6, <1>7, <1>8, <1>9, <1>10, <1>11, <1>12, <1>13 DEF Next

(* The pruning, with missing and with equal metrics, cut short by a crash  *)
(* and done again, never costs a checkpoint that fewer than KeepTopK of    *)
(* those ever saved beat: unless its step is being replaced, it is there.  *)
THEOREM BestStayKept == Spec => []BestKept
<1>1. TypeInv /\ BestInv => BestKept
  <2> SUFFICES ASSUME TypeInv, BestInv, NEW s \in SavedSteps, old[s] = Empty,
                      Cardinality(Better(s)) < KeepTopK
               PROVE  Whole(final[s])
    BY DEF BestKept, SavedSteps, Better
  <2>1. s \in Steps /\ Current(s) \in Attempts /\ Cardinality(Better(s)) \in Nat
    BY BestShape
  <2>2. ~ Beaten(s)
    BY <2>1, CheckpointAssumption DEF Beaten
  <2>3. Kept(s)
    BY <2>2 DEF BestInv
  <2>4. final[s] \in Dir
    BY <2>1 DEF TypeInv, TypeOK
  <2>5. final[s] = [f \in Files |-> Current(s)]
    BY <2>3, <2>4 DEF Kept, Dir
  <2> QED
    BY <2>1, <2>5 DEF Whole
<1>2. Init => TypeInv /\ WrittenInv /\ BestInv
  BY TypeInvInit, DiskInvInit, InitBest DEF DiskInv
<1>3. TypeInv /\ WrittenInv /\ BestInv /\ [Next]_vars => (TypeInv /\ WrittenInv /\ BestInv)'
  BY TypeInvStep, WrittenInvStep, NextBest
<1> QED
  BY <1>1, <1>2, <1>3, PTL DEF Spec

=============================================================================
