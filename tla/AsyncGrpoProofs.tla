-------------------------- MODULE AsyncGrpoProofs --------------------------
(***************************************************************************)
(* The types and the safety properties of asynchronous GRPO proved, for    *)
(* any number of prompts, batches, steps, failures and crashes and any     *)
(* schedule.  The invariant of the types says where each thread stands     *)
(* when its variables mean something, which the other proofs rely on.      *)
(***************************************************************************)
EXTENDS AsyncGrpo, SequenceTheorems, FiniteSetTheorems, FunctionTheorems, TLAPS

(***************************************************************************)
(* The inductive invariant, in parts.  The first parts say where the       *)
(* threads stand when their local variables mean something.                *)
(***************************************************************************)

Between == {"unstarted", "fetch", "stopped"}

LoopShape ==
  /\ loop \notin Between => pos \in 1 .. NumBatches
  /\ loop \in Starting => target \in Nat
  /\ loop \notin Starting => prompt = 0

ActorShape ==
  /\ actor = "wake" => /\ inbox # <<>> /\ Head(inbox).op = "set_weight_version"
                       /\ Head(inbox).arg = currentVersion
  /\ actor = "drain" => inbox # <<>> /\ Head(inbox).op = "prepare_for_refit"
  /\ \A i \in 1 .. Len(inbox) :
       inbox[i].op = "start_collection" => i = 1 /\ loop = "unstarted"

TrainerShape ==
  /\ trainer \in {"setup", "val_start", "fill"} => weightVersion = step
  /\ trainer \in {"sample", "train", "drain", "refit"} =>
       step < MaxSteps /\ weightVersion = step
  /\ trainer \in {"validate", "save", "await_state", "await_last"} =>
       step < MaxSteps /\ weightVersion = step + 1

TypeInv == TypeOK /\ LoopShape /\ ActorShape /\ TrainerShape

Message == [op : Calls, arg : Nat]

USE MaxSizeAssumption, CollectorAssumption, TrainerAssumption, GroupsAssumption
-----------------------------------------------------------------------------
(* Sequences of calls. *)

LEMMA SendTo ==
  ASSUME inbox \in Seq(Message), NEW calls \in Seq(Message), Send(calls)
  PROVE  /\ inbox' \in Seq(Message)
         /\ Len(inbox') = Len(inbox) + Len(calls)
         /\ \A i \in 1 .. Len(inbox) : inbox'[i] = inbox[i]
         /\ \A i \in 1 .. Len(calls) : inbox'[Len(inbox) + i] = calls[i]
         /\ inbox # <<>> => inbox' # <<>> /\ Head(inbox') = Head(inbox)
BY ConcatProperties DEF Send

LEMMA ReturnFrom ==
  ASSUME inbox \in Seq(Message), inbox # <<>>, Return
  PROVE  /\ inbox' \in Seq(Message)
         /\ Len(inbox') = Len(inbox) - 1
         /\ \A i \in 1 .. Len(inbox') : inbox'[i] = inbox[i + 1]
BY HeadTailProperties DEF Return

LEMMA CallsTyped ==
  ASSUME NEW op1 \in Calls, NEW op2 \in Calls, NEW op3 \in Calls,
         NEW a \in Nat, NEW b \in Nat, NEW c \in Nat
  PROVE  /\ <<Call(op1, a)>> \in Seq(Message)
         /\ <<Call(op1, a), Call(op2, b)>> \in Seq(Message)
         /\ <<Call(op1, a), Call(op2, b), Call(op3, c)>> \in Seq(Message)
BY DEF Call, Message

-----------------------------------------------------------------------------
(* Types, and where the threads stand.                                      *)

LEMMA InitTyped == Init => TypeInv
<1> SUFFICES ASSUME Init PROVE TypeInv
  OBVIOUS
<1>1. inbox \in Seq(Message)
  BY CallsTyped DEF Init, CollectorStart, Calls
<1>2. PoolTypeOK
  BY DEF Init, PoolInit, PoolTypeOK
<1>3. LoopTypeOK
  <2>1. running \in BOOLEAN
    BY Zenon DEF Init, CollectorStart
  <2>2. QED
    BY <2>1 DEF Init, CollectorStart, LoopTypeOK, None, LoopStates
<1>4. SharedTypeOK
  BY DEF Init, CollectorStart, SharedTypeOK, Permits
<1>5. GroupTypeOK
  <2>1. work \in [Groups -> WorkStates]
    BY DEF Init, WorkStates
  <2>2. version \in [Groups -> Nat] /\ goal \in [Groups -> Nat]
    BY DEF Init, CollectorStart
  <2>3. born \in [Groups -> Nat \cup {Dummy}]
    BY DEF Init, CollectorStart
  <2>4. QED
    BY <2>1, <2>2, <2>3 DEF GroupTypeOK
<1>6. ActorTypeOK
  BY <1>1 DEF Init, CollectorStart, ActorTypeOK, Message, Dummy
<1>7. TypeOK
  BY <1>2, <1>3, <1>4, <1>5, <1>6 DEF Init, TypeOK, CollectorTypeOK, TrainerStates
<1>8. LoopShape /\ ActorShape /\ TrainerShape
  BY DEF Init, CollectorStart, LoopShape, ActorShape, TrainerShape, Between, Starting, Call
<1>9. QED
  BY <1>7, <1>8 DEF TypeInv

LEMMA LoopTyped ==
  ASSUME TypeInv, LoopStep, UNCHANGED trainerVars
  PROVE  TypeInv'
<1> USE DEF poolVars, pauseVars, actorVars, trainerVars, loopVars, localVars, sharedVars,
            groupVars
<1>1. PoolTypeOK' /\ TrainerShape' /\ ActorTypeOK'
  BY DEF LoopStep, TypeInv, TypeOK, CollectorTypeOK, PoolTypeOK, TrainerShape, ActorTypeOK
<1>2. ActorShape'
  BY DEF LoopStep, TypeInv, ActorShape, Fetch, WaitManualPause, WaitRefitPause, LimitRead,
         LimitCheck, LimitWarn, LimitClear, LimitWait, BatchRead, Reserve, DropBatch,
         PromptCheck, PromptWait, Acquire, StartWorker, Goto
<1>3. LoopTypeOK' /\ LoopShape' /\ SharedTypeOK' /\ GroupTypeOK'
  <2> /\ LoopTypeOK /\ LoopShape /\ SharedTypeOK /\ GroupTypeOK
      /\ currentVersion \in Nat /\ weights \in Nat \cup {Dummy}
    BY DEF TypeInv, TypeOK, CollectorTypeOK, ActorTypeOK
  <2> USE DEF LoopTypeOK, SharedTypeOK, LoopShape, Between, Starting, LoopStates
  <2>1. CASE Fetch
    <3>1. running' \in BOOLEAN
      BY <2>1, Zenon DEF Fetch
    <3>2. CASE pos < NumBatches
      BY <2>1, <3>1, <3>2 DEF Fetch, GroupTypeOK
    <3>3. CASE ~(pos < NumBatches)
      BY <2>1, <3>1, <3>3 DEF Fetch, GroupTypeOK
    <3>4. QED
      BY <3>2, <3>3
  <2>2. ASSUME NEW l \in LoopStates \ Between, Goto(l), loop \notin Between,
               loop \in Starting <=> l \in Starting
        PROVE  LoopTypeOK' /\ LoopShape' /\ SharedTypeOK' /\ GroupTypeOK'
    BY <2>2 DEF Goto, GroupTypeOK
  <2>3. CASE LimitRead
    BY <2>3 DEF LimitRead, ReadTargets, TargetWeights, GroupTypeOK
  <2>4. CASE LimitCheck
    BY <2>4 DEF LimitCheck, GroupTypeOK
  <2>5. CASE LimitClear
    BY <2>5 DEF LimitClear, GroupTypeOK
  <2>6. CASE BatchRead
    BY <2>6 DEF BatchRead, ReadTargets, TargetWeights, GroupTypeOK
  <2>7. CASE Reserve
    BY <2>7 DEF Reserve, OpenTargets, GroupTypeOK
  <2>8. CASE DropBatch
    BY <2>8 DEF DropBatch, BatchDone, GroupTypeOK
  <2>9. CASE PromptWait
    BY <2>9 DEF PromptWait, GroupTypeOK
  <2>10. CASE Acquire
    BY <2>10 DEF Acquire, Groups, GroupTypeOK
  <2>11. CASE StartWorker
    <3>1. <<pos, prompt>> \in Groups /\ target \in Nat
      BY <2>11 DEF StartWorker, Groups
    <3>2. GroupTypeOK'
      BY <2>11, <3>1 DEF StartWorker, GroupTypeOK, WorkStates
    <3>3. tracked' \in SUBSET Groups
      BY <2>11 DEF StartWorker
    <3>4. CASE prompt < NumPrompts - 1
      <4>1. /\ prompt' = prompt + 1 /\ loop' = "prompt_check"
            /\ UNCHANGED <<running, lastWarned, pos, unmade, genVersion, target>>
        BY <2>11, <3>4 DEF StartWorker
      <4>2. LoopTypeOK' /\ LoopShape'
        BY <2>11, <3>1, <3>4, <4>1 DEF StartWorker
      <4>3. QED
        BY <2>11, <3>2, <3>3, <4>2 DEF StartWorker
    <3>5. CASE ~(prompt < NumPrompts - 1)
      <4>1. BatchDone /\ UNCHANGED <<running, lastWarned, pos>>
        BY <2>11, <3>5 DEF StartWorker
      <4>2. LoopTypeOK' /\ LoopShape'
        BY <2>11, <3>1, <4>1 DEF StartWorker, BatchDone
      <4>3. QED
        BY <2>11, <3>2, <3>3, <4>2 DEF StartWorker
    <3>6. QED
      BY <3>4, <3>5
  <2>12. QED
    BY <2>1, <2>2, <2>3, <2>4, <2>5, <2>6, <2>7, <2>8, <2>9, <2>10, <2>11
       DEF LoopStep, WaitManualPause, WaitRefitPause, LimitWarn, LimitWait, PromptCheck
<1>4. QED
  BY <1>1, <1>2, <1>3 DEF TypeInv, TypeOK, CollectorTypeOK, LoopStep

LEMMA WorkerTyped ==
  ASSUME TypeInv, NEW g \in Groups, WorkerStep(g), UNCHANGED trainerVars
  PROVE  TypeInv'
<1> USE DEF poolVars, pauseVars, actorVars, trainerVars, loopVars, localVars, sharedVars
<1>1. LoopTypeOK' /\ LoopShape' /\ ActorShape' /\ TrainerShape'
  BY DEF WorkerStep, TypeInv, TypeOK, CollectorTypeOK, LoopTypeOK, LoopShape, ActorShape,
         TrainerShape
<1>2. failures' \in Nat
  BY DEF WorkerStep, TypeInv, TypeOK, CollectorTypeOK, ActorTypeOK, RolloutFails, Push,
         PushFull, PushStopped, Unreserve, Cleanup, Release
<1>3. ActorTypeOK'
  BY <1>2 DEF WorkerStep, TypeInv, TypeOK, CollectorTypeOK, ActorTypeOK
<1>4. SharedTypeOK'
  <2>1. SharedTypeOK /\ UNCHANGED limitCleared
    BY DEF TypeInv, TypeOK, CollectorTypeOK, WorkerStep
  <2>2. generating' \subseteq generating /\ tracked' \subseteq tracked
    BY DEF WorkerStep, RolloutFails, Push, PushFull, PushStopped, Unreserve, Cleanup, Release
  <2>3. permits' \in {permits, permits + 1}
    BY DEF WorkerStep, RolloutFails, Push, PushFull, PushStopped, Unreserve, Cleanup, Release
  <2>4. QED
    BY <2>1, <2>2, <2>3 DEF SharedTypeOK
<1>5. GroupTypeOK'
  <2>1. GroupTypeOK
    BY DEF TypeInv, TypeOK, CollectorTypeOK
  <2>2. \E w \in WorkStates : work' = [work EXCEPT ![g] = w]
    BY DEF WorkerStep, RolloutFails, Push, PushFull, PushStopped, Unreserve, Cleanup, Release,
           Become, WorkStates
  <2>3. CASE UNCHANGED <<version, goal, born>>
    BY <2>1, <2>2, <2>3 DEF GroupTypeOK
  <2>4. CASE Release(g)
    BY <2>1, <2>2, <2>4 DEF GroupTypeOK, Release
  <2>5. QED
    BY <2>3, <2>4 DEF WorkerStep
<1>6. PoolTypeOK'
  <2>1. PoolTypeOK /\ GroupTypeOK
    BY DEF TypeInv, TypeOK, CollectorTypeOK
  <2>2. CASE Push(g)
    <3>1. [id |-> g, version |-> version[g], target |-> goal[g]] \in Entry
      BY <2>1 DEF Entry, GroupTypeOK
    <3>2. QED
      BY <2>1, <2>2, <3>1 DEF Push, PoolPush, PoolTypeOK, Entry, Larger
  <2>3. CASE ~Push(g)
    BY <2>1, <2>3 DEF WorkerStep, RolloutFails, PushFull, PoolFull, PushStopped, Unreserve,
                      Cleanup, Release, PoolTypeOK
  <2>4. QED
    BY <2>2, <2>3
<1>7. QED
  BY <1>1, <1>3, <1>4, <1>5, <1>6 DEF TypeInv, TypeOK, CollectorTypeOK, WorkerStep

(* A set_weight_version is not over before the event is set.               *)
LEMMA SetVersionKeepsCall == SetVersion => ~Return
BY DEF SetVersion, Return

(* Whatever the actor does, the call it is busy with stays first in line.  *)
LEMMA ActorTyped ==
  ASSUME TypeInv, ActorStep, UNCHANGED trainerVars
  PROVE  TypeInv'
<1> USE DEF poolVars, pauseVars, actorVars, trainerVars, loopVars, localVars, sharedVars,
            groupVars
<1>1. /\ PoolTypeOK /\ LoopTypeOK /\ SharedTypeOK /\ GroupTypeOK /\ ActorTypeOK
      /\ LoopShape /\ ActorShape /\ inbox \in Seq(Message)
  BY DEF TypeInv, TypeOK, CollectorTypeOK, ActorTypeOK, Message
<1>2. PoolTypeOK' /\ GroupTypeOK' /\ TrainerShape'
  BY DEF ActorStep, TypeInv, TypeOK, CollectorTypeOK, PoolTypeOK, GroupTypeOK, TrainerShape
<1>3. ASSUME Return, inbox # <<>>, actor' = "idle",
             \/ UNCHANGED loop
             \/ Head(inbox).op = "start_collection"
      PROVE  inbox' \in Seq(Message) /\ ActorShape'
  <2>1. /\ inbox' \in Seq(Message)
        /\ \A i \in 1 .. Len(inbox') : inbox'[i] = inbox[i + 1]
        /\ Len(inbox') = Len(inbox) - 1 /\ Len(inbox) \in Nat
    BY <1>1, <1>3, ReturnFrom
  <2>2. \A i \in 1 .. Len(inbox') : inbox'[i].op # "start_collection"
    BY <1>1, <2>1 DEF ActorShape
  <2>3. QED
    BY <1>3, <2>1, <2>2 DEF ActorShape
<1>4. CASE StartCollection
  <2>1. Head(inbox) = inbox[1] /\ 1 \in 1 .. Len(inbox)
    BY <1>1, <1>4, HeadTailProperties, EmptySeq DEF StartCollection, Serving
  <2>2. loop = "unstarted"
    BY <1>1, <1>4, <2>1 DEF StartCollection, Serving, ActorShape
  <2>3. running' \in BOOLEAN
    BY <1>4, Zenon DEF StartCollection
  <2>4. LoopTypeOK' /\ LoopShape'
    BY <1>1, <1>4, <2>2, <2>3
       DEF StartCollection, LoopTypeOK, LoopShape, LoopStates, Between, Starting, ActorStep
  <2>5. inbox' \in Seq(Message) /\ ActorShape'
    BY <1>3, <1>4 DEF StartCollection, Serving, Return
  <2>6. SharedTypeOK'
    BY <1>1, <1>4 DEF StartCollection, SharedTypeOK
  <2>7. ActorTypeOK'
    <3>1. UNCHANGED <<currentVersion, initialVersion, pauseVars, reply, weights, failures>>
          /\ actor' = "idle"
      BY <1>4, Zenon DEF StartCollection, ActorStep, Return, GetDataloaderState, Serving
    <3>2. QED
      BY <1>1, <2>5, <3>1 DEF ActorTypeOK, Message
  <2>8. QED
    BY <1>2, <2>4, <2>5, <2>6, <2>7 DEF TypeInv, TypeOK, CollectorTypeOK, ActorStep
<1>5. CASE ~StartCollection
  <2>1. LoopTypeOK' /\ LoopShape' /\ UNCHANGED loop
    BY <1>1, <1>5 DEF ActorStep, LoopTypeOK, LoopShape, SetVersion, WakeLoop, Pause, Resume,
       PrepareForRefit, PollPending, ResumeAfterRefit, GetDataloaderState
  <2>2. SharedTypeOK'
    BY <1>1, <1>5 DEF ActorStep, SharedTypeOK, SetVersion, WakeLoop, Pause, Resume,
       PrepareForRefit, PollPending, Pending, ResumeAfterRefit, GetDataloaderState
  <2>3. CASE Return
    <3>1. inbox # <<>>
      BY <1>1, <1>5, <2>3 DEF ActorStep, ActorShape, SetVersion, WakeLoop, Pause, Resume,
         PrepareForRefit, PollPending, ResumeAfterRefit, GetDataloaderState, Serving
    <3>2. inbox' \in Seq(Message) /\ ActorShape'
      BY <1>3, <2>1, <2>3, <3>1 DEF Return
    <3>3. manualCleared' \in BOOLEAN /\ refitCleared' \in BOOLEAN
      BY <1>1, <1>5, Zenon DEF ActorTypeOK, ActorStep, SetVersion, WakeLoop, Pause, Resume,
         PrepareForRefit, PollPending, ResumeAfterRefit, GetDataloaderState
    <3>4. currentVersion' \in Nat /\ reply' \in 0 .. NumBatches
      <4>1. UNCHANGED currentVersion /\ reply' \in {reply, pos}
        BY <1>5, <2>3, SetVersionKeepsCall
           DEF ActorStep, WakeLoop, Pause, Resume, PrepareForRefit, PollPending,
               ResumeAfterRefit, GetDataloaderState, Return
      <4>2. QED
        BY <1>1, <4>1 DEF ActorTypeOK, LoopTypeOK
    <3>5. ActorTypeOK'
      BY <1>1, <1>5, <2>3, <3>2, <3>3, <3>4 DEF ActorTypeOK, ActorStep, Return, Message
    <3>6. QED
      BY <1>2, <2>1, <2>2, <3>2, <3>5 DEF TypeInv, TypeOK, CollectorTypeOK, ActorStep
  <2>4. CASE ~Return
    <3>1. SetVersion \/ (PrepareForRefit /\ ~InFlightUpdates) \/ PollPending
      BY <1>5, <2>4, Zenon DEF ActorStep, WakeLoop, Pause, Resume, PrepareForRefit,
         ResumeAfterRefit, GetDataloaderState
    <3>2. UNCHANGED inbox /\ inbox # <<>>
      BY <1>1, <2>4, <3>1 DEF ActorShape, SetVersion, PrepareForRefit, PollPending, Serving
    <3>3. Head(inbox) \in Message
      BY <1>1, <3>2, HeadTailProperties
    <3>4. manualCleared' \in BOOLEAN /\ refitCleared' \in BOOLEAN
      BY <1>1, <3>1, Zenon DEF ActorTypeOK, SetVersion, PrepareForRefit, PollPending
    <3>5. ActorTypeOK'
      <4>1. /\ currentVersion' \in {currentVersion, Head(inbox).arg}
            /\ actor' \in {actor, "wake", "drain"}
            /\ UNCHANGED <<reply, initialVersion, weights, failures>>
        BY <2>4, <3>1 DEF SetVersion, PrepareForRefit, PollPending, ActorStep,
                          GetDataloaderState
      <4>2. QED
        BY <1>1, <3>2, <3>3, <3>4, <4>1 DEF ActorTypeOK, Message
    <3>6. ActorShape'
      BY <1>1, <2>1, <2>4, <3>1, <3>2 DEF ActorShape, SetVersion, PrepareForRefit, PollPending,
         Serving
    <3>7. QED
      BY <1>2, <2>1, <2>2, <3>5, <3>6 DEF TypeInv, TypeOK, CollectorTypeOK, ActorStep
  <2>5. QED
    BY <2>3, <2>4
<1>6. QED
  BY <1>4, <1>5

(* No step of the training loop sends another start_collection, and only a  *)
(* refit sends a set_weight_version.                                       *)
Quiet == Calls \ {"start_collection", "set_weight_version"}
SendsQuiet ==
  \E calls \in Seq(Message) :
    Send(calls) /\ \A i \in 1 .. Len(calls) : calls[i].op \in Quiet

Harmless == Calls \ {"start_collection"}
SendsHarmless ==
  \E calls \in Seq(Message) :
    Send(calls) /\ \A i \in 1 .. Len(calls) : calls[i].op \in Harmless

LEMMA SendOne ==
  ASSUME NEW op \in Quiet, NEW a \in Nat, Send(<<Call(op, a)>>)
  PROVE  SendsQuiet
<1> DEFINE calls == <<Call(op, a)>>
<1>1. calls \in Seq(Message)
  BY CallsTyped DEF Quiet
<1>2. \A i \in 1 .. Len(calls) : calls[i].op \in Quiet
  BY DEF Call
<1>3. QED
  BY <1>1, <1>2 DEF SendsQuiet

AnnouncePause(v) == Append(Announce(v), Call("pause", 0))

LEMMA AnnounceTyped ==
  ASSUME NEW v \in Nat
  PROVE  /\ Announce(v) \in Seq(Message) /\ Len(Announce(v)) = 2
         /\ Announce(v)[1] = Call("set_weight_version", v)
         /\ Announce(v)[2] = Call("resume_after_refit", 0)
         /\ AnnouncePause(v) \in Seq(Message) /\ Len(AnnouncePause(v)) = 3
         /\ AnnouncePause(v)[1] = Call("set_weight_version", v)
         /\ AnnouncePause(v)[2] = Call("resume_after_refit", 0)
         /\ AnnouncePause(v)[3] = Call("pause", 0)
<1>1. Call("set_weight_version", v) \in Message
  BY DEF Call, Message, Calls
<1>2. Call("resume_after_refit", 0) \in Message /\ Call("pause", 0) \in Message
  BY DEF Call, Message, Calls
<1>3. /\ Announce(v) \in Seq(Message) /\ Len(Announce(v)) = 2
      /\ Announce(v)[1] = Call("set_weight_version", v)
      /\ Announce(v)[2] = Call("resume_after_refit", 0)
  BY <1>1, <1>2 DEF Announce
<1>4. /\ AnnouncePause(v) \in Seq(Message) /\ Len(AnnouncePause(v)) = 3
      /\ \A i \in 1 .. 2 : AnnouncePause(v)[i] = Announce(v)[i]
      /\ AnnouncePause(v)[3] = Call("pause", 0)
  <2>1. \A seq \in Seq(Message), c \in Message :
          /\ Append(seq, c) \in Seq(Message) /\ Len(Append(seq, c)) = Len(seq) + 1
          /\ \A i \in 1 .. Len(seq) : Append(seq, c)[i] = seq[i]
          /\ Append(seq, c)[Len(seq) + 1] = c
    BY AppendProperties
  <2>2. /\ AnnouncePause(v) \in Seq(Message)
        /\ Len(AnnouncePause(v)) = Len(Announce(v)) + 1
        /\ \A i \in 1 .. Len(Announce(v)) : AnnouncePause(v)[i] = Announce(v)[i]
        /\ AnnouncePause(v)[Len(Announce(v)) + 1] = Call("pause", 0)
    BY <1>2, <1>3, <2>1, Zenon DEF AnnouncePause
  <2>3. QED
    BY <1>3, <2>2
<1>5. QED
  BY <1>3, <1>4

LEMMA AnnounceHarmless ==
  ASSUME NEW v \in Nat, NEW calls \in {Announce(v), AnnouncePause(v)}
  PROVE  calls \in Seq(Message) /\ \A i \in 1 .. Len(calls) : calls[i].op \in Harmless
<1>1. /\ Call("set_weight_version", v).op \in Harmless
      /\ Call("resume_after_refit", 0).op \in Harmless /\ Call("pause", 0).op \in Harmless
  BY DEF Call, Harmless, Calls
<1>2. CASE calls = Announce(v)
  BY <1>1, <1>2, AnnounceTyped
<1>3. CASE calls = AnnouncePause(v)
  BY <1>1, <1>3, AnnounceTyped
<1>4. QED
  BY <1>2, <1>3

LEMMA TrainerQuiet ==
  ASSUME TrainerStep, ~UNCHANGED inbox, ~Refit
  PROVE  SendsQuiet
<1> USE DEF TrainerStep, actorVars
<1>1. CASE InitialRefit
  BY <1>1, SendOne DEF InitialRefit, Calls, Quiet
<1>2. CASE ValidateAtStart \/ Validate
  BY <1>2, SendOne DEF ValidateAtStart, Validate, Calls, Quiet
<1>3. CASE Train
  BY <1>3, SendOne DEF Train, Calls, Quiet
<1>4. CASE AskDataloaderState
  BY <1>4, SendOne DEF AskDataloaderState, Calls, Quiet
<1>5. QED
  BY <1>1, <1>2, <1>3, <1>4 DEF BufferFilled, FillWaits, Sampled, SampleWaits,
     SampleRejects, Prepared, NextStep, SaveCheckpoint, TrainerFails

LEMMA TrainerSends ==
  ASSUME TypeInv, TrainerStep, ~UNCHANGED inbox
  PROVE  SendsHarmless
<1>1. CASE Refit
  <2>1. weightVersion + 1 \in Nat
    BY DEF TypeInv, TypeOK
  <2>2. Send(Announce(weightVersion + 1)) \/ Send(AnnouncePause(weightVersion + 1))
    BY <1>1 DEF Refit, AnnouncePause
  <2>3. QED
    BY <2>1, <2>2, AnnounceHarmless DEF SendsHarmless
<1>2. CASE ~Refit
  BY <1>2, TrainerQuiet DEF SendsQuiet, SendsHarmless, Quiet, Harmless
<1>3. QED
  BY <1>1, <1>2

LEMMA TrainerTyped == ASSUME TypeInv, TrainerStep PROVE TypeInv'
<1> USE DEF poolVars, pauseVars, actorVars, trainerVars, loopVars, localVars, sharedVars,
            groupVars
<1>1. /\ PoolTypeOK /\ LoopTypeOK /\ SharedTypeOK /\ GroupTypeOK /\ ActorTypeOK
      /\ LoopShape /\ ActorShape /\ TrainerShape /\ inbox \in Seq(Message)
  BY DEF TypeInv, TypeOK, CollectorTypeOK, ActorTypeOK, Message
<1>2. LoopTypeOK' /\ SharedTypeOK' /\ GroupTypeOK' /\ LoopShape'
  BY <1>1 DEF TrainerStep, LoopTypeOK, SharedTypeOK, GroupTypeOK, LoopShape
<1>3. PoolTypeOK'
  BY <1>1 DEF TrainerStep, PoolTypeOK, InitialRefit, ValidateAtStart, BufferFilled, FillWaits,
     Sampled, PoolTake, SampleWaits, PoolWait, SampleRejects, PoolReject, Train, Prepared,
     Refit, Validate, NextStep, AskDataloaderState, SaveCheckpoint, TrainerFails
<1>4. UNCHANGED <<actor, reply, currentVersion>>
  BY DEF TrainerStep, InitialRefit, ValidateAtStart, BufferFilled, FillWaits,
     Sampled, SampleWaits, SampleRejects, Train, Prepared, Send,
     Refit, Validate, NextStep, AskDataloaderState, SaveCheckpoint, TrainerFails
<1>5. inbox' \in Seq(Message) /\ ActorShape'
  <2>1. CASE UNCHANGED inbox
    BY <1>1, <1>4, <2>1 DEF ActorShape, TrainerStep
  <2>2. CASE ~UNCHANGED inbox
    <3>1. PICK calls \in Seq(Message) :
            /\ Send(calls)
            /\ \A i \in 1 .. Len(calls) : calls[i].op # "start_collection"
      BY <2>2, TrainerSends DEF SendsHarmless, Harmless
    <3>2. /\ inbox' \in Seq(Message)
          /\ Len(inbox') = Len(inbox) + Len(calls)
          /\ \A i \in 1 .. Len(inbox) : inbox'[i] = inbox[i]
          /\ \A i \in 1 .. Len(calls) : inbox'[Len(inbox) + i] = calls[i]
          /\ inbox # <<>> => inbox' # <<>> /\ Head(inbox') = Head(inbox)
      BY <1>1, <3>1, SendTo
    <3>3. \A i \in 1 .. Len(inbox') : inbox'[i].op = "start_collection" =>
            i \in 1 .. Len(inbox) /\ inbox[i].op = "start_collection"
      <4> TAKE i \in 1 .. Len(inbox')
      <4>1. CASE i <= Len(inbox)
        BY <1>1, <3>2, <4>1
      <4>2. CASE ~(i <= Len(inbox))
        <5>1. i - Len(inbox) \in 1 .. Len(calls) /\ i = Len(inbox) + (i - Len(inbox))
          BY <1>1, <3>1, <3>2, <4>2
        <5>2. QED
          BY <3>1, <3>2, <5>1
      <4>3. QED
        BY <4>1, <4>2
    <3>4. QED
      BY <1>1, <1>4, <3>2, <3>3 DEF ActorShape, TrainerStep
  <2>3. QED
    BY <2>1, <2>2
<1>6. weights' \in Nat \cup {Dummy} /\ failures' \in Nat /\ UNCHANGED initialVersion
  <2>1. weights' \in {weights, weightVersion, weightVersion + 1}
    BY DEF TrainerStep, InitialRefit, ValidateAtStart, BufferFilled, FillWaits, Sampled,
       SampleWaits, SampleRejects, Train, Prepared, Refit, Validate, NextStep,
       AskDataloaderState, SaveCheckpoint, TrainerFails
  <2>2. failures' \in {failures, failures + 1}
    BY DEF TrainerStep, InitialRefit, ValidateAtStart, BufferFilled, FillWaits, Sampled,
       SampleWaits, SampleRejects, Train, Prepared, Refit, Validate, NextStep,
       AskDataloaderState, SaveCheckpoint, TrainerFails
  <2>3. QED
    BY <1>1, <2>1, <2>2 DEF TypeInv, TypeOK, ActorTypeOK, TrainerStep
<1>7. ActorTypeOK'
  BY <1>1, <1>4, <1>5, <1>6 DEF ActorTypeOK, TrainerStep, Message
<1>8. /\ trainer' \in TrainerStates /\ step' \in 0 .. MaxSteps
      /\ weightVersion' \in 0 .. MaxSteps /\ TrainerShape'
  <2> USE DEF TypeInv, TypeOK, TrainerShape, TrainerStates
  <2>1. CASE InitialRefit \/ ValidateAtStart \/ Train \/ Prepared
    BY <2>1 DEF InitialRefit, ValidateAtStart, Train, Prepared
  <2>2. CASE BufferFilled \/ FillWaits
    BY <2>2 DEF BufferFilled, FillWaits, AfterFill
  <2>3. CASE Sampled \/ SampleWaits \/ SampleRejects \/ TrainerFails
    BY <2>3 DEF Sampled, SampleWaits, SampleRejects, TrainerFails
  <2>4. CASE Refit \/ Validate \/ AskDataloaderState
    BY <2>4 DEF Refit, Validate, AskDataloaderState
  <2>5. CASE NextStep
    BY <2>5 DEF NextStep, SaveDue, IsLastStep
  <2>6. CASE SaveCheckpoint
    BY <2>6 DEF SaveCheckpoint, IsLastStep
  <2>7. QED
    BY <2>1, <2>2, <2>3, <2>4, <2>5, <2>6 DEF TrainerStep
<1>9. trained' \in [0 .. MaxSteps - 1 -> SUBSET Groups]
  <2>1. trained \in [0 .. MaxSteps - 1 -> SUBSET Groups]
    BY DEF TypeInv, TypeOK
  <2>2. CASE Sampled
    <3>1. PICK S \in SUBSET Intended(weightVersion, MaxAge) :
            trained' = [trained EXCEPT ![step] = {e.id : e \in S}]
      BY <2>2 DEF Sampled
    <3>2. {e.id : e \in S} \in SUBSET Groups
      BY <1>1 DEF Intended, PoolTypeOK, Entry
    <3>3. QED
      BY <2>1, <3>1, <3>2
  <2>3. CASE ~Sampled
    BY <2>1, <2>3 DEF TrainerStep, InitialRefit, ValidateAtStart,
     BufferFilled, FillWaits, SampleWaits, SampleRejects, Train, Prepared,
     Refit, Validate, NextStep, AskDataloaderState, SaveCheckpoint, TrainerFails
  <2>4. QED
    BY <2>2, <2>3
<1>10. saved' \in [step : 0 .. MaxSteps, pos : 0 .. NumBatches] /\ crashes' \in Nat
  <2>1. CASE SaveCheckpoint
    BY <1>1, <2>1 DEF TypeInv, TypeOK, TrainerShape, ActorTypeOK, TrainerStep, SaveCheckpoint
  <2>2. CASE ~SaveCheckpoint
    BY <2>2 DEF TypeInv, TypeOK, TrainerStep, InitialRefit, ValidateAtStart,
     BufferFilled, FillWaits, Sampled, SampleWaits, SampleRejects, Train, Prepared,
     Refit, Validate, NextStep, AskDataloaderState, TrainerFails
  <2>3. QED
    BY <2>1, <2>2
<1>11. QED
  BY <1>2, <1>3, <1>5, <1>7, <1>8, <1>9, <1>10 DEF TypeInv, TypeOK, CollectorTypeOK

LEMMA RestartTyped == ASSUME TypeInv, Restart PROVE TypeInv'
<1>1. saved \in [step : 0 .. MaxSteps, pos : 0 .. NumBatches]
  BY DEF TypeInv, TypeOK
<1>2. saved.step \in 0 .. MaxSteps /\ saved.pos \in 0 .. NumBatches
  BY <1>1
<1>3. inbox' \in Seq(Message)
  BY <1>2, CallsTyped DEF Restart, CollectorRestart, Calls
<1>4. ActorShape' /\ LoopShape' /\ TrainerShape'
  BY <1>2 DEF Restart, CollectorRestart, ActorShape, LoopShape, TrainerShape, Between,
              Starting, Call
<1>5. LoopTypeOK'
  <2>1. running' \in BOOLEAN
    BY Zenon DEF Restart, CollectorRestart
  <2>2. QED
    BY <1>2, <2>1 DEF Restart, CollectorRestart, LoopTypeOK, None, LoopStates
<1>6. SharedTypeOK'
  BY DEF Restart, CollectorRestart, SharedTypeOK, Permits
<1>7. GroupTypeOK'
  <2>1. work' \in [Groups -> WorkStates]
    BY DEF Restart, WorkStates, AfterRestart
  <2>2. version' \in [Groups -> Nat] /\ goal' \in [Groups -> Nat]
    BY DEF Restart, CollectorRestart
  <2>3. born' \in [Groups -> Nat \cup {Dummy}]
    BY DEF Restart, CollectorRestart
  <2>4. QED
    BY <2>1, <2>2, <2>3 DEF GroupTypeOK
<1>8. ActorTypeOK'
  <2>1. manualCleared' \in BOOLEAN /\ refitCleared' \in BOOLEAN
    BY Zenon DEF Restart, CollectorRestart
  <2>2. failures' \in Nat
    BY DEF TypeInv, TypeOK, CollectorTypeOK, ActorTypeOK, Restart
  <2>3. QED
    BY <1>2, <1>3, <2>1, <2>2 DEF Restart, CollectorRestart, ActorTypeOK, Message, Dummy
<1>9. PoolTypeOK'
  BY DEF Restart, PoolTypeOK
<1>10. trained' \in [0 .. MaxSteps - 1 -> SUBSET Groups]
  BY DEF TypeInv, TypeOK, Restart
<1>11. /\ trainer' \in TrainerStates /\ step' \in 0 .. MaxSteps
       /\ weightVersion' \in 0 .. MaxSteps /\ saved' = saved /\ crashes' \in Nat
  BY <1>2 DEF TypeInv, TypeOK, Restart, TrainerStates
<1>12. QED
  BY <1>1, <1>4, <1>5, <1>6, <1>7, <1>8, <1>9, <1>10, <1>11 DEF TypeInv, TypeOK, CollectorTypeOK

LEMMA StutterTyped == ASSUME TypeInv, UNCHANGED vars PROVE TypeInv'
BY DEF TypeInv, vars, collectorVars, trainerVars, poolVars, pauseVars, loopVars, localVars,
       sharedVars, groupVars, actorVars, TypeOK, PoolTypeOK, CollectorTypeOK, LoopTypeOK,
       SharedTypeOK, GroupTypeOK, ActorTypeOK, LoopShape, ActorShape, TrainerShape

LEMMA NextTyped == TypeInv /\ [Next]_vars => TypeInv'
BY LoopTyped, WorkerTyped, ActorTyped, TrainerTyped, RestartTyped, StutterTyped
   DEF Next, CollectorStep, Terminated

(* Every variable keeps its type, in every schedule, whatever the numbers  *)
(* of prompts, batches, steps, failures and crashes: no call finds an      *)
(* empty inbox, and no batch or step is counted past its end.              *)
THEOREM TypeCorrect == Spec => []TypeOK
<1>1. TypeInv => TypeOK
  BY DEF TypeInv
<1>2. QED
  BY <1>1, InitTyped, NextTyped, PTL DEF Spec

-----------------------------------------------------------------------------
(***************************************************************************)
(* Versions.  The announcements on their way to the collector are in order *)
(* and reach from its version to the trainer's; a refit finds none on its  *)
(* way.                                                                    *)
(***************************************************************************)
Announced(i) == inbox[i].op = "set_weight_version"

VersionInv ==
  /\ \A i \in 1 .. Len(inbox) : Announced(i) =>
       currentVersion <= inbox[i].arg /\ inbox[i].arg <= weightVersion
  /\ \A i, j \in 1 .. Len(inbox) :
       Announced(i) /\ Announced(j) /\ i < j => inbox[i].arg <= inbox[j].arg
  /\ genVersion <= currentVersion
  /\ currentVersion <= weightVersion
  /\ weightVersion <= currentVersion + 1
  /\ currentVersion < weightVersion =>
       \E i \in 1 .. Len(inbox) : Announced(i) /\ inbox[i].arg = weightVersion
  /\ trainer = "refit" => currentVersion = weightVersion

(* What the collection thread is about to label a rollout with.            *)
AgeInv ==
  /\ loop = "reserve" => \A t \in unmade : t <= genVersion + MaxAge
  /\ loop \in Starting => target <= genVersion + MaxAge
  /\ AgeWindow

LabelInv ==
  /\ weights \in {Dummy, weightVersion}
  /\ LabelNotNewer

(* The prompts that the collection thread has not started yet.             *)
Ahead(g) == g[1] > pos \/ (g[1] = pos /\ loop \notin Between /\ g[2] >= prompt)

NotStarted == \A g \in Groups : Ahead(g) => work[g] = "none"

-----------------------------------------------------------------------------
(* What the parts of the system leave alone.                                *)

LEMMA Typed ==
  ASSUME TypeInv
  PROVE  /\ currentVersion \in Nat /\ genVersion \in Nat /\ weightVersion \in Nat
         /\ inbox \in Seq(Message) /\ Len(inbox) \in Nat
         /\ \A i \in 1 .. Len(inbox) : inbox[i] \in Message /\ inbox[i].arg \in Nat
         /\ inbox # <<>> => Head(inbox) = inbox[1] /\ 1 \in 1 .. Len(inbox)
<1>1. inbox \in Seq(Message)
  BY DEF TypeInv, TypeOK, CollectorTypeOK, ActorTypeOK, Message
<1>2. /\ Len(inbox) \in Nat
      /\ \A i \in 1 .. Len(inbox) : inbox[i] \in Message
      /\ inbox # <<>> => Head(inbox) = inbox[1] /\ 1 \in 1 .. Len(inbox)
  BY <1>1, EmptySeq
<1>3. \A c \in Message : c.arg \in Nat
  BY DEF Message
<1>4. currentVersion \in Nat /\ genVersion \in Nat /\ weightVersion \in Nat
  BY DEF TypeInv, TypeOK, CollectorTypeOK, ActorTypeOK, LoopTypeOK
<1>5. QED
  BY <1>1, <1>2, <1>3, <1>4

(* A return takes the first call, which nobody needs any more.             *)
LEMMA ActorReturns ==
  ASSUME TypeInv, ActorStep, Return
  PROVE  /\ inbox # <<>> /\ UNCHANGED currentVersion
         /\ Head(inbox).op = "set_weight_version" => Head(inbox).arg = currentVersion
<1> USE DEF actorVars
<1>1. ActorShape
  BY DEF TypeInv
<1>2. ~SetVersion
  BY SetVersionKeepsCall
<1>3. WakeLoop => actor = "wake"
  BY DEF WakeLoop
<1>4. UNCHANGED currentVersion
  BY <1>2 DEF ActorStep, StartCollection, WakeLoop, Pause, Resume, PrepareForRefit, PollPending,
     ResumeAfterRefit, GetDataloaderState
<1>5. /\ inbox # <<>>
      /\ Head(inbox).op = "set_weight_version" => actor = "wake"
  BY <1>1, <1>2 DEF ActorStep, StartCollection, WakeLoop, Pause, Resume, PrepareForRefit,
     PollPending, ResumeAfterRefit, GetDataloaderState, Serving, ActorShape
<1>6. QED
  BY <1>1, <1>4, <1>5 DEF ActorShape

LEMMA ActorKeepsInbox ==
  ASSUME TypeInv, ActorStep, ~Return
  PROVE  /\ UNCHANGED inbox
         /\ \/ UNCHANGED currentVersion
            \/ /\ inbox # <<>> /\ Head(inbox).op = "set_weight_version"
               /\ currentVersion' = Head(inbox).arg
<1>1. CASE SetVersion
  BY <1>1 DEF SetVersion, Serving
<1>2. CASE ~SetVersion
  <2>1. (PrepareForRefit /\ ~InFlightUpdates) \/ PollPending
    BY <1>2, Zenon DEF ActorStep, StartCollection, WakeLoop, Pause, Resume, PrepareForRefit,
       ResumeAfterRefit, GetDataloaderState
  <2>2. QED
    BY <2>1 DEF PrepareForRefit, PollPending
<1>3. QED
  BY <1>1, <1>2

-----------------------------------------------------------------------------
(* The order of the versions.                                               *)

LEMMA InitVersions == Init => VersionInv
BY DEF Init, CollectorStart, VersionInv, Announced, Call

LEMMA LoopVersions ==
  ASSUME TypeInv, VersionInv, LoopStep, UNCHANGED trainerVars
  PROVE  VersionInv'
<1>1. genVersion' \in {genVersion, currentVersion, 0}
  BY DEF LoopStep, Fetch, WaitManualPause, WaitRefitPause, LimitRead, LimitCheck, LimitWarn,
     LimitClear, LimitWait, BatchRead, Reserve, DropBatch, PromptCheck, PromptWait, Acquire,
     StartWorker, Goto, BatchDone, localVars
<1>2. QED
  BY <1>1, Typed DEF VersionInv, Announced, LoopStep, actorVars, trainerVars

LEMMA ActorVersions ==
  ASSUME TypeInv, VersionInv, ActorStep, UNCHANGED trainerVars
  PROVE  VersionInv'
<1>1. UNCHANGED <<genVersion, weightVersion, trainer>>
  BY DEF ActorStep, localVars, trainerVars
<1>2. CASE Return
  <2>1. /\ inbox # <<>> /\ UNCHANGED currentVersion
        /\ Announced(1) => inbox[1].arg = currentVersion
    BY <1>2, ActorReturns, Typed DEF Announced
  <2>2. /\ Len(inbox') = Len(inbox) - 1
        /\ \A i \in 1 .. Len(inbox') : inbox'[i] = inbox[i + 1]
    BY <1>2, <2>1, ReturnFrom, Typed
  <2>3. currentVersion < weightVersion =>
          \E i \in 1 .. Len(inbox') : Announced(i)' /\ inbox'[i].arg = weightVersion
    <3>1. ASSUME currentVersion < weightVersion
          PROVE  \E i \in 1 .. Len(inbox') : Announced(i)' /\ inbox'[i].arg = weightVersion
      <4>1. PICK i \in 1 .. Len(inbox) : Announced(i) /\ inbox[i].arg = weightVersion
        BY <3>1 DEF VersionInv
      <4>2. i # 1 /\ i - 1 \in 1 .. Len(inbox') /\ i = (i - 1) + 1
        BY <2>1, <2>2, <3>1, <4>1, Typed
      <4>3. inbox'[i - 1] = inbox[i]
        BY <2>2, <4>2
      <4>4. QED
        BY <4>1, <4>2, <4>3 DEF Announced
    <3>2. QED
      BY <3>1
  <2>4. \A i \in 1 .. Len(inbox') :
          /\ i + 1 \in 1 .. Len(inbox) /\ inbox'[i] = inbox[i + 1]
          /\ Announced(i)' => Announced(i + 1)
    BY <2>2, Typed DEF Announced
  <2>5. \A i \in 1 .. Len(inbox') : Announced(i)' =>
          currentVersion <= inbox'[i].arg /\ inbox'[i].arg <= weightVersion
    BY <2>4 DEF VersionInv
  <2>6. \A i, j \in 1 .. Len(inbox') :
          Announced(i)' /\ Announced(j)' /\ i < j => inbox'[i].arg <= inbox'[j].arg
    BY <2>4 DEF VersionInv
  <2>7. QED
    BY <1>1, <2>1, <2>3, <2>5, <2>6 DEF VersionInv
<1>3. CASE ~Return
  <2>1. UNCHANGED inbox
    BY <1>3, ActorKeepsInbox
  <2>2. CASE UNCHANGED currentVersion
    BY <1>1, <2>1, <2>2 DEF VersionInv, Announced
  <2>3. CASE Announced(1) /\ inbox # <<>> /\ currentVersion' = inbox[1].arg
    BY <1>1, <2>1, <2>3, Typed DEF VersionInv, Announced
  <2>4. QED
    BY <1>3, <2>2, <2>3, ActorKeepsInbox, Typed DEF Announced
<1>4. QED
  BY <1>2, <1>3

LEMMA TrainerVersions ==
  ASSUME TypeInv, VersionInv, TrainerStep
  PROVE  VersionInv'
<1> USE DEF TrainerStep, localVars, actorVars
<1>1. UNCHANGED <<genVersion, currentVersion>>
  BY DEF InitialRefit, ValidateAtStart, BufferFilled, FillWaits, Sampled, SampleWaits,
     SampleRejects, Train, Prepared, Refit, Validate, NextStep, AskDataloaderState,
     SaveCheckpoint, TrainerFails, Send
<1>2. CASE Refit
  <2>1. /\ weightVersion' = weightVersion + 1 /\ currentVersion = weightVersion
        /\ trainer' # "refit"
    BY <1>2 DEF Refit, VersionInv
  <2>2. PICK calls \in {Announce(weightVersion + 1), AnnouncePause(weightVersion + 1)} :
          Send(calls)
    BY <1>2 DEF Refit, AnnouncePause
  <2>3. /\ calls \in Seq(Message) /\ Len(calls) \in {2, 3}
        /\ calls[1] = Call("set_weight_version", weightVersion + 1)
        /\ \A i \in 2 .. Len(calls) : calls[i] \in {Call("resume_after_refit", 0), Call("pause", 0)}
    <3>1. weightVersion + 1 \in Nat
      BY Typed
    <3>2. CASE calls = Announce(weightVersion + 1)
      BY <3>1, <3>2, AnnounceTyped
    <3>3. CASE calls = AnnouncePause(weightVersion + 1)
      BY <3>1, <3>3, AnnounceTyped
    <3>4. QED
      BY <2>2, <3>2, <3>3
  <2>4. /\ calls[1].op = "set_weight_version" /\ calls[1].arg = weightVersion + 1
        /\ \A i \in 2 .. Len(calls) : calls[i].op # "set_weight_version"
    BY <2>3 DEF Call
  <2>5. /\ Len(inbox') = Len(inbox) + Len(calls)
        /\ \A i \in 1 .. Len(inbox) : inbox'[i] = inbox[i]
        /\ \A i \in 1 .. Len(calls) : inbox'[Len(inbox) + i] = calls[i]
    BY <2>2, <2>3, SendTo, Typed
  <2>6. PICK n \in Nat : n = Len(inbox) + 1
    BY Typed
  <2>7. /\ Announced(n)' /\ inbox'[n].arg = weightVersion + 1
        /\ \A i \in 1 .. Len(inbox') :
             Announced(i)' => \/ i \in 1 .. Len(inbox) /\ Announced(i)
                             \/ i = n
    <3>1. 1 \in 1 .. Len(calls)
      BY <2>3
    <3>2. ASSUME NEW i \in 1 .. Len(inbox'), Announced(i)', i \notin 1 .. Len(inbox)
          PROVE  i = n
      <4>1. i - Len(inbox) \in 1 .. Len(calls) /\ i = Len(inbox) + (i - Len(inbox))
        BY <2>3, <2>5, <3>2, Typed
      <4>2. calls[i - Len(inbox)].op = "set_weight_version"
        BY <2>5, <3>2, <4>1 DEF Announced
      <4>3. i - Len(inbox) \notin 2 .. Len(calls)
        BY <2>4, <4>2
      <4>4. QED
        BY <2>3, <2>6, <4>1, <4>3, Typed
    <3>3. inbox'[n] = calls[1]
      BY <2>5, <2>6, <3>1
    <3>4. QED
      BY <2>4, <2>5, <3>2, <3>3 DEF Announced
  <2>8. n \in 1 .. Len(inbox')
    BY <2>3, <2>5, <2>6, Typed
  <2>9. \A i \in 1 .. Len(inbox') : Announced(i)' =>
          currentVersion <= inbox'[i].arg /\ inbox'[i].arg <= weightVersion + 1
    <3>1. ASSUME NEW i \in 1 .. Len(inbox'), Announced(i)'
          PROVE  currentVersion <= inbox'[i].arg /\ inbox'[i].arg <= weightVersion + 1
      <4>1. CASE i = n
        BY <2>1, <2>7, <4>1, Typed
      <4>2. CASE i \in 1 .. Len(inbox) /\ Announced(i)
        BY <2>5, <4>2, Typed DEF VersionInv
      <4>3. QED
        BY <2>7, <3>1, <4>1, <4>2
    <3>2. QED
      BY <3>1
  <2>10. \A i, j \in 1 .. Len(inbox') :
          Announced(i)' /\ Announced(j)' /\ i < j => inbox'[i].arg <= inbox'[j].arg
    <3>1. ASSUME NEW i \in 1 .. Len(inbox'), NEW j \in 1 .. Len(inbox'),
                 Announced(i)', Announced(j)', i < j
          PROVE  inbox'[i].arg <= inbox'[j].arg
      <4>1. i \in 1 .. Len(inbox) /\ Announced(i) /\ inbox'[i] = inbox[i]
        BY <2>5, <2>6, <2>7, <3>1, Typed
      <4>2. CASE j = n
        BY <2>7, <4>1, <4>2, Typed DEF VersionInv
      <4>3. CASE j \in 1 .. Len(inbox) /\ Announced(j)
        BY <2>5, <3>1, <4>1, <4>3 DEF VersionInv
      <4>4. QED
        BY <2>7, <3>1, <4>2, <4>3
    <3>2. QED
      BY <3>1
  <2>11. \E i \in 1 .. Len(inbox') : Announced(i)' /\ inbox'[i].arg = weightVersion + 1
    BY <2>6, <2>7, <2>8
  <2>12. genVersion <= currentVersion /\ currentVersion <= weightVersion + 1
    BY <2>1, Typed DEF VersionInv
  <2>13. QED
    BY <1>1, <2>1, <2>9, <2>10, <2>11, <2>12 DEF VersionInv
<1>3. CASE ~Refit
  <2>1. UNCHANGED weightVersion
    BY <1>3 DEF InitialRefit, ValidateAtStart, BufferFilled, FillWaits, Sampled, SampleWaits,
       SampleRejects, Train, Prepared, Validate, NextStep, AskDataloaderState,
       SaveCheckpoint, TrainerFails
  <2>2. trainer' = "refit" => currentVersion = weightVersion
    <3>1. CASE Prepared
      <4>1. Len(inbox) = 0
        BY <3>1 DEF Prepared, Answered
      <4>2. QED
        BY <4>1, Typed DEF VersionInv
    <3>2. CASE ~Prepared
      BY <1>3, <3>2 DEF InitialRefit, ValidateAtStart, BufferFilled, FillWaits, Sampled,
         SampleWaits, SampleRejects, Train, Validate, NextStep, AskDataloaderState,
         SaveCheckpoint, TrainerFails, AfterFill, VersionInv
    <3>3. QED
      BY <3>1, <3>2
  <2>3. CASE UNCHANGED inbox
    BY <1>1, <2>1, <2>2, <2>3 DEF VersionInv, Announced
  <2>4. CASE ~UNCHANGED inbox
    <3>1. PICK calls \in Seq(Message) :
            Send(calls) /\ \A i \in 1 .. Len(calls) : calls[i].op # "set_weight_version"
      BY <1>3, <2>4, TrainerQuiet DEF SendsQuiet, Quiet
    <3>2. /\ Len(inbox') = Len(inbox) + Len(calls) /\ Len(calls) \in Nat
          /\ \A i \in 1 .. Len(inbox) : inbox'[i] = inbox[i]
          /\ \A i \in 1 .. Len(calls) : inbox'[Len(inbox) + i] = calls[i]
      BY <3>1, SendTo, Typed
    <3>3. ASSUME NEW i \in 1 .. Len(inbox'), Announced(i)'
          PROVE  i \in 1 .. Len(inbox) /\ Announced(i) /\ inbox'[i].arg = inbox[i].arg
      <4>1. CASE i \in 1 .. Len(inbox)
        BY <3>2, <3>3, <4>1 DEF Announced
      <4>2. CASE i \notin 1 .. Len(inbox)
        <5>1. i - Len(inbox) \in 1 .. Len(calls) /\ i = Len(inbox) + (i - Len(inbox))
          BY <3>2, <4>2, Typed
        <5>2. QED
          BY <3>1, <3>2, <3>3, <5>1 DEF Announced
      <4>3. QED
        BY <4>1, <4>2
    <3>4. \A i \in 1 .. Len(inbox) :
            i \in 1 .. Len(inbox') /\ (Announced(i) => Announced(i)') /\ inbox'[i] = inbox[i]
      BY <3>2, Typed DEF Announced
    <3>5. QED
      BY <1>1, <2>1, <2>2, <3>3, <3>4 DEF VersionInv
  <2>5. QED
    BY <2>3, <2>4
<1>4. QED
  BY <1>2, <1>3

LEMMA NextVersions == TypeInv /\ VersionInv /\ [Next]_vars => VersionInv'
<1> SUFFICES ASSUME TypeInv, VersionInv, [Next]_vars PROVE VersionInv'
  OBVIOUS
<1>1. CASE UNCHANGED vars \/ \E g \in Groups : WorkerStep(g) /\ UNCHANGED trainerVars
  BY <1>1 DEF VersionInv, Announced, vars, collectorVars, trainerVars, localVars, actorVars,
     WorkerStep
<1>2. CASE Restart
  <2>1. saved.step \in Nat
    BY DEF TypeInv, TypeOK
  <2>2. QED
    BY <1>2, <2>1 DEF Restart, CollectorRestart, VersionInv, Announced, Call
<1>3. QED
  BY <1>1, <1>2, LoopVersions, ActorVersions, TrainerVersions
     DEF Next, CollectorStep, Terminated

(* The version the collector works with is at most one refit behind the    *)
(* training loop's: each refit waits for the answer to its                 *)
(* prepare_for_refit, which the actor gives only after the announcement    *)
(* of the refit before.                                                    *)
THEOREM CollectorStaysInStep == Spec => []CollectorInStep
<1>1. VersionInv => CollectorInStep
  BY DEF VersionInv, CollectorInStep
<1>2. QED
  BY <1>1, InitTyped, NextTyped, InitVersions, NextVersions, PTL DEF Spec

-----------------------------------------------------------------------------
(* The age window, and the labels.                                          *)

LEMMA GroupTypes ==
  ASSUME TypeInv
  PROVE  /\ work \in [Groups -> WorkStates] /\ version \in [Groups -> Nat]
         /\ goal \in [Groups -> Nat] /\ born \in [Groups -> Nat \cup {Dummy}]
         /\ weights \in Nat \cup {Dummy} /\ weightVersion \in Nat
         /\ genVersion \in Nat /\ currentVersion \in Nat
BY DEF TypeInv, TypeOK, CollectorTypeOK, GroupTypeOK, ActorTypeOK, LoopTypeOK

(* What the collection thread starts is a group, for a reserved target.    *)
LEMMA Started ==
  ASSUME TypeInv, loop = "start"
  PROVE  <<pos, prompt>> \in Groups /\ target \in Nat
BY DEF TypeInv, TypeOK, CollectorTypeOK, LoopTypeOK, LoopShape, Between, Starting, Groups

(* A worker changes nothing of the other groups, and no group becomes live *)
(* by its steps.                                                           *)
LEMMA WorkerGroups ==
  ASSUME TypeInv, NEW g \in Groups, WorkerStep(g)
  PROVE  /\ \A h \in Groups : h # g =>
              /\ work'[h] = work[h] /\ version'[h] = version[h]
              /\ goal'[h] = goal[h] /\ born'[h] = born[h]
         /\ work[g] \in Alive /\ work'[g] \in Alive \cup {"done"}
         /\ work'[g] \in Alive =>
              /\ version'[g] = version[g] /\ goal'[g] = goal[g] /\ born'[g] = born[g]
         /\ work' \in [Groups -> WorkStates]
<1>1. \E w \in WorkStates \cap (Alive \cup {"done"}) : work' = [work EXCEPT ![g] = w]
  BY DEF WorkerStep, RolloutFails, Push, PushFull, PushStopped, Unreserve, Cleanup, Release,
         Become, WorkStates, Alive
<1>2. work[g] \in Alive
  BY DEF WorkerStep, RolloutFails, Push, PushFull, PushStopped, Unreserve, Cleanup, Release,
         Become, Alive
<1>3. CASE UNCHANGED <<version, goal, born>>
  BY <1>1, <1>2, <1>3, GroupTypes
<1>4. CASE Release(g)
  BY <1>1, <1>2, <1>4, GroupTypes DEF Release, Become, Alive
<1>5. QED
  BY <1>3, <1>4 DEF WorkerStep

LEMMA InitAge == Init => AgeInv
BY DEF Init, PoolInit, CollectorStart, AgeInv, AgeWindow, Living, Alive, Starting

LEMMA LoopAge ==
  ASSUME TypeInv, VersionInv, AgeInv, LoopStep
  PROVE  AgeInv'
<1> USE DEF poolVars, localVars, groupVars, LoopStep, Starting
<1>1. AgeWindow'
  <2>1. CASE StartWorker
    <3>1. <<pos, prompt>> \in Groups /\ target \in Nat /\ target <= genVersion + MaxAge
      BY <2>1, Started DEF StartWorker, AgeInv
    <3>2. \A g \in Groups :
            \/ work'[g] = work[g] /\ version'[g] = version[g] /\ goal'[g] = goal[g]
            \/ version'[g] = genVersion /\ goal'[g] = target
      BY <2>1, <3>1, GroupTypes DEF StartWorker
    <3>3. \A g \in Living' : goal'[g] <= version'[g] + MaxAge
      BY <3>1, <3>2 DEF AgeInv, AgeWindow, Living
    <3>4. QED
      BY <3>3 DEF AgeInv, AgeWindow
  <2>2. CASE ~StartWorker
    <3>1. UNCHANGED groupVars
      BY <2>2 DEF Fetch, WaitManualPause, WaitRefitPause, LimitRead, LimitCheck, LimitWarn,
         LimitClear, LimitWait, BatchRead, Reserve, DropBatch, PromptCheck, PromptWait, Acquire,
         Goto, ReadTargets
    <3>2. QED
      BY <3>1 DEF AgeInv, AgeWindow, Living
  <2>3. QED
    BY <2>1, <2>2
<1>2. CASE BatchRead
  <2>1. \A t \in unmade' : t <= genVersion' + MaxAge
    BY <1>2, Typed DEF BatchRead, ReadTargets, TargetWeights
  <2>2. QED
    BY <1>1, <1>2, <2>1 DEF BatchRead, AgeInv
<1>3. CASE Reserve
  BY <1>1, <1>3 DEF Reserve, OpenTargets, AgeInv
<1>4. CASE PromptWait
  <2>1. target \in Nat
    BY <1>4 DEF PromptWait, TypeInv, LoopShape
  <2>2. QED
    BY <1>1, <1>4, <2>1, Typed DEF PromptWait, AgeInv, VersionInv
<1>5. CASE PromptCheck \/ Acquire
  BY <1>1, <1>5 DEF PromptCheck, Acquire, Goto, AgeInv
<1>6. CASE StartWorker
  BY <1>1, <1>6 DEF StartWorker, BatchDone, AgeInv
<1>7. CASE Fetch \/ WaitManualPause \/ WaitRefitPause \/ LimitRead \/ LimitCheck \/ LimitWarn
           \/ LimitClear \/ LimitWait \/ DropBatch
  <2>1. loop' \notin Starting \cup {"reserve"}
    BY <1>7 DEF Fetch, WaitManualPause, WaitRefitPause, LimitRead, LimitCheck, LimitWarn,
       LimitClear, LimitWait, DropBatch, Goto, BatchDone
  <2>2. QED
    BY <1>1, <2>1 DEF AgeInv
<1>8. QED
  BY <1>2, <1>3, <1>4, <1>5, <1>6, <1>7

LEMMA WorkerAge ==
  ASSUME TypeInv, AgeInv, NEW g \in Groups, WorkerStep(g)
  PROVE  AgeInv'
<1>1. \A h \in Living' : goal'[h] <= version'[h] + MaxAge
  BY WorkerGroups DEF AgeInv, AgeWindow, Living
<1>2. \A e \in pool' : e.target <= e.version + MaxAge
  <2>1. CASE Push(g)
    <3>1. goal[g] <= version[g] + MaxAge
      BY WorkerGroups DEF AgeInv, AgeWindow, Living
    <3>2. QED
      BY <2>1, <3>1 DEF Push, PoolPush, AgeInv, AgeWindow
  <2>2. CASE ~Push(g)
    BY <2>2 DEF WorkerStep, RolloutFails, PushFull, PoolFull, PushStopped, Unreserve, Cleanup,
       Release, poolVars, AgeInv, AgeWindow
  <2>3. QED
    BY <2>1, <2>2
<1>3. QED
  BY <1>1, <1>2 DEF AgeInv, AgeWindow, WorkerStep, loopVars, localVars

LEMMA NextAge == TypeInv /\ VersionInv /\ AgeInv /\ [Next]_vars => AgeInv'
<1> SUFFICES ASSUME TypeInv, VersionInv, AgeInv, [Next]_vars PROVE AgeInv'
  OBVIOUS
<1>1. CASE UNCHANGED vars
  BY <1>1 DEF AgeInv, AgeWindow, Living, vars, collectorVars, poolVars, loopVars, localVars,
     groupVars
<1>2. CASE ActorStep
  <2>1. UNCHANGED <<pool, unmade, genVersion, target, work, version, goal>>
    BY <1>2 DEF ActorStep, poolVars, localVars, groupVars
  <2>2. UNCHANGED loop \/ loop' = "fetch"
    BY <1>2 DEF ActorStep, loopVars, StartCollection, SetVersion, WakeLoop, Pause, Resume,
       PrepareForRefit, PollPending, ResumeAfterRefit, GetDataloaderState
  <2>3. QED
    BY <2>1, <2>2 DEF AgeInv, AgeWindow, Living, Starting
<1>3. CASE TrainerStep
  <2>1. pool' \subseteq pool
    BY <1>3 DEF TrainerStep, poolVars, InitialRefit, ValidateAtStart, BufferFilled, FillWaits,
       Sampled, PoolTake, SampleWaits, PoolWait, SampleRejects, PoolReject, Train, Prepared,
       Refit, Validate, NextStep, AskDataloaderState, SaveCheckpoint, TrainerFails
  <2>2. QED
    BY <1>3, <2>1 DEF AgeInv, AgeWindow, Living, TrainerStep, loopVars, localVars, groupVars
<1>4. CASE Restart
  <2>1. work' = [g \in Groups |-> AfterRestart(g)] /\ pool' = {} /\ loop' = "unstarted"
    BY <1>4 DEF Restart, CollectorRestart
  <2>2. \A g \in Groups : work'[g] \notin Alive
    BY <2>1 DEF AfterRestart, Alive
  <2>3. QED
    BY <2>1, <2>2 DEF AgeInv, AgeWindow, Living, Starting
<1>5. QED
  BY <1>1, <1>2, <1>3, <1>4, LoopAge, WorkerAge DEF Next, CollectorStep, Terminated

(* No group is generated for a training step more than MaxAge after its    *)
(* label: neither a late reservation nor a refit in the middle of a batch  *)
(* can make the collector label a group with a version that is too old for *)
(* the step it reserved.                                                   *)
THEOREM WithinAgeWindow == Spec => []AgeWindow
<1>1. AgeInv => AgeWindow
  BY DEF AgeInv
<1>2. QED
  BY <1>1, InitTyped, NextTyped, InitVersions, NextVersions, InitAge, NextAge, PTL DEF Spec

LEMMA InitLabel == Init => LabelInv
BY DEF Init, CollectorStart, LabelInv, LabelNotNewer, Living, Alive

LEMMA NextLabel == TypeInv /\ VersionInv /\ LabelInv /\ [Next]_vars => LabelInv'
<1> SUFFICES ASSUME TypeInv, VersionInv, LabelInv, [Next]_vars PROVE LabelInv'
  OBVIOUS
<1> USE DEF LabelInv, LabelNotNewer, Living
<1>1. CASE LoopStep /\ UNCHANGED trainerVars
  <2>1. UNCHANGED <<weights, weightVersion>>
    BY <1>1 DEF LoopStep, trainerVars
  <2>2. CASE StartWorker
    <3>1. <<pos, prompt>> \in Groups /\ (weights # Dummy => genVersion <= weights)
      BY <2>2, Started, Typed DEF StartWorker, VersionInv
    <3>2. \A g \in Groups :
            \/ work'[g] = work[g] /\ version'[g] = version[g] /\ born'[g] = born[g]
            \/ version'[g] = genVersion /\ born'[g] = weights
      BY <2>2, <3>1, GroupTypes DEF StartWorker
    <3>3. QED
      BY <2>1, <3>1, <3>2
  <2>3. CASE ~StartWorker
    <3>1. UNCHANGED groupVars
      BY <1>1, <2>3 DEF LoopStep, Fetch, WaitManualPause, WaitRefitPause, LimitRead, LimitCheck,
         LimitWarn, LimitClear, LimitWait, BatchRead, Reserve, DropBatch, PromptCheck,
         PromptWait, Acquire, Goto, ReadTargets, groupVars
    <3>2. QED
      BY <2>1, <3>1 DEF groupVars
  <2>4. QED
    BY <2>2, <2>3
<1>2. ASSUME NEW g \in Groups, WorkerStep(g), UNCHANGED trainerVars
      PROVE  LabelInv'
  BY <1>2, WorkerGroups DEF WorkerStep, trainerVars
<1>3. CASE ActorStep /\ UNCHANGED trainerVars
  BY <1>3 DEF ActorStep, groupVars, trainerVars
<1>4. CASE TrainerStep
  <2>1. UNCHANGED groupVars
    BY <1>4 DEF TrainerStep
  <2>2. \/ weights' = weightVersion'
        \/ UNCHANGED <<weights, weightVersion>>
    BY <1>4 DEF TrainerStep, InitialRefit, ValidateAtStart, BufferFilled, FillWaits,
       Sampled, SampleWaits, SampleRejects, Train, Prepared,
       Refit, Validate, NextStep, AskDataloaderState, SaveCheckpoint, TrainerFails
  <2>3. QED
    BY <2>1, <2>2 DEF groupVars
<1>5. CASE Restart
  <2>1. work' = [g \in Groups |-> AfterRestart(g)] /\ weights' = Dummy
    BY <1>5 DEF Restart, CollectorRestart
  <2>2. \A g \in Groups : work'[g] \notin Alive
    BY <2>1 DEF AfterRestart, Alive
  <2>3. QED
    BY <2>1, <2>2
<1>6. CASE UNCHANGED vars
  BY <1>6 DEF vars, collectorVars, trainerVars, groupVars
<1>7. QED
  BY <1>1, <1>2, <1>3, <1>4, <1>5, <1>6 DEF Next, CollectorStep, Terminated

(* A rollout that began with real weights began with weights at least as   *)
(* new as its label, at every interleaving of the refits with the starting *)
(* of the workers.                                                         *)
THEOREM LabelsAreNotNewer == Spec => []LabelNotNewer
<1>1. LabelInv => LabelNotNewer
  BY DEF LabelInv
<1>2. QED
  BY <1>1, InitTyped, NextTyped, InitVersions, NextVersions, InitLabel, NextLabel, PTL DEF Spec

-----------------------------------------------------------------------------
(* Reservations and permits.                                                *)

LEMMA InitNotStarted == Init => NotStarted
BY DEF Init, NotStarted

LEMMA NextNotStarted == TypeInv /\ NotStarted /\ [Next]_vars => NotStarted'
<1> SUFFICES ASSUME TypeInv, NotStarted, [Next]_vars PROVE NotStarted'
  OBVIOUS
<1> USE DEF NotStarted, Ahead, Between
<1>1. pos \in Nat /\ prompt \in Nat /\ LoopShape
  BY DEF TypeInv, TypeOK, CollectorTypeOK, LoopTypeOK
<1>2. CASE LoopStep
  <2> USE DEF LoopStep, loopVars, localVars, groupVars
  <2>1. CASE StartWorker
    <3>1. <<pos, prompt>> \in Groups
      BY <2>1, Started DEF StartWorker
    <3>2. \A g \in Groups : g # <<pos, prompt>> => work'[g] = work[g]
      BY <2>1, <3>1, GroupTypes DEF StartWorker
    <3>3. \A g \in Groups : Ahead(g)' => Ahead(g) /\ g # <<pos, prompt>>
      BY <1>1, <2>1 DEF StartWorker, BatchDone, Groups
    <3>4. QED
      BY <3>2, <3>3
  <2>2. CASE Fetch
    BY <1>1, <2>2 DEF Fetch, Groups
  <2>3. CASE LoopStep /\ ~StartWorker /\ ~Fetch
    <3>1. /\ UNCHANGED <<work, pos>> /\ loop \notin Between
          /\ loop' \notin Between => UNCHANGED prompt
      BY <2>3 DEF WaitManualPause, WaitRefitPause, LimitRead, LimitCheck, LimitWarn, LimitClear,
         LimitWait, BatchRead, Reserve, DropBatch, PromptCheck, PromptWait, Acquire, Goto,
         ReadTargets, BatchDone
    <3>2. QED
      BY <3>1
  <2>4. QED
    BY <1>2, <2>1, <2>2, <2>3
<1>3. ASSUME NEW g \in Groups, WorkerStep(g) PROVE NotStarted'
  <2>1. work[g] # "none" /\ \A h \in Groups : h # g => work'[h] = work[h]
    BY <1>3, WorkerGroups DEF Alive
  <2>2. QED
    BY <1>3, <2>1 DEF WorkerStep, loopVars, localVars
<1>4. CASE ActorStep
  <2>1. UNCHANGED <<work, pos, prompt>>
    BY <1>4 DEF ActorStep, loopVars, localVars, groupVars, StartCollection, SetVersion, WakeLoop,
       Pause, Resume, PrepareForRefit, PollPending, ResumeAfterRefit, GetDataloaderState
  <2>2. UNCHANGED loop \/ loop' = "fetch"
    BY <1>4 DEF ActorStep, loopVars, StartCollection, SetVersion, WakeLoop, Pause, Resume,
       PrepareForRefit, PollPending, ResumeAfterRefit, GetDataloaderState
  <2>3. QED
    BY <2>1, <2>2
<1>5. CASE TrainerStep \/ UNCHANGED vars
  BY <1>5 DEF TrainerStep, vars, collectorVars, loopVars, localVars, groupVars
<1>6. CASE Restart
  BY <1>6 DEF Restart, CollectorRestart, AfterRestart
<1>7. QED
  BY <1>2, <1>3, <1>4, <1>5, <1>6 DEF Next, CollectorStep, Terminated

LEMMA InitReserved == Init => ReservationHeld
BY DEF Init, CollectorStart, ReservationHeld

LEMMA NextReserved == TypeInv /\ NotStarted /\ ReservationHeld /\ [Next]_vars => ReservationHeld'
<1> SUFFICES ASSUME TypeInv, NotStarted, ReservationHeld, [Next]_vars,
                    NEW t \in generating'
             PROVE  \/ loop' \in Starting /\ target' = t
                    \/ \E g \in Groups : work'[g] \in Releasing /\ goal'[g] = t
  BY DEF ReservationHeld
<1> USE DEF Starting
<1>1. CASE LoopStep
  <2> USE DEF LoopStep, loopVars, localVars, groupVars, sharedVars
  <2>1. CASE StartWorker
    <3>1. /\ <<pos, prompt>> \in Groups /\ loop = "start"
          /\ work[<<pos, prompt>>] = "none" /\ t \in generating
      BY <2>1, Started DEF StartWorker, NotStarted, Ahead, Between,
         TypeInv, TypeOK, CollectorTypeOK, LoopTypeOK
    <3>2. /\ \A g \in Groups : g # <<pos, prompt>> => work'[g] = work[g] /\ goal'[g] = goal[g]
          /\ work'[<<pos, prompt>>] = "gen" /\ goal'[<<pos, prompt>>] = target
      BY <2>1, <3>1, GroupTypes DEF StartWorker
    <3>3. CASE target = t
      BY <3>1, <3>2, <3>3 DEF Releasing
    <3>4. CASE target # t
      <4>1. PICK g \in Groups : work[g] \in Releasing /\ goal[g] = t
        BY <3>1, <3>4 DEF ReservationHeld
      <4>2. g # <<pos, prompt>>
        BY <3>1, <4>1 DEF Releasing
      <4>3. QED
        BY <3>2, <4>1, <4>2
    <3>5. QED
      BY <3>3, <3>4
  <2>2. CASE Reserve
    BY <2>2 DEF Reserve, ReservationHeld
  <2>3. CASE ~StartWorker /\ ~Reserve
    <3>1. UNCHANGED <<generating, work, goal>>
      BY <1>1, <2>3 DEF Fetch, WaitManualPause, WaitRefitPause, LimitRead, LimitCheck, LimitWarn,
         LimitClear, LimitWait, BatchRead, DropBatch, PromptCheck, PromptWait, Acquire, Goto,
         ReadTargets
    <3>2. loop \in Starting => loop' \in Starting /\ UNCHANGED target
      BY <1>1, <2>3 DEF Fetch, WaitManualPause, WaitRefitPause, LimitRead, LimitCheck, LimitWarn,
         LimitClear, LimitWait, BatchRead, DropBatch, PromptCheck, PromptWait, Acquire, Goto,
         ReadTargets
    <3>3. QED
      BY <3>1, <3>2 DEF ReservationHeld
  <2>4. QED
    BY <2>1, <2>2, <2>3
<1>2. ASSUME NEW g \in Groups, WorkerStep(g)
      PROVE  \/ loop' \in Starting /\ target' = t
             \/ \E h \in Groups : work'[h] \in Releasing /\ goal'[h] = t
  <2>1. UNCHANGED <<loop, target>>
    BY <1>2 DEF WorkerStep, loopVars, localVars
  <2>2. t \in generating
    BY <1>2 DEF WorkerStep, sharedVars, RolloutFails, Push, PushFull, PushStopped, Unreserve,
       Cleanup, Release
  <2>3. CASE loop \in Starting /\ target = t
    BY <2>1, <2>3
  <2>4. ASSUME NEW h \in Groups, work[h] \in Releasing, goal[h] = t
        PROVE  work'[h] \in Releasing /\ goal'[h] = t
    <3>1. CASE h # g
      BY <1>2, <2>4, <3>1, WorkerGroups
    <3>2. CASE h = g
      <4>1. ~Unreserve(g) /\ ~Cleanup(g) /\ ~Release(g)
        BY <2>4, <3>2 DEF Unreserve, Cleanup, Release, Become, Releasing
      <4>2. UNCHANGED goal /\ work'[g] \in Releasing
        BY <1>2, <4>1, GroupTypes DEF WorkerStep, RolloutFails, Push, PushFull, PushStopped,
           Become, Releasing
      <4>3. QED
        BY <2>4, <3>2, <4>2
    <3>3. QED
      BY <3>1, <3>2
  <2>5. QED
    BY <2>2, <2>3, <2>4 DEF ReservationHeld
<1>3. CASE ActorStep
  <2>1. UNCHANGED <<generating, work, goal, target>>
    BY <1>3 DEF ActorStep, localVars, groupVars, sharedVars, StartCollection, SetVersion,
       WakeLoop, Pause, Resume, PrepareForRefit, PollPending, ResumeAfterRefit,
       GetDataloaderState
  <2>2. CASE UNCHANGED loop
    BY <2>1, <2>2 DEF ReservationHeld
  <2>3. CASE ~UNCHANGED loop
    <3>1. StartCollection
      BY <1>3, <2>3 DEF ActorStep, loopVars, SetVersion, WakeLoop, Pause, Resume,
         PrepareForRefit, PollPending, ResumeAfterRefit, GetDataloaderState
    <3>2. loop = "unstarted"
      BY <3>1, Typed DEF StartCollection, Serving, TypeInv, ActorShape
    <3>3. QED
      BY <2>1, <3>2 DEF ReservationHeld
  <2>4. QED
    BY <2>2, <2>3
<1>4. CASE TrainerStep \/ UNCHANGED vars
  BY <1>4 DEF TrainerStep, vars, collectorVars, loopVars, localVars, groupVars, sharedVars,
     ReservationHeld
<1>5. CASE Restart
  BY <1>5 DEF Restart, CollectorRestart
<1>6. QED
  BY <1>1, <1>2, <1>3, <1>4, <1>5 DEF Next, CollectorStep, Terminated

(* A reserved training step always has a thread that will release it, so   *)
(* no reservation is left behind by a failing rollout, by a finished       *)
(* dataset or by a worker that releases it for another one.                *)
THEOREM ReservationsAreHeld == Spec => []ReservationHeld
BY InitTyped, NextTyped, InitNotStarted, NextNotStarted, InitReserved, NextReserved, PTL
   DEF Spec

LEMMA LivingFinite == IsFiniteSet(Living) /\ Cardinality(Living) \in Nat
<1>1. IsFiniteSet(1 .. NumBatches) /\ IsFiniteSet(0 .. NumPrompts - 1)
  BY FS_Interval
<1>2. IsFiniteSet(Groups)
  BY <1>1, FS_Product DEF Groups
<1>3. IsFiniteSet(Living)
  BY <1>2, FS_Subset DEF Living
<1>4. QED
  BY <1>3, FS_CardinalityType

InHand == IF loop = "start" THEN 1 ELSE 0

LEMMA InitPermits == Init => PermitsConserved
<1> SUFFICES ASSUME Init PROVE PermitsConserved
  OBVIOUS
<1>1. Living = {} /\ loop # "start" /\ permits = Permits
  BY DEF Init, CollectorStart, Living, Alive
<1>2. Permits \in Int /\ Cardinality(Living) = 0
  BY <1>1, FS_EmptySet DEF Permits
<1>3. QED
  BY <1>1, <1>2 DEF PermitsConserved

LEMMA NextPermits ==
  TypeInv /\ NotStarted /\ PermitsConserved /\ [Next]_vars => PermitsConserved'
<1> SUFFICES ASSUME TypeInv, NotStarted, PermitsConserved, [Next]_vars PROVE PermitsConserved'
  OBVIOUS
<1>1. /\ permits \in Int /\ Permits \in Int /\ Cardinality(Living) \in Nat
      /\ InHand \in Nat /\ permits + Cardinality(Living) + InHand = Permits
  BY LivingFinite
     DEF TypeInv, TypeOK, CollectorTypeOK, SharedTypeOK, Permits, PermitsConserved, InHand
<1>2. SUFFICES permits' + Cardinality(Living)' + InHand' = Permits
  BY DEF PermitsConserved, InHand
<1>3. CASE Living' = Living /\ UNCHANGED <<permits, InHand>>
  BY <1>1, <1>3
<1>4. CASE LoopStep
  <2> USE DEF LoopStep, loopVars, localVars, groupVars, sharedVars
  <2>1. CASE StartWorker
    <3>1. /\ <<pos, prompt>> \in Groups /\ loop = "start" /\ work[<<pos, prompt>>] = "none"
          /\ UNCHANGED permits /\ loop' # "start"
      BY <2>1, Started DEF StartWorker, BatchDone, NotStarted, Ahead, Between,
         TypeInv, TypeOK, CollectorTypeOK, LoopTypeOK
    <3>2. /\ \A g \in Groups : g # <<pos, prompt>> => work'[g] = work[g]
          /\ work'[<<pos, prompt>>] = "gen"
      BY <2>1, <3>1, GroupTypes DEF StartWorker
    <3>3. Living' = Living \cup {<<pos, prompt>>} /\ <<pos, prompt>> \notin Living
      BY <3>1, <3>2 DEF Living, Alive
    <3>4. Cardinality(Living)' = Cardinality(Living) + 1
      BY <3>3, LivingFinite, FS_AddElement
    <3>5. QED
      BY <1>1, <3>1, <3>4 DEF InHand
  <2>2. CASE Acquire
    <3>1. Living' = Living /\ permits' = permits - 1 /\ loop = "acquire" /\ loop' = "start"
      BY <2>2 DEF Acquire, Living
    <3>2. QED
      BY <1>1, <3>1 DEF InHand
  <2>3. CASE ~StartWorker /\ ~Acquire
    <3>1. UNCHANGED <<permits, work>> /\ loop # "start" /\ loop' # "start"
      BY <1>4, <2>3 DEF Fetch, WaitManualPause, WaitRefitPause, LimitRead, LimitCheck, LimitWarn,
         LimitClear, LimitWait, BatchRead, Reserve, DropBatch, PromptCheck, PromptWait, Goto,
         ReadTargets, BatchDone
    <3>2. QED
      BY <1>3, <3>1 DEF Living, InHand
  <2>4. QED
    BY <2>1, <2>2, <2>3
<1>5. ASSUME NEW g \in Groups, WorkerStep(g)
      PROVE  permits' + Cardinality(Living)' + InHand' = Permits
  <2>1. UNCHANGED InHand
    BY <1>5 DEF WorkerStep, loopVars, InHand
  <2>2. CASE Release(g)
    <3>1. work'[g] = "done" /\ permits' = permits + 1
      BY <2>2, GroupTypes DEF Release, Become
    <3>2. Living' = Living \ {g} /\ g \in Living
      BY <1>5, <3>1, WorkerGroups DEF Living, Alive
    <3>3. Cardinality(Living)' = Cardinality(Living) - 1
      BY <3>2, LivingFinite, FS_RemoveElement
    <3>4. QED
      BY <1>1, <2>1, <3>1, <3>3
  <2>3. CASE ~Release(g)
    <3>1. UNCHANGED permits /\ work'[g] \in Alive
      BY <1>5, <2>3, GroupTypes DEF WorkerStep, sharedVars, RolloutFails, Push, PushFull,
         PushStopped, Unreserve, Cleanup, Become, Alive
    <3>2. Living' = Living
      BY <1>5, <3>1, WorkerGroups DEF Living
    <3>3. QED
      BY <1>3, <2>1, <3>1, <3>2
  <2>4. QED
    BY <2>2, <2>3
<1>6. CASE ActorStep
  <2>1. UNCHANGED <<permits, work>>
    BY <1>6 DEF ActorStep, groupVars, sharedVars, StartCollection, SetVersion,
       WakeLoop, Pause, Resume, PrepareForRefit, PollPending, ResumeAfterRefit,
       GetDataloaderState
  <2>2. UNCHANGED InHand
    <3>1. CASE UNCHANGED loop
      BY <3>1 DEF InHand
    <3>2. CASE StartCollection
      <4>1. loop = "unstarted" /\ loop' = "fetch"
        BY <3>2, Typed DEF StartCollection, Serving, TypeInv, ActorShape
      <4>2. QED
        BY <4>1 DEF InHand
    <3>3. QED
      BY <1>6, <3>1, <3>2 DEF ActorStep, loopVars, SetVersion, WakeLoop, Pause, Resume,
         PrepareForRefit, PollPending, ResumeAfterRefit, GetDataloaderState
  <2>3. QED
    BY <1>3, <2>1, <2>2 DEF Living
<1>7. CASE TrainerStep \/ UNCHANGED vars
  BY <1>3, <1>7 DEF TrainerStep, vars, collectorVars, loopVars, groupVars, sharedVars, Living,
     InHand
<1>8. CASE Restart
  <2>1. /\ permits' = Permits /\ loop' = "unstarted"
        /\ work' = [g \in Groups |-> AfterRestart(g)]
    BY <1>8 DEF Restart, CollectorRestart
  <2>2. Living' = {}
    BY <2>1 DEF Living, Alive, AfterRestart
  <2>3. Cardinality(Living)' = 0
    BY <2>2, FS_EmptySet
  <2>4. QED
    BY <1>1, <2>1, <2>3 DEF InHand
<1>9. QED
  BY <1>4, <1>5, <1>6, <1>7, <1>8 DEF Next, CollectorStep, Terminated

(* The semaphore's permits, the live workers and the thread about to be    *)
(* started add up, whichever way a worker ends.                            *)
THEOREM PermitsAreConserved == Spec => []PermitsConserved
BY InitTyped, NextTyped, InitNotStarted, NextNotStarted, InitPermits, NextPermits, PTL DEF Spec

-----------------------------------------------------------------------------
(***************************************************************************)
(* Pauses.  A queue of calls q ends with `on` when no `off` follows the    *)
(* last `on`, or there is none of either and `already` holds: once the     *)
(* actor has served the calls, what `on` brings about is the case.         *)
(***************************************************************************)
EndsWith(q, on, off, already) ==
  \/ \E i \in 1 .. Len(q) : q[i].op = on /\ \A j \in i + 1 .. Len(q) : q[j].op # off
  \/ already /\ \A i \in 1 .. Len(q) : q[i].op # off

RefitHeld == EndsWith(inbox, "prepare_for_refit", "resume_after_refit", ~refitCleared)
RefitOpen == EndsWith(inbox, "resume_after_refit", "prepare_for_refit", refitCleared)
ManualOpen == EndsWith(inbox, "resume", "pause", manualCleared)

PauseInv ==
  /\ actor = "drain" => ~refitCleared
  /\ trainer = "refit" => inbox = <<>>
  /\ trainer \in {"drain", "refit"} => RefitHeld
  /\ trainer \notin {"drain", "refit", "aborted"} => RefitOpen
  /\ trainer \notin {"val_start", "validate", "aborted"} => ManualOpen

LEMMA EndsAfterSending ==
  ASSUME NEW q \in Seq(Message), NEW calls \in Seq(Message), NEW on, NEW off,
         NEW already \in BOOLEAN, EndsWith(q, on, off, already),
         \A i \in 1 .. Len(calls) : calls[i].op # off
  PROVE  EndsWith(q \o calls, on, off, already)
<1> DEFINE r == q \o calls
<1>1. /\ Len(r) = Len(q) + Len(calls) /\ Len(q) \in Nat /\ Len(calls) \in Nat
      /\ \A i \in 1 .. Len(r) : r[i] = IF i <= Len(q) THEN q[i] ELSE calls[i - Len(q)]
  BY ConcatProperties
<1> HIDE DEF r
<1>2. \A i \in 1 .. Len(q) : i \in 1 .. Len(r) /\ r[i] = q[i]
  BY <1>1
<1>3. \A i \in 1 .. Len(r) : i \notin 1 .. Len(q) => r[i].op # off
  <2> TAKE i \in 1 .. Len(r)
  <2> HAVE i \notin 1 .. Len(q)
  <2>1. i - Len(q) \in 1 .. Len(calls) /\ r[i] = calls[i - Len(q)]
    BY <1>1
  <2>2. QED
    BY <2>1
<1>4. CASE \E i \in 1 .. Len(q) : q[i].op = on /\ \A j \in i + 1 .. Len(q) : q[j].op # off
  <2>1. PICK i \in 1 .. Len(q) : q[i].op = on /\ \A j \in i + 1 .. Len(q) : q[j].op # off
    BY <1>4
  <2>2. \A j \in i + 1 .. Len(r) : r[j].op # off
    BY <1>1, <1>2, <1>3, <2>1
  <2>3. QED
    BY <1>2, <2>1, <2>2 DEF EndsWith, r
<1>5. CASE already /\ \A i \in 1 .. Len(q) : q[i].op # off
  <2>1. \A i \in 1 .. Len(r) : r[i].op # off
    BY <1>2, <1>3, <1>5
  <2>2. QED
    BY <1>5, <2>1 DEF EndsWith, r
<1>6. QED
  BY <1>4, <1>5 DEF EndsWith

LEMMA EndsBySending ==
  ASSUME NEW q \in Seq(Message), NEW calls \in Seq(Message), NEW on, NEW off,
         NEW already \in BOOLEAN, NEW k \in 1 .. Len(calls), calls[k].op = on,
         \A i \in k + 1 .. Len(calls) : calls[i].op # off
  PROVE  EndsWith(q \o calls, on, off, already)
<1> DEFINE r == q \o calls
<1>1. /\ Len(r) = Len(q) + Len(calls) /\ Len(q) \in Nat /\ Len(calls) \in Nat
      /\ \A i \in 1 .. Len(r) : r[i] = IF i <= Len(q) THEN q[i] ELSE calls[i - Len(q)]
  BY ConcatProperties
<1> HIDE DEF r
<1>2. Len(q) + k \in 1 .. Len(r) /\ r[Len(q) + k].op = on
  <2>1. Len(q) + k \in 1 .. Len(r) /\ ~(Len(q) + k <= Len(q)) /\ (Len(q) + k) - Len(q) = k
    BY <1>1
  <2>2. r[Len(q) + k] = calls[k]
    BY <1>1, <2>1
  <2>3. QED
    BY <2>1, <2>2
<1>3. \A j \in (Len(q) + k) + 1 .. Len(r) : r[j].op # off
  <2> TAKE j \in (Len(q) + k) + 1 .. Len(r)
  <2>1. j - Len(q) \in k + 1 .. Len(calls) /\ j \in 1 .. Len(r) /\ ~(j <= Len(q))
    BY <1>1
  <2>2. r[j] = calls[j - Len(q)]
    BY <1>1, <2>1
  <2>3. QED
    BY <2>1, <2>2
<1>4. QED
  BY <1>2, <1>3 DEF EndsWith, r

LEMMA EndsAfterReturn ==
  ASSUME NEW q \in Seq(Message), q # <<>>, NEW on, NEW off, on # off,
         NEW already \in BOOLEAN, NEW now \in BOOLEAN, EndsWith(q, on, off, already),
         q[1].op = on => now,
         q[1].op \notin {on, off} /\ already => now
  PROVE  EndsWith(Tail(q), on, off, now)
<1> DEFINE r == Tail(q)
<1>1. /\ Len(r) = Len(q) - 1 /\ Len(q) \in Nat /\ Len(q) >= 1
      /\ \A i \in 1 .. Len(r) : r[i] = q[i + 1]
  BY HeadTailProperties, EmptySeq
<1> HIDE DEF r
<1>2. \A i \in 1 .. Len(r) : i + 1 \in 1 .. Len(q)
  BY <1>1
<1>3. CASE \E i \in 2 .. Len(q) : q[i].op = on /\ \A j \in i + 1 .. Len(q) : q[j].op # off
  <2>1. PICK i \in 2 .. Len(q) : q[i].op = on /\ \A j \in i + 1 .. Len(q) : q[j].op # off
    BY <1>3
  <2>2. i - 1 \in 1 .. Len(r) /\ r[i - 1].op = on
    BY <1>1, <2>1
  <2>3. \A j \in (i - 1) + 1 .. Len(r) : r[j].op # off
    <3> TAKE j \in (i - 1) + 1 .. Len(r)
    <3>1. j \in 1 .. Len(r) /\ j + 1 \in i + 1 .. Len(q)
      BY <1>1, <2>1
    <3>2. QED
      BY <1>1, <2>1, <3>1
  <2>4. QED
    BY <2>2, <2>3 DEF EndsWith, r
<1>4. CASE q[1].op = on /\ \A j \in 1 + 1 .. Len(q) : q[j].op # off
  <2>1. \A i \in 1 .. Len(r) : r[i].op # off
    <3> TAKE i \in 1 .. Len(r)
    <3>1. i + 1 \in 1 + 1 .. Len(q) /\ r[i] = q[i + 1]
      BY <1>1
    <3>2. QED
      BY <1>4, <3>1
  <2>2. QED
    BY <1>4, <2>1 DEF EndsWith, r
<1>5. CASE already /\ \A i \in 1 .. Len(q) : q[i].op # off
  <2>1. \A i \in 1 .. Len(r) : r[i].op # off
    BY <1>1, <1>2, <1>5
  <2>2. now
    BY <1>1, <1>5
  <2>3. QED
    BY <2>1, <2>2 DEF EndsWith, r
<1>6. QED
  <2>1. \A i \in 1 .. Len(q) : i = 1 \/ i \in 2 .. Len(q)
    BY <1>1
  <2>2. QED
    BY <1>3, <1>4, <1>5, <2>1 DEF EndsWith

(* What the call that the actor answers has done to the two events.        *)
LEMMA ActorAnswers ==
  ASSUME TypeInv, ActorStep, Return, actor = "drain" => ~refitCleared
  PROVE  /\ inbox # <<>> /\ actor' = "idle"
         /\ inbox[1].op = "prepare_for_refit" => ~refitCleared'
         /\ inbox[1].op = "resume_after_refit" => refitCleared'
         /\ inbox[1].op \notin {"prepare_for_refit", "resume_after_refit"} =>
              refitCleared' = refitCleared
         /\ inbox[1].op = "resume" => manualCleared'
         /\ inbox[1].op \notin {"pause", "resume"} => manualCleared' = manualCleared
<1>1. inbox # <<>> /\ Head(inbox) = inbox[1] /\ actor' = "idle"
  BY ActorReturns, Typed DEF Return
<1>2. ~SetVersion
  BY SetVersionKeepsCall
<1>3. CASE WakeLoop
  <2>1. inbox[1].op = "set_weight_version"
    BY <1>1, <1>3 DEF WakeLoop, TypeInv, ActorShape
  <2>2. QED
    BY <1>1, <1>3, <2>1 DEF WakeLoop, pauseVars
<1>4. CASE PollPending
  <2>1. inbox[1].op = "prepare_for_refit" /\ ~refitCleared
    BY <1>1, <1>4 DEF PollPending, TypeInv, ActorShape
  <2>2. QED
    BY <1>1, <1>4, <2>1 DEF PollPending, pauseVars
<1>5. CASE StartCollection \/ GetDataloaderState
  BY <1>1, <1>5 DEF StartCollection, GetDataloaderState, Serving, pauseVars
<1>6. CASE Pause \/ Resume
  BY <1>1, <1>6 DEF Pause, Resume, Serving
<1>7. CASE PrepareForRefit \/ ResumeAfterRefit
  BY <1>1, <1>7 DEF PrepareForRefit, ResumeAfterRefit, Serving
<1>8. QED
  BY <1>2, <1>3, <1>4, <1>5, <1>6, <1>7 DEF ActorStep

LEMMA ActorPauses ==
  ASSUME TypeInv, PauseInv, ActorStep, UNCHANGED trainerVars
  PROVE  PauseInv'
<1>1. UNCHANGED trainer /\ inbox \in Seq(Message)
  BY Typed DEF trainerVars
<1>2. refitCleared \in BOOLEAN /\ manualCleared \in BOOLEAN
  BY DEF TypeInv, TypeOK, CollectorTypeOK, ActorTypeOK
<1>3. refitCleared' \in BOOLEAN /\ manualCleared' \in BOOLEAN
  <2>1. TypeInv'
    BY ActorTyped
  <2>2. QED
    BY <2>1 DEF TypeInv, TypeOK, CollectorTypeOK, ActorTypeOK
<1>4. CASE Return
  <2>1. /\ inbox # <<>> /\ actor' = "idle" /\ inbox' = Tail(inbox)
        /\ inbox[1].op = "prepare_for_refit" => ~refitCleared'
        /\ inbox[1].op = "resume_after_refit" => refitCleared'
        /\ inbox[1].op \notin {"prepare_for_refit", "resume_after_refit"} =>
             refitCleared' = refitCleared
        /\ inbox[1].op = "resume" => manualCleared'
        /\ inbox[1].op \notin {"pause", "resume"} => manualCleared' = manualCleared
    BY <1>4, ActorAnswers DEF PauseInv, Return
  <2>2. trainer # "refit"
    BY <2>1 DEF PauseInv
  <2>3. RefitHeld => RefitHeld'
    <3>1. ASSUME RefitHeld
          PROVE  EndsWith(Tail(inbox), "prepare_for_refit", "resume_after_refit", ~refitCleared')
      BY <1>1, <1>2, <1>3, <2>1, <3>1, EndsAfterReturn DEF RefitHeld
    <3>2. QED
      BY <2>1, <3>1 DEF RefitHeld
  <2>4. RefitOpen => RefitOpen'
    <3>1. ASSUME RefitOpen
          PROVE  EndsWith(Tail(inbox), "resume_after_refit", "prepare_for_refit", refitCleared')
      BY <1>1, <1>2, <1>3, <2>1, <3>1, EndsAfterReturn DEF RefitOpen
    <3>2. QED
      BY <2>1, <3>1 DEF RefitOpen
  <2>5. ManualOpen => ManualOpen'
    <3>1. ASSUME ManualOpen
          PROVE  EndsWith(Tail(inbox), "resume", "pause", manualCleared')
      BY <1>1, <1>2, <1>3, <2>1, <3>1, EndsAfterReturn DEF ManualOpen
    <3>2. QED
      BY <2>1, <3>1 DEF ManualOpen
  <2>6. QED
    BY <1>1, <2>1, <2>2, <2>3, <2>4, <2>5 DEF PauseInv
<1>5. CASE ~Return
  <2>1. SetVersion \/ (PrepareForRefit /\ ~InFlightUpdates) \/ PollPending
    BY <1>5, Zenon DEF ActorStep, StartCollection, WakeLoop, Pause, Resume, PrepareForRefit,
       ResumeAfterRefit, GetDataloaderState
  <2>2. UNCHANGED inbox
    BY <1>5, ActorKeepsInbox
  <2>3. CASE PrepareForRefit
    <3>1. /\ inbox[1].op = "prepare_for_refit" /\ 1 \in 1 .. Len(inbox)
          /\ ~refitCleared' /\ UNCHANGED manualCleared /\ inbox # <<>>
      BY <2>3, Typed DEF PrepareForRefit, Serving
    <3>2. trainer # "refit"
      BY <3>1 DEF PauseInv
    <3>3. RefitHeld => RefitHeld'
      BY <2>2, <3>1 DEF RefitHeld, EndsWith
    <3>4. RefitOpen => RefitOpen'
      BY <2>2, <3>1 DEF RefitOpen, EndsWith
    <3>5. ManualOpen => ManualOpen'
      BY <2>2, <3>1 DEF ManualOpen, EndsWith
    <3>6. QED
      BY <1>1, <3>1, <3>2, <3>3, <3>4, <3>5 DEF PauseInv
  <2>4. CASE SetVersion \/ PollPending
    <3>1. UNCHANGED pauseVars /\ actor' \in {actor, "wake"}
      BY <1>5, <2>4 DEF SetVersion, PollPending
    <3>2. QED
      BY <1>1, <2>2, <3>1 DEF PauseInv, RefitHeld, RefitOpen, ManualOpen, EndsWith, pauseVars
  <2>5. QED
    BY <2>1, <2>3, <2>4
<1>6. QED
  BY <1>4, <1>5

LEMMA SendChanges ==
  ASSUME TypeInv, NEW calls \in Seq(Message), Len(calls) > 0, Send(calls)
  PROVE  inbox' # inbox
<1>1. Len(inbox') = Len(inbox) + Len(calls) /\ Len(calls) \in Nat
  BY Typed, SendTo
<1>2. QED
  BY <1>1, Typed

(* Of the calls of the training loop only these four bear on the events.   *)
LEMMA TrainerPauses ==
  ASSUME TypeInv, PauseInv, TrainerStep
  PROVE  PauseInv'
<1> USE DEF TrainerStep
<1>1. /\ UNCHANGED <<refitCleared, manualCleared, actor>> /\ inbox \in Seq(Message)
      /\ refitCleared \in BOOLEAN /\ manualCleared \in BOOLEAN /\ weightVersion + 1 \in Nat
  <2>1. UNCHANGED actor
    BY DEF InitialRefit, ValidateAtStart, BufferFilled, FillWaits, Sampled, SampleWaits,
       SampleRejects, Train, Prepared, Refit, Validate, NextStep, AskDataloaderState,
       SaveCheckpoint, TrainerFails, Send, actorVars
  <2>2. QED
    BY <2>1, Typed DEF pauseVars, TypeInv, TypeOK, CollectorTypeOK, ActorTypeOK
<1> DEFINE held(q) == EndsWith(q, "prepare_for_refit", "resume_after_refit", ~refitCleared)
           open(q) == EndsWith(q, "resume_after_refit", "prepare_for_refit", refitCleared)
           manual(q) == EndsWith(q, "resume", "pause", manualCleared)
<1>2. /\ RefitHeld = held(inbox) /\ RefitHeld' = held(inbox')
      /\ RefitOpen = open(inbox) /\ RefitOpen' = open(inbox')
      /\ ManualOpen = manual(inbox) /\ ManualOpen' = manual(inbox')
  BY <1>1 DEF RefitHeld, RefitOpen, ManualOpen, EndsWith
<1>3. PauseInv' <=> /\ (actor = "drain" => ~refitCleared)
                    /\ (trainer' = "refit" => inbox' = <<>>)
                    /\ (trainer' \in {"drain", "refit"} => held(inbox'))
                    /\ (trainer' \notin {"drain", "refit", "aborted"} => open(inbox'))
                    /\ (trainer' \notin {"val_start", "validate", "aborted"} => manual(inbox'))
  BY <1>1, <1>2 DEF PauseInv
<1>4. PauseInv <=> /\ (actor = "drain" => ~refitCleared)
                   /\ (trainer = "refit" => inbox = <<>>)
                   /\ (trainer \in {"drain", "refit"} => held(inbox))
                   /\ (trainer \notin {"drain", "refit", "aborted"} => open(inbox))
                   /\ (trainer \notin {"val_start", "validate", "aborted"} => manual(inbox))
  BY <1>2 DEF PauseInv
<1> HIDE DEF held, open, manual
<1>5. ASSUME NEW op \in Quiet, NEW a \in Nat, Send(<<Call(op, a)>>)
      PROVE  /\ op # "resume_after_refit" /\ held(inbox) => held(inbox')
             /\ op # "prepare_for_refit" /\ open(inbox) => open(inbox')
             /\ op # "pause" /\ manual(inbox) => manual(inbox')
             /\ op = "prepare_for_refit" => held(inbox')
             /\ op = "resume" => manual(inbox')
  <2> DEFINE calls == <<Call(op, a)>>
  <2>1. calls \in Seq(Message) /\ Len(calls) = 1 /\ calls[1].op = op /\ inbox' = inbox \o calls
    BY <1>5, CallsTyped DEF Call, Quiet, Send
  <2>2. /\ 1 \in 1 .. Len(calls)
        /\ \A off : \A i \in 1 + 1 .. Len(calls) : calls[i].op # off
    BY <2>1
  <2>3. \A off : op # off => \A i \in 1 .. Len(calls) : calls[i].op # off
    BY <2>1
  <2> HIDE DEF calls
  <2>4. op # "resume_after_refit" /\ held(inbox) => held(inbox')
    BY <1>1, <2>1, <2>3, EndsAfterSending DEF held
  <2>5. op # "prepare_for_refit" /\ open(inbox) => open(inbox')
    BY <1>1, <2>1, <2>3, EndsAfterSending DEF open
  <2>6. op # "pause" /\ manual(inbox) => manual(inbox')
    BY <1>1, <2>1, <2>3, EndsAfterSending DEF manual
  <2>7. op = "prepare_for_refit" => held(inbox')
    BY <1>1, <2>1, <2>2, EndsBySending DEF held
  <2>8. op = "resume" => manual(inbox')
    BY <1>1, <2>1, <2>2, EndsBySending DEF manual
  <2>9. QED
    BY <2>4, <2>5, <2>6, <2>7, <2>8
<1>6. CASE UNCHANGED inbox
  <2>1. ASSUME NEW op \in Calls PROVE ~Send(<<Call(op, 0)>>)
    <3> DEFINE calls == <<Call(op, 0)>>
    <3>1. calls \in Seq(Message) /\ Len(calls) > 0
      BY DEF Call, Message
    <3> HIDE DEF calls
    <3>2. ~Send(calls)
      BY <1>6, <3>1, SendChanges
    <3>3. QED
      BY <3>2 DEF calls
  <2>2. CASE Prepared
    BY <1>3, <1>4, <1>6, <2>2 DEF Prepared, Answered
  <2>3. CASE InitialRefit
    <3>1. trainer' = "fill" \/ Send(<<Call("pause", 0)>>)
      BY <2>3 DEF InitialRefit
    <3>2. ~Send(<<Call("pause", 0)>>)
      BY <2>1 DEF Calls
    <3>3. QED
      BY <1>3, <1>4, <1>6, <2>3, <3>1, <3>2 DEF InitialRefit
  <2>4. CASE BufferFilled \/ FillWaits \/ Sampled \/ SampleWaits \/ SampleRejects \/ NextStep
             \/ SaveCheckpoint \/ TrainerFails
    BY <1>3, <1>4, <1>6, <2>4 DEF BufferFilled, AfterFill, FillWaits, Sampled, SampleWaits,
       SampleRejects, NextStep, SaveCheckpoint, TrainerFails
  <2>5. ~Train /\ ~Validate /\ ~ValidateAtStart /\ ~AskDataloaderState
    BY <2>1 DEF Train, Validate, ValidateAtStart, AskDataloaderState, Calls
  <2>6. ~Refit
    <3>1. ~Send(Announce(weightVersion + 1)) /\ ~Send(AnnouncePause(weightVersion + 1))
      BY <1>1, <1>6, SendChanges, AnnounceTyped
    <3>2. QED
      BY <3>1 DEF Refit, AnnouncePause
  <2>7. QED
    BY <2>2, <2>3, <2>4, <2>5, <2>6
<1>7. CASE Refit
  <2>1. PICK calls \in {Announce(weightVersion + 1), AnnouncePause(weightVersion + 1)} :
          /\ Send(calls)
          /\ \/ calls = Announce(weightVersion + 1) /\ trainer' = "save"
             \/ trainer' = "validate"
    BY <1>7 DEF Refit, AnnouncePause
  <2>2. /\ calls \in Seq(Message) /\ 2 \in 1 .. Len(calls)
        /\ calls[2].op = "resume_after_refit"
        /\ \A i \in 1 .. Len(calls) : calls[i].op # "prepare_for_refit"
        /\ calls = Announce(weightVersion + 1) =>
             \A i \in 1 .. Len(calls) : calls[i].op # "pause"
    <3>1. /\ Call("resume_after_refit", 0).op = "resume_after_refit"
          /\ Call("set_weight_version", weightVersion + 1).op = "set_weight_version"
          /\ Call("pause", 0).op = "pause"
      BY DEF Call
    <3>2. /\ calls \in Seq(Message) /\ Len(calls) \in {2, 3}
          /\ calls[1] = Call("set_weight_version", weightVersion + 1)
          /\ calls[2] = Call("resume_after_refit", 0)
          /\ Len(calls) = 3 => calls[3] = Call("pause", 0)
          /\ calls = Announce(weightVersion + 1) => Len(calls) = 2
      BY <1>1, <2>1, AnnounceTyped
    <3>3. QED
      BY <3>1, <3>2
  <2>3. inbox' = inbox \o calls
    BY <2>1 DEF Send
  <2>4. open(inbox')
    <3>1. \A i \in 2 + 1 .. Len(calls) : calls[i].op # "prepare_for_refit"
      BY <2>2
    <3>2. QED
      BY <1>1, <2>2, <2>3, <3>1, EndsBySending DEF open
  <2>5. trainer' = "save" => manual(inbox')
    <3>1. manual(inbox)
      BY <1>4, <1>7 DEF Refit
    <3>2. ASSUME trainer' = "save" PROVE \A i \in 1 .. Len(calls) : calls[i].op # "pause"
      BY <2>1, <2>2, <3>2
    <3>3. QED
      BY <1>1, <2>2, <2>3, <3>1, <3>2, EndsAfterSending DEF manual
  <2>6. QED
    BY <1>3, <1>4, <2>1, <2>4, <2>5
<1>8. CASE ~UNCHANGED inbox /\ ~Refit
  <2>1. CASE InitialRefit
    <3>1. Send(<<Call("pause", 0)>>) /\ trainer' = "val_start" /\ trainer = "setup"
      BY <1>8, <2>1 DEF InitialRefit, actorVars
    <3>2. "pause" \in Quiet /\ "pause" # "prepare_for_refit" /\ open(inbox)
      BY <1>4, <3>1 DEF Quiet, Calls
    <3>3. open(inbox')
      BY <1>5, <3>1, <3>2
    <3>4. QED
      BY <1>3, <1>4, <3>1, <3>3
  <2>2. CASE ValidateAtStart \/ Validate
    <3>1. Send(<<Call("resume", 0)>>) /\ trainer' \in {"fill", "save"}
          /\ trainer \in {"val_start", "validate"}
      BY <2>2 DEF ValidateAtStart, Validate
    <3>2. "resume" \in Quiet /\ "resume" # "prepare_for_refit" /\ open(inbox)
      BY <1>4, <3>1 DEF Quiet, Calls
    <3>3. open(inbox') /\ manual(inbox')
      BY <1>5, <3>1, <3>2
    <3>4. QED
      BY <1>3, <1>4, <3>1, <3>3
  <2>3. CASE Train
    <3>1. Send(<<Call("prepare_for_refit", 0)>>) /\ trainer' = "drain" /\ trainer = "train"
      BY <2>3 DEF Train
    <3>2. /\ "prepare_for_refit" \in Quiet /\ "prepare_for_refit" # "pause"
          /\ manual(inbox)
      BY <1>4, <3>1 DEF Quiet, Calls
    <3>3. held(inbox') /\ manual(inbox')
      BY <1>5, <3>1, <3>2
    <3>4. QED
      BY <1>3, <1>4, <3>1, <3>3
  <2>4. CASE AskDataloaderState
    <3>1. Send(<<Call("get_dataloader_state", 0)>>) /\ trainer = "save"
          /\ trainer' \in {"await_state", "await_last"}
      BY <2>4 DEF AskDataloaderState
    <3>2. /\ "get_dataloader_state" \in Quiet \ {"prepare_for_refit", "pause"}
          /\ open(inbox) /\ manual(inbox)
      BY <1>4, <3>1 DEF Quiet, Calls
    <3>3. open(inbox') /\ manual(inbox')
      BY <1>5, <3>1, <3>2
    <3>4. QED
      BY <1>3, <1>4, <3>1, <3>3
  <2>5. QED
    BY <1>8, <2>1, <2>2, <2>3, <2>4 DEF BufferFilled, FillWaits, Sampled, SampleWaits,
       SampleRejects, Prepared, NextStep, SaveCheckpoint, TrainerFails, actorVars
<1>9. QED
  BY <1>6, <1>7, <1>8

LEMMA StartedOpen ==
  ASSUME NEW s
  PROVE  LET q == <<Call("start_collection", 0), Call("set_weight_version", s)>> IN
           \A i \in 1 .. Len(q) : q[i].op \notin {"prepare_for_refit", "pause"}
BY DEF Call

LEMMA InitPauses == Init => PauseInv
BY StartedOpen DEF Init, CollectorStart, PauseInv, RefitOpen, ManualOpen, EndsWith

LEMMA NextPauses == TypeInv /\ PauseInv /\ [Next]_vars => PauseInv'
<1> SUFFICES ASSUME TypeInv, PauseInv, [Next]_vars PROVE PauseInv'
  OBVIOUS
<1>1. CASE Restart
  <2>1. /\ inbox' = <<Call("start_collection", 0), Call("set_weight_version", saved.step)>>
        /\ actor' = "idle" /\ refitCleared' = TRUE /\ manualCleared' = TRUE
        /\ trainer' = "setup"
    BY <1>1 DEF Restart, CollectorRestart
  <2>2. \A i \in 1 .. Len(inbox') : inbox'[i].op \notin {"prepare_for_refit", "pause"}
    BY <2>1, StartedOpen
  <2>3. RefitOpen' /\ ManualOpen'
    BY <2>1, <2>2 DEF RefitOpen, ManualOpen, EndsWith
  <2>4. QED
    BY <2>1, <2>3 DEF PauseInv
<1>2. ASSUME UNCHANGED <<inbox, actor, pauseVars, trainer>> PROVE PauseInv'
  BY <1>2 DEF PauseInv, RefitHeld, RefitOpen, ManualOpen, EndsWith, pauseVars
<1>3. CASE UNCHANGED vars
  BY <1>2, <1>3 DEF vars, collectorVars, trainerVars, actorVars
<1>4. CASE (LoopStep \/ \E g \in Groups : WorkerStep(g)) /\ UNCHANGED trainerVars
  BY <1>2, <1>4 DEF trainerVars, actorVars, LoopStep, WorkerStep
<1>5. CASE ActorStep /\ UNCHANGED trainerVars
  BY <1>5, ActorPauses
<1>6. CASE TrainerStep
  BY <1>6, TrainerPauses
<1>7. CASE CollectorStep
  BY <1>5, <1>7, <1>4 DEF CollectorStep
<1>8. QED
  BY <1>1, <1>3, <1>6, <1>7 DEF Next, Terminated

(* In every schedule the engine is refitted only while new generations are *)
(* held back, and once the actor has answered everything the training loop *)
(* sent before it samples, neither the pause for a refit nor the one for a *)
(* validation is left: no lost, late or overtaken call can leave the       *)
(* collection thread waiting.                                              *)
THEOREM PausesAreKept == Spec => []PauseProtocol
<1>1. PauseInv => PauseProtocol
  BY DEF PauseInv, PauseProtocol, RefitHeld, RefitOpen, ManualOpen, EndsWith, Answered
<1>2. QED
  BY <1>1, InitTyped, NextTyped, InitPauses, NextPauses, PTL DEF Spec

(* The schedules in which control takes no time are schedules: all that is *)
(* proved here of Spec holds in the runs of QuickSpec.                     *)
THEOREM QuickIsASchedule == QuickSpec => Spec
<1>1. [QuickNext]_vars => [Next]_vars
  BY DEF QuickNext, QuickCollector, QuickTrainer, Next, CollectorStep
<1>2. QED
  BY <1>1, PTL DEF QuickSpec, Spec
-----------------------------------------------------------------------------
(***************************************************************************)
(* Stragglers, where control takes no time.  A thread's record is in the   *)
(* set from before its start until its cleanup, because the poll does not  *)
(* come between entering a record and starting its thread; so the drain    *)
(* ends with nobody generating, and the collection thread, if it waited    *)
(* for a permit then, starts one more worker before it sees the pause.     *)
(***************************************************************************)
Generating == {g \in Groups : work[g] = "gen"}
Recorded == {"gen", "push", "unreserve", "cleanup"}

TrackedInv ==
  /\ loop = "start" => <<pos, prompt>> \in tracked
  /\ \A g \in Groups : work[g] \in Recorded => g \in tracked

Straggling ==
  /\ \E h : Generating \subseteq {h}
  /\ loop \in {"acquire", "start"} => Generating = {}

DrainInv ==
  /\ trainer = "drain" /\ inbox # <<>> => inbox[Len(inbox)].op = "prepare_for_refit"
  /\ ~InFlightUpdates /\ trainer \in {"drain", "refit"} /\ inbox = <<>> => Straggling

LEMMA QuickSteps ==
  ASSUME [QuickNext]_vars
  PROVE  \/ LoopStep /\ UNCHANGED trainerVars
         \/ ActorStep /\ UNCHANGED trainerVars /\ (PollPending => loop # "start")
         \/ \E g \in Groups : WorkerStep(g) /\ UNCHANGED trainerVars
         \/ TrainerStep
         \/ Restart
         \/ UNCHANGED vars
BY DEF QuickNext, QuickCollector, QuickTrainer, Terminated, CallWaiting, LoopReady, PollPending

LEMMA InitTracked == Init => TrackedInv
BY DEF Init, CollectorStart, TrackedInv, Recorded

LEMMA NextTracked == TypeInv /\ NotStarted /\ TrackedInv /\ [QuickNext]_vars => TrackedInv'
<1> SUFFICES ASSUME TypeInv, NotStarted, TrackedInv, [QuickNext]_vars PROVE TrackedInv'
  OBVIOUS
<1> USE DEF TrackedInv
<1>1. CASE LoopStep
  <2> USE DEF LoopStep, loopVars, localVars, groupVars
  <2>1. CASE StartWorker
    <3> DEFINE s == <<pos, prompt>>
    <3>1. loop = "start" /\ s \in Groups /\ s \in tracked
      BY <2>1, Started DEF StartWorker
    <3>2. work'[s] = "gen" /\ \A g \in Groups : g # s => work'[g] = work[g]
      BY <2>1, <3>1, GroupTypes DEF StartWorker
    <3>3. loop' # "start" /\ (UNCHANGED tracked \/ tracked' = {g \in tracked : work'[g] \in Alive})
      BY <2>1 DEF StartWorker, BatchDone
    <3> HIDE DEF s
    <3>4. QED
      BY <3>1, <3>2, <3>3 DEF Recorded, Alive
  <2>2. CASE Acquire
    BY <2>2 DEF Acquire
  <2>3. CASE LoopStep /\ ~StartWorker /\ ~Acquire
    <3>1. UNCHANGED <<work, tracked>> /\ loop' # "start"
      BY <2>3 DEF Fetch, WaitManualPause, WaitRefitPause, LimitRead, LimitCheck, LimitWarn, LimitClear,
         LimitWait, BatchRead, Reserve, DropBatch, PromptCheck, PromptWait, Goto,
         ReadTargets, BatchDone, sharedVars
    <3>2. QED
      BY <3>1
  <2>4. QED
    BY <1>1, <2>1, <2>2, <2>3
<1>2. ASSUME NEW g \in Groups, WorkerStep(g) PROVE TrackedInv'
  <2>1. \A h \in Groups : h # g => work'[h] = work[h]
    BY <1>2, WorkerGroups
  <2>2. UNCHANGED <<loop, pos, prompt>>
    BY <1>2 DEF WorkerStep, loopVars, localVars
  <2>3. work[g] # "none" /\ (work'[g] \in Recorded => work[g] \in Recorded)
    BY <1>2, GroupTypes DEF WorkerStep, RolloutFails, Push, PushFull, PushStopped, Unreserve,
       Cleanup, Release, Become, Recorded
  <2>4. UNCHANGED tracked \/ (tracked' = tracked \ {g} /\ work'[g] = "release")
    BY <1>2, GroupTypes DEF WorkerStep, RolloutFails, Push, PushFull, PushStopped, Unreserve,
       Cleanup, Release, Become, sharedVars
  <2>5. loop = "start" => <<pos, prompt>> # g
    BY <2>3, Started DEF NotStarted, Ahead, Between, TypeInv, TypeOK, CollectorTypeOK, LoopTypeOK
  <2>6. QED
    BY <2>1, <2>2, <2>3, <2>4, <2>5 DEF Recorded
<1>3. CASE ActorStep /\ (PollPending => loop # "start")
  <2>1. UNCHANGED <<work, pos, prompt>>
    BY <1>3 DEF ActorStep, loopVars, localVars, groupVars, StartCollection, SetVersion, WakeLoop,
       Pause, Resume, PrepareForRefit, PollPending, ResumeAfterRefit, GetDataloaderState
  <2>2. UNCHANGED loop \/ loop' = "fetch"
    BY <1>3 DEF ActorStep, loopVars, StartCollection, SetVersion, WakeLoop, Pause, Resume,
       PrepareForRefit, PollPending, ResumeAfterRefit, GetDataloaderState
  <2>3. CASE PollPending
    BY <1>3, <2>1, <2>2, <2>3 DEF PollPending, Pending, loopVars, Recorded, Alive
  <2>4. CASE ~PollPending
    <3>1. UNCHANGED tracked
      BY <1>3, <2>4 DEF ActorStep, sharedVars, StartCollection, SetVersion, WakeLoop,
         Pause, Resume, PrepareForRefit, ResumeAfterRefit, GetDataloaderState
    <3>2. QED
      BY <2>1, <2>2, <3>1
  <2>5. QED
    BY <2>3, <2>4
<1>4. CASE TrainerStep \/ UNCHANGED vars
  BY <1>4 DEF TrainerStep, vars, collectorVars, loopVars, localVars, groupVars, sharedVars
<1>5. CASE Restart
  BY <1>5 DEF Restart, CollectorRestart, AfterRestart, Recorded
<1>6. QED
  BY <1>1, <1>2, <1>3, <1>4, <1>5, QuickSteps

LEMMA InitDrain == Init => DrainInv
BY DEF Init, DrainInv

(* What may still be generated during a refit.                             *)
LEMMA StragglingKept ==
  ASSUME TypeInv, Straggling, ~refitCleared,
         LoopStep \/ \E g \in Groups : WorkerStep(g)
  PROVE  Straggling'
<1> USE DEF Straggling
<1>1. CASE LoopStep
  <2> USE DEF LoopStep, loopVars, localVars, groupVars
  <2>1. CASE StartWorker
    <3>1. loop = "start" /\ <<pos, prompt>> \in Groups /\ Generating = {}
      BY <2>1, Started DEF StartWorker
    <3>2. \A g \in Groups : g # <<pos, prompt>> => work'[g] = work[g]
      BY <2>1, <3>1, GroupTypes DEF StartWorker
    <3>3. Generating' \subseteq {<<pos, prompt>>}
      BY <3>1, <3>2 DEF Generating
    <3>4. loop' \notin {"acquire", "start"}
      BY <2>1 DEF StartWorker, BatchDone
    <3>5. QED
      BY <3>3, <3>4
  <2>2. CASE ~StartWorker
    <3>1. UNCHANGED work
      BY <1>1, <2>2 DEF Fetch, WaitManualPause, WaitRefitPause, LimitRead, LimitCheck, LimitWarn,
         LimitClear, LimitWait, BatchRead, Reserve, DropBatch, PromptCheck, PromptWait, Goto,
         ReadTargets, BatchDone, Acquire
    <3>2. loop' \in {"acquire", "start"} => loop = "acquire"
      BY <1>1, <2>2 DEF Fetch, WaitManualPause, WaitRefitPause, LimitRead, LimitCheck, LimitWarn,
         LimitClear, LimitWait, BatchRead, Reserve, DropBatch, PromptCheck, PromptWait, Goto,
         ReadTargets, BatchDone, Acquire
    <3>3. Generating' = Generating
      BY <3>1 DEF Generating
    <3>4. QED
      BY <3>2, <3>3
  <2>3. QED
    BY <2>1, <2>2
<1>2. ASSUME NEW g \in Groups, WorkerStep(g) PROVE Straggling'
  <2>1. \A h \in Groups : work'[h] = "gen" => work[h] = "gen"
    <3>1. \A h \in Groups : h # g => work'[h] = work[h]
      BY <1>2, WorkerGroups
    <3>2. work'[g] # "gen"
      BY <1>2, GroupTypes DEF WorkerStep, RolloutFails, Push, PushFull, PushStopped, Unreserve,
         Cleanup, Release, Become
    <3>3. QED
      BY <3>1, <3>2
  <2>2. Generating' \subseteq Generating
    BY <2>1 DEF Generating
  <2>3. UNCHANGED loop
    BY <1>2 DEF WorkerStep, loopVars
  <2>4. QED
    BY <2>2, <2>3
<1>3. QED
  BY <1>1, <1>2

LEMMA ActorDrain ==
  ASSUME TypeInv, PauseInv, TrackedInv, DrainInv, ActorStep, UNCHANGED trainerVars
  PROVE  DrainInv'
<1>1. inbox \in Seq(Message) /\ UNCHANGED trainer
  BY Typed DEF trainerVars
<1>2. CASE inbox = <<>>
  BY <1>2 DEF ActorStep, StartCollection, SetVersion, WakeLoop, Pause, Resume, PrepareForRefit,
     PollPending, ResumeAfterRefit, GetDataloaderState, Serving, TypeInv, ActorShape
<1>3. CASE ~Return /\ inbox # <<>>
  <2>1. UNCHANGED inbox
    BY <1>3, ActorKeepsInbox
  <2>2. QED
    BY <1>1, <1>3, <2>1 DEF DrainInv
<1>4. CASE Return /\ inbox # <<>>
  <2>1. /\ Len(inbox') = Len(inbox) - 1 /\ inbox' \in Seq(Message) /\ Len(inbox) \in Nat
        /\ \A i \in 1 .. Len(inbox') : inbox'[i] = inbox[i + 1]
    BY <1>1, <1>4, ReturnFrom
  <2>2. CASE inbox' # <<>>
    <3>1. Len(inbox') \in 1 .. Len(inbox') /\ Len(inbox') + 1 = Len(inbox)
      BY <2>1, <2>2, EmptySeq
    <3>2. inbox'[Len(inbox')] = inbox[Len(inbox)]
      BY <2>1, <3>1
    <3>3. QED
      BY <1>1, <1>4, <2>2, <3>2 DEF DrainInv
  <2>3. CASE inbox' = <<>> /\ trainer = "drain" /\ ~InFlightUpdates
    <3>1. Len(inbox) = 1 /\ Head(inbox) = inbox[1]
      BY <1>1, <1>4, <2>1, <2>3
    <3>2. Head(inbox).op = "prepare_for_refit"
      BY <1>4, <2>3, <3>1 DEF DrainInv
    <3>3. PollPending
      BY <1>4, <2>3, <3>2, SetVersionKeepsCall DEF ActorStep, StartCollection, WakeLoop, Pause, Resume,
         PrepareForRefit, ResumeAfterRefit, GetDataloaderState, Serving, TypeInv, ActorShape, Return
    <3>4. Pending = {}
      BY <1>4, <2>1, <3>3 DEF PollPending
    <3>5. Generating = {} /\ UNCHANGED work
      BY <1>1, <3>4, <1>4 DEF TrackedInv, Recorded, Pending, Generating, Alive, ActorStep, groupVars
    <3>6. Generating' = {}
      BY <3>5 DEF Generating
    <3>7. QED
      BY <2>3, <3>6 DEF DrainInv, Straggling
  <2>4. CASE inbox' = <<>> /\ ~(trainer = "drain" /\ ~InFlightUpdates)
    <3>1. trainer # "refit"
      BY <1>4 DEF PauseInv
    <3>2. QED
      BY <1>1, <2>4, <3>1 DEF DrainInv
  <2>5. QED
    BY <2>2, <2>3, <2>4
<1>5. QED
  BY <1>2, <1>3, <1>4

LEMMA TrainerDrain ==
  ASSUME TypeInv, DrainInv, TrainerStep
  PROVE  DrainInv'
<1>1. UNCHANGED <<loop, work>>
  BY DEF TrainerStep, loopVars, groupVars
<1>2. Straggling' <=> Straggling
  BY <1>1 DEF Straggling, Generating
<1>3. CASE Train
  <2> DEFINE calls == <<Call("prepare_for_refit", 0)>>
  <2>1. calls \in Seq(Message) /\ Len(calls) = 1 /\ calls[1].op = "prepare_for_refit"
    BY DEF Call, Message, Calls
  <2>2. Send(calls) /\ trainer' = "drain"
    BY <1>3 DEF Train
  <2> HIDE DEF calls
  <2>3. /\ inbox' \in Seq(Message) /\ Len(inbox') = Len(inbox) + 1 /\ Len(inbox) \in Nat
        /\ inbox'[Len(inbox) + 1] = calls[1]
    <3>1. inbox \in Seq(Message) /\ Len(inbox) \in Nat
      BY Typed
    <3>2. /\ inbox' \in Seq(Message) /\ Len(inbox') = Len(inbox) + Len(calls)
          /\ \A i \in 1 .. Len(calls) : inbox'[Len(inbox) + i] = calls[i]
      BY <2>1, <2>2, <3>1, SendTo
    <3>3. 1 \in 1 .. Len(calls)
      BY <2>1
    <3>4. QED
      BY <2>1, <3>1, <3>2, <3>3
  <2>4. inbox' # <<>>
    BY <2>3
  <2>5. QED
    BY <2>1, <2>2, <2>3, <2>4 DEF DrainInv
<1>4. CASE Prepared
  BY <1>2, <1>4 DEF Prepared, Answered, DrainInv, actorVars
<1>5. CASE ~Train /\ ~Prepared
  <2>1. trainer' \notin {"drain", "refit"}
    BY <1>5 DEF TrainerStep, InitialRefit, ValidateAtStart, BufferFilled, AfterFill, FillWaits,
       Sampled, SampleWaits, SampleRejects, Refit, Validate, NextStep, AskDataloaderState,
       SaveCheckpoint, TrainerFails
  <2>2. QED
    BY <2>1 DEF DrainInv
<1>6. QED
  BY <1>3, <1>4, <1>5

LEMMA NextDrain ==
  TypeInv /\ PauseInv /\ TrackedInv /\ DrainInv /\ [QuickNext]_vars => DrainInv'
<1> SUFFICES ASSUME TypeInv, PauseInv, TrackedInv, DrainInv, [QuickNext]_vars PROVE DrainInv'
  OBVIOUS
<1>1. CASE (LoopStep \/ \E g \in Groups : WorkerStep(g)) /\ UNCHANGED trainerVars
  <2>1. UNCHANGED <<inbox, trainer, refitCleared>>
    BY <1>1 DEF LoopStep, WorkerStep, actorVars, pauseVars, trainerVars
  <2>2. CASE ~InFlightUpdates /\ trainer \in {"drain", "refit"} /\ inbox = <<>>
    <3>1. ~refitCleared
      BY <2>2 DEF PauseInv, RefitHeld, EndsWith
    <3>2. Straggling'
      BY <1>1, <2>2, <3>1, StragglingKept DEF DrainInv
    <3>3. QED
      BY <2>1, <2>2, <3>2 DEF DrainInv
  <2>3. CASE ~(~InFlightUpdates /\ trainer \in {"drain", "refit"} /\ inbox = <<>>)
    BY <2>1, <2>3 DEF DrainInv
  <2>4. QED
    BY <2>2, <2>3
<1>2. CASE ActorStep /\ UNCHANGED trainerVars
  BY <1>2, ActorDrain
<1>3. CASE TrainerStep
  BY <1>3, TrainerDrain
<1>4. CASE Restart
  BY <1>4 DEF Restart, DrainInv
<1>5. CASE UNCHANGED vars
  BY <1>5 DEF vars, collectorVars, trainerVars, actorVars, loopVars, groupVars, DrainInv, Straggling, Generating
<1>6. QED
  BY <1>1, <1>2, <1>3, <1>4, <1>5, QuickSteps

(* Where control takes no time, a refit without in-flight updates finds at *)
(* most one rollout running: that of the thread which the collection was   *)
(* about to start when the drain ended (prepare_for_refit).                *)
THEOREM AtMostOneStraggler == QuickSpec => []OneStraggler
<1>1. PauseInv /\ DrainInv => OneStraggler
  <2> SUFFICES ASSUME PauseInv, DrainInv, ~InFlightUpdates, trainer = "refit"
               PROVE  Cardinality({g \in Groups : work[g] = "gen"}) <= 1
    BY DEF OneStraggler
  <2>1. PICK h : Generating \subseteq {h}
    BY DEF PauseInv, DrainInv, Straggling
  <2>2. IsFiniteSet({h}) /\ Cardinality({h}) = 1
    BY FS_Singleton
  <2>3. Cardinality(Generating) <= 1
    BY <2>1, <2>2, FS_Subset
  <2>4. QED
    BY <2>3 DEF Generating
<1>2. [QuickNext]_vars => [Next]_vars
  BY DEF QuickNext, QuickCollector, QuickTrainer, Next, CollectorStep
<1>3. QED
  BY <1>1, <1>2, InitTyped, NextTyped, InitNotStarted, NextNotStarted, InitPauses, NextPauses,
     InitTracked, NextTracked, InitDrain, NextDrain, PTL DEF QuickSpec
-----------------------------------------------------------------------------
(***************************************************************************)
(* Groups of one's own.  A group is in the buffer or in a training step    *)
(* only once its rollout is over, and nothing begins that rollout again:   *)
(* after a restart either the dataloader gives its prompt anew, and no     *)
(* training step that the checkpoint counts has it, or it stays away.      *)
(***************************************************************************)
Past == {"unreserve", "cleanup", "release", "done"}
Awaiting == {"await_state", "await_last"}
Holding == {"train", "drain", "refit", "validate", "save"} \cup Awaiting
Begun == 0 .. MaxSteps - 1

OwnInv ==
  /\ IsFiniteSet(pool)
  /\ \A e, f \in pool : e.id = f.id => e = f
  /\ \A e \in pool : work[e.id] \in Past
  /\ \A s \in Begun : \A g \in trained[s] : work[g] \in Past
  /\ OwnGroups
  /\ trainer \in Holding => Cardinality(trained[step]) = NumPrompts

(* The dataloader state of a checkpoint counts every batch it trained on.  *)
SavedInv ==
  /\ saved.step <= step
  /\ \A s \in Begun : s < saved.step => \A g \in trained[s] : g[1] <= saved.pos
  /\ trainer \in Awaiting /\ inbox # <<>> => inbox[Len(inbox)].op = "get_dataloader_state"
  /\ trainer \in Awaiting /\ inbox = <<>> =>
       \A s \in Begun : \A g \in trained[s] : g[1] <= reply

LEMMA NamesCounted ==
  ASSUME NEW S, IsFiniteSet(S), \A e, f \in S : e.id = f.id => e = f
  PROVE  Cardinality({e.id : e \in S}) = Cardinality(S)
<1> DEFINE T == {e.id : e \in S}
           F == [e \in S |-> e.id]
<1>1. F \in [S -> T] /\ (\A a, b \in S : F[a] = F[b] => a = b) /\ \A t \in T : \E s \in S : F[s] = t
  OBVIOUS
<1>2. F \in Bijection(S, T)
  <2> HIDE DEF F, T
  <2> QED
    BY <1>1, Fun_IsBij
<1>3. ExistsBijection(S, T)
  BY <1>2, Fun_ExistsBij
<1>4. QED
  BY <1>3, FS_Bijection

LEMMA OwnTypes ==
  ASSUME TypeInv
  PROVE  /\ trained \in [Begun -> SUBSET Groups] /\ step \in 0 .. MaxSteps
         /\ saved \in [step : 0 .. MaxSteps, pos : 0 .. NumBatches]
         /\ work \in [Groups -> WorkStates] /\ pos \in 0 .. NumBatches /\ reply \in 0 .. NumBatches
         /\ \A e \in pool : e.id \in Groups
BY DEF TypeInv, TypeOK, PoolTypeOK, CollectorTypeOK, LoopTypeOK, GroupTypeOK, ActorTypeOK, Begun, Entry

LEMMA InitOwn == Init => OwnInv /\ SavedInv
<1> SUFFICES ASSUME Init PROVE OwnInv /\ SavedInv
  OBVIOUS
<1>1. /\ pool = {} /\ step = 0 /\ trainer = "setup" /\ saved = [step |-> 0, pos |-> 0]
      /\ \A s \in Begun : trained[s] = {}
  BY DEF Init, PoolInit, Begun
<1>2. IsFiniteSet({}) /\ Cardinality({}) = 0
  BY FS_EmptySet
<1>3. OwnGroups
  <2>1. \A s \in Begun : Cardinality(trained[s]) \in {0, NumPrompts} /\ ~ s < step
    BY <1>1, <1>2, TrainerAssumption DEF Begun
  <2>2. \A s \in Begun : \A e \in pool : e.id \notin trained[s]
    BY <1>1
  <2>3. \A s, t \in Begun : s # t => trained[s] \cap trained[t] = {}
    BY <1>1
  <2>4. QED
    BY <2>1, <2>2, <2>3 DEF OwnGroups, Begun
<1>4. QED
  BY <1>1, <1>2, <1>3 DEF OwnInv, SavedInv, Holding, Awaiting

(* Nothing but the workers' progress changed.                              *)
LEMMA OwnKept ==
  ASSUME TypeInv, OwnInv, UNCHANGED <<pool, trained, trainer, step>>,
         \A g \in Groups : work[g] \in Past => work'[g] \in Past
  PROVE  OwnInv'
<1>1. OwnGroups'
  BY DEF OwnInv, OwnGroups
<1>2. QED
  BY <1>1, OwnTypes DEF OwnInv

LEMMA PushOwn ==
  ASSUME TypeInv, OwnInv, NEW g \in Groups, Push(g), UNCHANGED <<trained, trainer, step>>
  PROVE  OwnInv'
<1> DEFINE e == [id |-> g, version |-> version[g], target |-> goal[g]]
<1>1. pool' = pool \cup {e} /\ e.id = g
  BY DEF Push, PoolPush
<1>2. work[g] \notin Past /\ work'[g] \in Past /\ \A h \in Groups : h # g => work'[h] = work[h]
  BY GroupTypes DEF Push, Become, Past
<1> HIDE DEF e
<1>3. /\ \A f \in pool : f.id # g
      /\ \A s \in Begun : g \notin trained[s]
  BY <1>2 DEF OwnInv
<1>4. IsFiniteSet(pool')
  BY <1>1, FS_AddElement DEF OwnInv
<1>5. \A s \in Begun : \A f \in pool' : f.id \notin trained[s]
  BY <1>1, <1>3 DEF OwnInv, OwnGroups, Begun
<1>6. OwnGroups'
  BY <1>5 DEF OwnInv, OwnGroups, Begun
<1>7. /\ \A f, h \in pool' : f.id = h.id => f = h
      /\ \A f \in pool' : work'[f.id] \in Past
      /\ \A s \in Begun : \A h \in trained[s] : work'[h] \in Past
  <2>1. \A f \in pool : work'[f.id] \in Past
    BY <1>2, <1>3, OwnTypes DEF OwnInv
  <2>2. \A s \in Begun : \A h \in trained[s] : work'[h] \in Past
    BY <1>2, <1>3, OwnTypes DEF OwnInv
  <2>3. QED
    BY <1>1, <1>2, <1>3, <2>1, <2>2 DEF OwnInv
<1>8. QED
  BY <1>4, <1>6, <1>7 DEF OwnInv

LEMMA SampledOwn ==
  ASSUME TypeInv, OwnInv, Sampled, UNCHANGED work
  PROVE  OwnInv'
<1>1. PICK S \in SUBSET Intended(weightVersion, MaxAge) :
        /\ PoolTake(S, NumPrompts, weightVersion, MaxAge)
        /\ trained' = [trained EXCEPT ![step] = {e.id : e \in S}]
  BY DEF Sampled
<1>2. S \subseteq pool /\ Cardinality(S) = NumPrompts /\ pool' = pool \ S /\ step' = step
  BY <1>1 DEF PoolTake, Intended, Sampled
<1>3. step \in Begun
  BY OwnTypes DEF Sampled, TypeInv, TrainerShape, Begun
<1> DEFINE T == {e.id : e \in S}
<1>4. Cardinality(T) = NumPrompts
  <2>1. IsFiniteSet(S)
    BY <1>2, FS_Subset DEF OwnInv
  <2>2. \A e, f \in S : e.id = f.id => e = f
    BY <1>2 DEF OwnInv
  <2>3. QED
    BY <1>2, <2>1, <2>2, NamesCounted
<1>5. /\ \A e \in pool \ S : e.id \notin T
      /\ \A s \in Begun : T \cap trained[s] = {}
      /\ \A g \in T : work[g] \in Past
  <2>1. \A e \in S : e \in pool
    BY <1>2
  <2>2. QED
    BY <2>1 DEF OwnInv, OwnGroups, Begun
<1> HIDE DEF T
<1>6. trained'[step] = T /\ \A s \in Begun : s # step => trained'[s] = trained[s]
  BY <1>1, <1>3, OwnTypes DEF T
<1>7. IsFiniteSet(pool')
  BY <1>2, FS_Subset DEF OwnInv
<1>8. OwnGroups'
  <2>1. \A s \in Begun :
          Cardinality(trained'[s]) \in (IF s < step' THEN {NumPrompts} ELSE {0, NumPrompts})
    BY <1>2, <1>4, <1>6 DEF OwnInv, OwnGroups, Begun
  <2>2. \A s, t \in Begun : s # t => trained'[s] \cap trained'[t] = {}
    BY <1>5, <1>6 DEF OwnInv, OwnGroups, Begun
  <2>3. \A s \in Begun : \A e \in pool' : e.id \notin trained'[s]
    BY <1>2, <1>5, <1>6 DEF OwnInv, OwnGroups, Begun
  <2>4. QED
    BY <2>1, <2>2, <2>3 DEF OwnGroups, Begun
<1>9. \A s \in Begun : \A g \in trained'[s] : work'[g] \in Past
  BY <1>5, <1>6 DEF OwnInv
<1>10. QED
  BY <1>2, <1>4, <1>6, <1>7, <1>8, <1>9 DEF OwnInv

LEMMA TrainerOwn ==
  ASSUME TypeInv, OwnInv, TrainerStep
  PROVE  OwnInv'
<1>1. UNCHANGED work
  BY DEF TrainerStep, groupVars
<1>2. CASE Sampled
  BY <1>1, <1>2, SampledOwn
<1>3. CASE ~Sampled
  <2>1. UNCHANGED <<pool, trained>>
    BY <1>3 DEF TrainerStep, InitialRefit, ValidateAtStart, BufferFilled, FillWaits, SampleWaits, PoolWait,
       SampleRejects, PoolReject, Train, Prepared, Refit, Validate, NextStep, AskDataloaderState,
       SaveCheckpoint, TrainerFails, poolVars
  <2>2. \/ step' = step /\ (trainer' \in Holding => trainer \in Holding)
        \/ step' = step + 1 /\ trainer \in Holding /\ trainer' \notin Holding
    BY <1>3 DEF TrainerStep, InitialRefit, ValidateAtStart, BufferFilled, AfterFill, FillWaits, SampleWaits,
       SampleRejects, Train, Prepared, Refit, Validate, NextStep, AskDataloaderState,
       SaveCheckpoint, TrainerFails, Holding, Awaiting
  <2>3. step \in Nat
    BY OwnTypes
  <2>4. OwnGroups'
    <3>1. \A s \in Begun :
            Cardinality(trained[s]) \in (IF s < step' THEN {NumPrompts} ELSE {0, NumPrompts})
      <4>1. CASE step' = step
        BY <4>1 DEF OwnInv, OwnGroups, Begun
      <4>2. CASE step' # step
        BY <2>2, <2>3, <4>2 DEF OwnInv, OwnGroups, Begun
      <4>3. QED
        BY <4>1, <4>2
    <3>2. QED
      BY <2>1, <3>1 DEF OwnInv, OwnGroups, Begun
  <2>5. QED
    BY <1>1, <2>1, <2>2, <2>3, <2>4 DEF OwnInv
<1>4. QED
  BY <1>2, <1>3

LEMMA RestartOwn ==
  ASSUME TypeInv, OwnInv, SavedInv, Restart
  PROVE  OwnInv'
<1>1. /\ pool' = {} /\ trainer' = "setup" /\ step' = saved.step
      /\ trained' = [s \in Begun |-> IF s < saved.step THEN trained[s] ELSE {}]
      /\ work' = [g \in Groups |-> AfterRestart(g)]
  BY DEF Restart, Begun
<1>2. IsFiniteSet({}) /\ Cardinality({}) = 0
  BY FS_EmptySet
<1>3. saved.step \in Nat /\ saved.pos \in Nat /\ step \in Nat
  BY OwnTypes
<1>4. \A s \in Begun : trained'[s] = IF s < saved.step THEN trained[s] ELSE {}
  BY <1>1
<1>5. OwnGroups'
  <2>1. \A s \in Begun :
          Cardinality(trained'[s]) \in (IF s < step' THEN {NumPrompts} ELSE {0, NumPrompts})
    <3> SUFFICES ASSUME NEW s \in Begun
                 PROVE  Cardinality(trained'[s]) \in (IF s < step' THEN {NumPrompts} ELSE {0, NumPrompts})
      OBVIOUS
    <3>1. CASE s < saved.step
      <4>1. s < step /\ s \in 0 .. MaxSteps - 1
        BY <1>3, <3>1 DEF SavedInv, Begun
      <4>2. Cardinality(trained[s]) = NumPrompts
        BY <4>1 DEF OwnInv, OwnGroups
      <4>3. QED
        BY <1>1, <1>4, <3>1, <4>2
    <3>2. CASE ~(s < saved.step)
      BY <1>1, <1>2, <1>4, <3>2
    <3>3. QED
      BY <3>1, <3>2
  <2>2. \A s, t \in Begun : s # t => trained'[s] \cap trained'[t] = {}
    BY <1>4 DEF OwnInv, OwnGroups, Begun
  <2>3. QED
    BY <1>1, <2>1, <2>2 DEF OwnGroups, Begun
<1>6. \A s \in Begun : \A g \in trained'[s] : work'[g] \in Past
  <2> SUFFICES ASSUME NEW s \in Begun, NEW g \in trained'[s]
               PROVE  work'[g] \in Past
    OBVIOUS
  <2>1. s < saved.step /\ g \in trained[s]
    BY <1>4
  <2>2. g[1] <= saved.pos /\ g \in Groups
    BY <2>1, OwnTypes DEF SavedInv
  <2>3. s \in 0 .. saved.step - 1
    BY <1>3, <2>1 DEF Begun
  <2>4. g[1] \in Nat
    BY <2>2 DEF Groups
  <2>5. AfterRestart(g) = "done"
    BY <1>3, <2>1, <2>2, <2>3, <2>4 DEF AfterRestart
  <2>6. QED
    BY <1>1, <2>2, <2>5 DEF Past
<1>7. QED
  BY <1>1, <1>2, <1>5, <1>6 DEF OwnInv, Holding, Awaiting

LEMMA NextOwn ==
  TypeInv /\ NotStarted /\ SavedInv /\ OwnInv /\ [Next]_vars => OwnInv'
<1> SUFFICES ASSUME TypeInv, NotStarted, SavedInv, OwnInv, [Next]_vars PROVE OwnInv'
  OBVIOUS
<1>1. CASE LoopStep /\ UNCHANGED trainerVars
  <2>1. UNCHANGED <<pool, trained, trainer, step>>
    BY <1>1 DEF LoopStep, poolVars, trainerVars
  <2>2. CASE StartWorker
    <3>1. loop = "start" /\ <<pos, prompt>> \in Groups
      BY <2>2, Started DEF StartWorker
    <3>2. work[<<pos, prompt>>] = "none"
      BY <3>1 DEF NotStarted, Ahead, Between, TypeInv, TypeOK, CollectorTypeOK, LoopTypeOK
    <3>3. \A g \in Groups : g # <<pos, prompt>> => work'[g] = work[g]
      BY <2>2, <3>1, GroupTypes DEF StartWorker
    <3>4. \A g \in Groups : work[g] \in Past => work'[g] \in Past
      BY <3>2, <3>3 DEF Past
    <3>5. QED
      BY <2>1, <3>4, OwnKept
  <2>3. CASE ~StartWorker
    <3>1. UNCHANGED work
      BY <1>1, <2>3 DEF LoopStep, groupVars, Fetch, WaitManualPause, WaitRefitPause, LimitRead, LimitCheck,
         LimitWarn, LimitClear, LimitWait, BatchRead, Reserve, DropBatch, PromptCheck, PromptWait, Goto,
         ReadTargets, BatchDone, Acquire
    <3>2. QED
      BY <2>1, <3>1, OwnKept
  <2>4. QED
    BY <2>2, <2>3
<1>2. ASSUME NEW g \in Groups, WorkerStep(g), UNCHANGED trainerVars
      PROVE  OwnInv'
  <2>1. UNCHANGED <<trained, trainer, step>>
    BY <1>2 DEF trainerVars
  <2>2. CASE Push(g)
    BY <2>1, <2>2, PushOwn
  <2>3. CASE ~Push(g)
    <3>1. UNCHANGED pool
      BY <1>2, <2>3 DEF WorkerStep, RolloutFails, PushFull, PoolFull, PushStopped, Unreserve, Cleanup, Release,
         poolVars
    <3>2. \A h \in Groups : h # g => work'[h] = work[h]
      BY <1>2, WorkerGroups
    <3>3. work[g] \in Past => work'[g] \in Past
      BY <1>2, <2>3, GroupTypes DEF WorkerStep, RolloutFails, PushFull, PushStopped, Unreserve, Cleanup,
         Release, Become, Past
    <3>4. \A h \in Groups : work[h] \in Past => work'[h] \in Past
      BY <3>2, <3>3
    <3>5. QED
      BY <2>1, <3>1, <3>4, OwnKept
  <2>4. QED
    BY <2>2, <2>3
<1>3. CASE ActorStep /\ UNCHANGED trainerVars
  BY <1>3, OwnKept DEF ActorStep, poolVars, groupVars, trainerVars
<1>4. CASE TrainerStep
  BY <1>4, TrainerOwn
<1>5. CASE Restart
  BY <1>5, RestartOwn
<1>6. CASE UNCHANGED vars
  BY <1>6, OwnKept DEF vars, poolVars, collectorVars, groupVars, trainerVars
<1>7. QED
  BY <1>1, <1>2, <1>3, <1>4, <1>5, <1>6 DEF Next, CollectorStep, Terminated
(* What the checkpoint under way will hold is what it was answered.        *)
LEMMA LastReply ==
  ASSUME TypeInv, NotStarted, OwnInv, SavedInv, ActorStep, UNCHANGED trainerVars
  PROVE  SavedInv'
<1>1. inbox \in Seq(Message) /\ UNCHANGED <<trainer, step, saved, trained>>
  BY Typed DEF trainerVars
<1>2. \A s \in Begun : s < saved.step => \A g \in trained[s] : g[1] <= saved.pos
  BY DEF SavedInv
<1>3. CASE inbox = <<>>
  BY <1>3 DEF ActorStep, StartCollection, SetVersion, WakeLoop, Pause, Resume, PrepareForRefit,
     PollPending, ResumeAfterRefit, GetDataloaderState, Serving, TypeInv, ActorShape
<1>4. CASE ~Return /\ inbox # <<>>
  <2>1. UNCHANGED inbox
    BY <1>4, ActorKeepsInbox
  <2>2. QED
    BY <1>1, <1>4, <2>1 DEF SavedInv
<1>5. CASE Return /\ inbox # <<>>
  <2>1. /\ Len(inbox') = Len(inbox) - 1 /\ inbox' \in Seq(Message) /\ Len(inbox) \in Nat
        /\ \A i \in 1 .. Len(inbox') : inbox'[i] = inbox[i + 1]
    BY <1>1, <1>5, ReturnFrom
  <2>2. CASE inbox' # <<>>
    <3>1. Len(inbox') \in 1 .. Len(inbox') /\ Len(inbox') + 1 = Len(inbox)
      BY <2>1, <2>2, EmptySeq
    <3>2. inbox'[Len(inbox')] = inbox[Len(inbox)]
      BY <2>1, <3>1
    <3>3. QED
      BY <1>1, <1>5, <2>2, <3>2 DEF SavedInv
  <2>3. CASE inbox' = <<>> /\ trainer \in Awaiting
    <3>1. Len(inbox) = 1 /\ Head(inbox) = inbox[1]
      BY <1>1, <1>5, <2>1, <2>3
    <3>2. Head(inbox).op = "get_dataloader_state"
      BY <1>5, <2>3, <3>1 DEF SavedInv
    <3>3. GetDataloaderState
      BY <1>5, <2>3, <3>2, SetVersionKeepsCall DEF ActorStep, StartCollection, WakeLoop, Pause, Resume,
         PrepareForRefit, PollPending, ResumeAfterRefit, Serving, TypeInv, ActorShape
    <3>4. reply' = pos
      BY <3>3 DEF GetDataloaderState
    <3>5. \A s \in Begun : \A g \in trained[s] : g[1] <= pos
      <4> TAKE s \in Begun
      <4> TAKE g \in trained[s]
      <4>1. g \in Groups /\ pos \in Nat
        BY OwnTypes
      <4>2. work[g] # "none"
        BY DEF OwnInv, Past
      <4>3. ~(g[1] > pos)
        BY <4>1, <4>2 DEF NotStarted, Ahead
      <4>4. QED
        BY <4>1, <4>3 DEF Groups
    <3>6. QED
      BY <1>1, <1>2, <2>3, <3>4, <3>5 DEF SavedInv
  <2>4. CASE inbox' = <<>> /\ trainer \notin Awaiting
    BY <1>1, <2>4 DEF SavedInv
  <2>5. QED
    BY <2>2, <2>3, <2>4
<1>6. QED
  BY <1>3, <1>4, <1>5

LEMMA TrainerSaves ==
  ASSUME TypeInv, SavedInv, TrainerStep
  PROVE  SavedInv'
<1>1. step \in Nat /\ saved.step \in Nat /\ trained \in [Begun -> SUBSET Groups]
  BY OwnTypes
<1>2. CASE Sampled
  <2>1. /\ UNCHANGED <<step, saved>> /\ trainer' \notin Awaiting
        /\ \A s \in Begun : s # step => trained'[s] = trained[s]
    BY <1>1, <1>2 DEF TrainerStep, Sampled, Awaiting
  <2>2. \A s \in Begun : s < saved.step => s # step
    BY <1>1 DEF SavedInv, Begun
  <2>3. QED
    BY <2>1, <2>2 DEF SavedInv
<1>3. CASE AskDataloaderState
  <2> DEFINE calls == <<Call("get_dataloader_state", 0)>>
  <2>1. calls \in Seq(Message) /\ Len(calls) = 1 /\ calls[1].op = "get_dataloader_state"
    BY DEF Call, Message, Calls
  <2>2. Send(calls) /\ UNCHANGED <<step, saved, trained>>
    BY <1>3 DEF AskDataloaderState
  <2> HIDE DEF calls
  <2>3. inbox \in Seq(Message) /\ Len(inbox) \in Nat
    BY Typed
  <2>4. /\ inbox' \in Seq(Message) /\ Len(inbox') = Len(inbox) + Len(calls)
        /\ \A i \in 1 .. Len(calls) : inbox'[Len(inbox) + i] = calls[i]
    BY <2>1, <2>2, <2>3, SendTo
  <2>5. 1 \in 1 .. Len(calls)
    BY <2>1
  <2>6. inbox'[Len(inbox')].op = "get_dataloader_state" /\ inbox' # <<>>
    BY <2>1, <2>3, <2>4, <2>5
  <2>7. QED
    BY <2>2, <2>6 DEF SavedInv
<1>4. CASE SaveCheckpoint
  <2>1. /\ trainer \in Awaiting /\ inbox = <<>> /\ trainer' \notin Awaiting
        /\ saved' = [step |-> step + 1, pos |-> reply] /\ step' = step + 1 /\ trained' = trained
    BY <1>4 DEF SaveCheckpoint, Answered, Awaiting
  <2>2. saved'.step = step + 1 /\ saved'.pos = reply
    BY <2>1
  <2>3. \A s \in Begun : \A g \in trained'[s] : g[1] <= saved'.pos
    BY <2>1, <2>2 DEF SavedInv
  <2>4. QED
    BY <1>1, <2>1, <2>2, <2>3 DEF SavedInv
<1>5. CASE ~Sampled /\ ~AskDataloaderState /\ ~SaveCheckpoint
  <2>1. /\ UNCHANGED <<saved, trained>> /\ trainer' \notin Awaiting
        /\ step' \in {step, step + 1}
    BY <1>5 DEF TrainerStep, InitialRefit, ValidateAtStart, BufferFilled, AfterFill, FillWaits, SampleWaits,
       SampleRejects, Train, Prepared, Refit, Validate, NextStep, TrainerFails, Awaiting
  <2>2. QED
    BY <1>1, <2>1 DEF SavedInv
<1>6. QED
  BY <1>2, <1>3, <1>4, <1>5

LEMMA NextSaved ==
  TypeInv /\ NotStarted /\ OwnInv /\ SavedInv /\ [Next]_vars => SavedInv'
<1> SUFFICES ASSUME TypeInv, NotStarted, OwnInv, SavedInv, [Next]_vars PROVE SavedInv'
  OBVIOUS
<1>1. CASE (LoopStep \/ \E g \in Groups : WorkerStep(g)) /\ UNCHANGED trainerVars
  <2>1. UNCHANGED <<inbox, reply, trainer, step, saved, trained>>
    BY <1>1 DEF LoopStep, WorkerStep, actorVars, trainerVars
  <2>2. QED
    BY <2>1 DEF SavedInv
<1>2. CASE ActorStep /\ UNCHANGED trainerVars
  BY <1>2, LastReply
<1>3. CASE TrainerStep
  BY <1>3, TrainerSaves
<1>4. CASE Restart
  <2>1. /\ saved' = saved /\ step' = saved.step /\ trainer' = "setup"
        /\ \A s \in Begun : s < saved.step => trained'[s] = trained[s]
    BY <1>4 DEF Restart, Begun
  <2>2. saved.step \in Nat
    BY OwnTypes
  <2>3. QED
    BY <2>1, <2>2 DEF SavedInv, Awaiting
<1>5. CASE UNCHANGED vars
  BY <1>5 DEF vars, collectorVars, trainerVars, actorVars, SavedInv
<1>6. QED
  BY <1>1, <1>2, <1>3, <1>4, <1>5 DEF Next, CollectorStep, Terminated

(* In every schedule, with any failures and crashes, each training step    *)
(* that is over took one full batch of groups that no other step took and  *)
(* the buffer does not hold: no prompt is trained twice, before a restart  *)
(* or after it (the part OwnGroups of RestartSound).                       *)
THEOREM GroupsAreOwn == Spec => []OwnGroups
<1>1. OwnInv => OwnGroups
  BY DEF OwnInv
<1>2. QED
  BY <1>1, InitTyped, NextTyped, InitNotStarted, NextNotStarted, InitOwn, NextOwn, NextSaved, PTL DEF Spec

-----------------------------------------------------------------------------
(***************************************************************************)
(* The schedules in which control takes no time: what the collection       *)
(* thread reserves, what a restart costs, and that the training is         *)
(* supplied in time.                                                       *)
(***************************************************************************)

(***************************************************************************)
(* The collection thread where control takes no time.  What it reads is    *)
(* what it uses: between the two reads of the open targets and the         *)
(* reservation nothing else happens.  And whenever the limit lets it go on *)
(* there is a target to reserve: the event is set by a version that it was *)
(* not warned about yet.                                                   *)
(***************************************************************************)
Fresh == {t \in TargetWeights(currentVersion) : t > lastTarget}
Limited == {"limit", "limit_check", "limit_warn", "limit_clear", "batch", "reserve"}

(* The call to prepare for a refit is the last that was sent.              *)
PrepareLast ==
  \A i \in 1 .. Len(inbox) :
    inbox[i].op = "prepare_for_refit" => trainer = "drain" /\ i = Len(inbox)

(* Nothing is generated for a step later than b.                           *)
Reaches(b) ==
  /\ lastTarget <= b
  /\ \A t \in generating : t <= b
  /\ \A g \in Groups : work[g] \in {"gen", "push"} => goal[g] <= b
  /\ loop \in Starting => target <= b

WarnInv ==
  /\ lastWarned <= currentVersion
  /\ \A i \in 1 .. Len(inbox) :
       inbox[i].op = "set_weight_version" => lastWarned < inbox[i].arg
  /\ lastWarned = currentVersion => ~limitCleared
  /\ Reaches(currentVersion + MaxAge)
  /\ loop = "limit_wait" => lastWarned \in Nat /\ Reaches(lastWarned + MaxAge)

ReadInv ==
  /\ loop \in Limited => ~CallWaiting
  /\ loop = "limit_check" => unmade = Fresh
  /\ loop = "batch" => Fresh \ generating # {}
  /\ loop = "reserve" => unmade = Fresh /\ OpenTargets # {}

USE MaxSizeAssumption, CollectorAssumption, TrainerAssumption, GroupsAssumption
-----------------------------------------------------------------------------
(* What goes on while what.                                                *)

LEMMA QuickWhen ==
  ASSUME [QuickNext]_vars
  PROVE  \/ LoopStep /\ ~CallWaiting /\ UNCHANGED trainerVars
         \/ ActorStep /\ (CallWaiting \/ ~LoopReady) /\ UNCHANGED trainerVars
         \/ ~LoopReady /\ (\E g \in Groups : WorkerStep(g)) /\ UNCHANGED trainerVars
         \/ ~LoopReady /\ TrainerStep
         \/ Restart
         \/ UNCHANGED vars
BY DEF QuickNext, QuickCollector, QuickTrainer, Terminated

LEMMA LimitedReady == loop \in Limited => LoopReady
BY DEF Limited, LoopReady

(* What a restart puts first in the queue.                                 *)
LEMMA RestartCalls ==
  ASSUME TypeInv, Restart
  PROVE  /\ Len(inbox') = 2
         /\ inbox'[1].op = "start_collection"
         /\ inbox'[2].op = "set_weight_version" /\ inbox'[2].arg = saved.step
         /\ saved.step \in Nat
<1>1. saved \in [step : 0 .. MaxSteps, pos : 0 .. NumBatches]
  BY DEF TypeInv, TypeOK
<1>2. inbox' = <<Call("start_collection", 0), Call("set_weight_version", saved.step)>>
  BY DEF Restart, CollectorRestart
<1>3. QED
  BY <1>1, <1>2 DEF Call

LEMMA InitSchedule == Init => PrepareLast /\ WarnInv /\ ReadInv
<1> SUFFICES ASSUME Init PROVE PrepareLast /\ WarnInv /\ ReadInv
  OBVIOUS
<1>1. inbox = <<Call("start_collection", 0), Call("set_weight_version", 0)>>
  BY DEF Init, CollectorStart
<1>2. /\ Len(inbox) = 2 /\ inbox[1].op = "start_collection"
      /\ inbox[2].op = "set_weight_version" /\ inbox[2].arg = 0
  BY <1>1 DEF Call
<1>3. PrepareLast
  BY <1>2 DEF PrepareLast
<1>4. /\ lastWarned = -1 /\ currentVersion = 0 /\ lastTarget = -1 /\ generating = {}
      /\ loop = "unstarted" /\ \A g \in Groups : work[g] = "none"
  BY DEF Init, CollectorStart, PoolInit, None
<1>5. WarnInv
  BY <1>2, <1>4 DEF WarnInv, Reaches, Starting
<1>6. QED
  BY <1>3, <1>4, <1>5 DEF ReadInv, Limited

LEMMA NextPrepareLast == TypeInv /\ PrepareLast /\ [Next]_vars => PrepareLast'
<1> SUFFICES ASSUME TypeInv, PrepareLast, [Next]_vars PROVE PrepareLast'
  OBVIOUS
<1>1. inbox \in Seq(Message) /\ Len(inbox) \in Nat
  BY Typed
<1>2. ASSUME UNCHANGED <<inbox, trainer>> PROVE PrepareLast'
  BY <1>2 DEF PrepareLast
<1>3. CASE (LoopStep \/ \E g \in Groups : WorkerStep(g)) /\ UNCHANGED trainerVars
  BY <1>2, <1>3 DEF LoopStep, WorkerStep, actorVars, trainerVars
<1>4. CASE ActorStep /\ UNCHANGED trainerVars
  <2>1. CASE Return
    <3>1. inbox # <<>>
      BY <1>4, <2>1, ActorReturns
    <3>2. /\ Len(inbox') = Len(inbox) - 1
          /\ \A i \in 1 .. Len(inbox') : inbox'[i] = inbox[i + 1]
      BY <1>1, <2>1, <3>1, ReturnFrom
    <3>3. QED
      BY <1>1, <1>4, <3>2 DEF PrepareLast, trainerVars
  <2>2. CASE ~Return
    BY <1>2, <1>4, <2>2, ActorKeepsInbox DEF trainerVars
  <2>3. QED
    BY <2>1, <2>2
<1>5. CASE TrainerStep
  <2>1. CASE UNCHANGED inbox
    <3>1. trainer = "drain" => trainer' = "drain" \/ inbox = <<>>
      BY <1>5, <2>1 DEF TrainerStep, InitialRefit, ValidateAtStart, BufferFilled, FillWaits, Sampled, SampleWaits,
         SampleRejects, Train, Prepared, Refit, Validate, NextStep, AskDataloaderState, SaveCheckpoint,
         TrainerFails, Answered
    <3>2. QED
      BY <1>1, <2>1, <3>1 DEF PrepareLast
  <2>2. CASE ~UNCHANGED inbox
    <3>1. trainer # "drain"
      BY <1>5, <2>2 DEF TrainerStep, InitialRefit, ValidateAtStart, BufferFilled, FillWaits, Sampled, SampleWaits,
         SampleRejects, Train, Prepared, Refit, Validate, NextStep, AskDataloaderState, SaveCheckpoint,
         TrainerFails, actorVars
    <3>2. \A i \in 1 .. Len(inbox) : inbox[i].op # "prepare_for_refit"
      BY <3>1 DEF PrepareLast
    <3>3. PICK calls \in Seq(Message) :
            /\ Send(calls)
            /\ \A i \in 1 .. Len(calls) : calls[i].op = "prepare_for_refit" => trainer' = "drain" /\ i = Len(calls)
      <4>1. CASE Refit
        <5>1. weightVersion + 1 \in Nat
          BY Typed
        <5>2. Send(Announce(weightVersion + 1)) \/ Send(AnnouncePause(weightVersion + 1))
          BY <4>1 DEF Refit, AnnouncePause
        <5>3. \A calls \in {Announce(weightVersion + 1), AnnouncePause(weightVersion + 1)} :
                calls \in Seq(Message) /\ \A i \in 1 .. Len(calls) : calls[i].op # "prepare_for_refit"
          <6>1. /\ Call("set_weight_version", weightVersion + 1).op # "prepare_for_refit"
                /\ Call("resume_after_refit", 0).op # "prepare_for_refit"
                /\ Call("pause", 0).op # "prepare_for_refit"
            BY DEF Call
          <6>2. \A i \in 1 .. Len(Announce(weightVersion + 1)) :
                  Announce(weightVersion + 1)[i].op # "prepare_for_refit"
            BY <5>1, <6>1, AnnounceTyped
          <6>3. \A i \in 1 .. Len(AnnouncePause(weightVersion + 1)) :
                  AnnouncePause(weightVersion + 1)[i].op # "prepare_for_refit"
            BY <5>1, <6>1, AnnounceTyped
          <6>4. QED
            BY <5>1, <6>2, <6>3, AnnounceTyped
        <5>4. QED
          BY <5>2, <5>3
      <4>2. CASE ~Refit
        <5>1. \E op \in Quiet : Send(<<Call(op, 0)>>) /\ (op = "prepare_for_refit" => trainer' = "drain")
          BY <1>5, <2>2, <4>2 DEF TrainerStep, InitialRefit, ValidateAtStart, BufferFilled, FillWaits, Sampled, SampleWaits,
             SampleRejects, Train, Prepared, Validate, NextStep, AskDataloaderState, SaveCheckpoint,
             TrainerFails, actorVars, Quiet, Calls
        <5>2. PICK op \in Quiet : Send(<<Call(op, 0)>>) /\ (op = "prepare_for_refit" => trainer' = "drain")
          BY <5>1
        <5> DEFINE one == <<Call(op, 0)>>
        <5>3. one \in Seq(Message)
          BY CallsTyped DEF Quiet
        <5>4. Len(one) = 1 /\ one[1].op = op
          BY DEF Call
        <5>5. Send(one) /\ (op = "prepare_for_refit" => trainer' = "drain")
          BY <5>2
        <5> HIDE DEF one
        <5>6. \A i \in 1 .. Len(one) :
                one[i].op = "prepare_for_refit" => trainer' = "drain" /\ i = Len(one)
          BY <5>4, <5>5
        <5>7. QED
          BY <5>3, <5>5, <5>6, Zenon
      <4>3. QED
        BY <4>1, <4>2
    <3>4. /\ Len(inbox') = Len(inbox) + Len(calls) /\ Len(calls) \in Nat
          /\ \A i \in 1 .. Len(inbox) : inbox'[i] = inbox[i]
          /\ \A i \in 1 .. Len(calls) : inbox'[Len(inbox) + i] = calls[i]
      BY <1>1, <3>3, SendTo
    <3>5. ASSUME NEW i \in 1 .. Len(inbox'), inbox'[i].op = "prepare_for_refit"
          PROVE  trainer' = "drain" /\ i = Len(inbox')
      <4>1. CASE i \in 1 .. Len(inbox)
        BY <3>2, <3>4, <3>5, <4>1
      <4>2. CASE i \notin 1 .. Len(inbox)
        <5>1. i - Len(inbox) \in 1 .. Len(calls) /\ Len(inbox) + (i - Len(inbox)) = i
          BY <1>1, <3>4, <4>2
        <5>2. inbox'[i] = calls[i - Len(inbox)]
          BY <3>4, <5>1
        <5>3. QED
          BY <1>1, <3>3, <3>4, <3>5, <5>1, <5>2
      <4>3. QED
        BY <4>1, <4>2
    <3>6. QED
      BY <3>5 DEF PrepareLast
  <2>3. QED
    BY <2>1, <2>2
<1>6. CASE Restart
  <2> DEFINE q == inbox'
  <2>1. Len(q) = 2 /\ q[1].op = "start_collection" /\ q[2].op = "set_weight_version"
    BY <1>6, RestartCalls
  <2> HIDE DEF q
  <2>2. \A i \in 1 .. Len(q) : i = 1 \/ i = 2
    BY <2>1
  <2>3. \A i \in 1 .. Len(q) : q[i].op # "prepare_for_refit"
    BY <2>1, <2>2
  <2>4. QED
    BY <2>3 DEF PrepareLast, q
<1>7. CASE UNCHANGED vars
  BY <1>2, <1>7 DEF vars, collectorVars, trainerVars, actorVars
<1>8. QED
  BY <1>3, <1>4, <1>5, <1>6, <1>7 DEF Next, CollectorStep, Terminated

(* The targets that a version leads to, up to the one MaxAge ahead.        *)
LEMMA TargetsTyped ==
  ASSUME TypeInv
  PROVE  /\ Fresh \subseteq Nat /\ lastTarget \in Int /\ initialVersion \in Nat
         /\ currentVersion \in Nat /\ lastWarned \in Int /\ generating \subseteq Nat
         /\ \A t \in Fresh : currentVersion <= t /\ t <= currentVersion + MaxAge /\ lastTarget < t
         /\ lastTarget < currentVersion + MaxAge => currentVersion + MaxAge \in Fresh
<1>1. /\ lastTarget \in Int /\ initialVersion \in Nat /\ currentVersion \in Nat
      /\ lastWarned \in Int /\ generating \subseteq Nat
  BY DEF TypeInv, TypeOK, PoolTypeOK, CollectorTypeOK, LoopTypeOK, SharedTypeOK, ActorTypeOK, None
<1>2. QED
  BY <1>1 DEF Fresh, TargetWeights

(* What the collection thread leaves alone.                                *)
LEMMA LoopLeaves ==
  ASSUME LoopStep
  PROVE  /\ UNCHANGED <<currentVersion, initialVersion, lastTarget, pool, inbox, actor, failures>>
         /\ Fresh' = Fresh /\ CallWaiting' = CallWaiting
BY DEF LoopStep, poolVars, actorVars, Fresh, TargetWeights, CallWaiting

LEMMA LoopLimits ==
  ASSUME TypeInv, PrepareLast, WarnInv, ReadInv, LoopStep, ~CallWaiting
  PROVE  WarnInv' /\ ReadInv'
<1>1. /\ UNCHANGED <<currentVersion, lastTarget, inbox, actor>>
      /\ Fresh' = Fresh /\ ~CallWaiting'
  BY LoopLeaves
<1>2. /\ Fresh \subseteq Nat /\ lastTarget \in Int /\ currentVersion \in Nat /\ lastWarned \in Int
      /\ \A t \in Fresh : t <= currentVersion + MaxAge
      /\ lastTarget < currentVersion + MaxAge => currentVersion + MaxAge \in Fresh
      /\ inbox \in Seq(Message) /\ Len(inbox) \in Nat
  BY TargetsTyped, Typed
<1>3. work \in [Groups -> WorkStates] /\ goal \in [Groups -> Nat]
  BY GroupTypes
<1>4. CASE Fetch \/ WaitManualPause \/ WaitRefitPause \/ LimitRead \/ LimitCheck \/ LimitWarn
           \/ LimitWait \/ BatchRead \/ PromptCheck \/ PromptWait \/ Acquire
  <2>1. /\ UNCHANGED <<lastWarned, limitCleared, generating, work, goal, target>>
        /\ loop' \in Starting => loop \in Starting
        /\ loop' = "limit_wait" => lastWarned = currentVersion
    BY <1>4 DEF Fetch, WaitManualPause, WaitRefitPause, LimitRead, LimitCheck, LimitWarn, LimitWait,
       BatchRead, PromptCheck, PromptWait, Acquire, Goto, ReadTargets, localVars, sharedVars,
       groupVars, Starting
  <2>2. \A b : Reaches(b) => Reaches(b)'
    BY <1>1, <2>1 DEF Reaches
  <2>3. WarnInv'
    BY <1>1, <1>2, <2>1, <2>2 DEF WarnInv, Reaches
  <2>4. loop' = "limit_check" => unmade' = Fresh
    BY <1>4 DEF Fetch, WaitManualPause, WaitRefitPause, LimitRead, LimitCheck, LimitWarn, LimitWait,
       BatchRead, PromptCheck, PromptWait, Acquire, Goto, ReadTargets, Fresh
  <2>5. loop' = "batch" => Fresh \ generating # {}
    <3>1. CASE LimitCheck
      BY <3>1 DEF LimitCheck, ReadInv, OpenTargets
    <3>2. CASE LimitWait
      <4>1. lastWarned # currentVersion /\ lastWarned < currentVersion /\ Reaches(lastWarned + MaxAge)
        BY <1>2, <3>2 DEF LimitWait, WarnInv
      <4>2. /\ lastTarget < currentVersion + MaxAge
            /\ \A t \in generating : t < currentVersion + MaxAge
        BY <1>2, <4>1, TargetsTyped DEF Reaches
      <4>3. currentVersion + MaxAge \in Fresh /\ currentVersion + MaxAge \notin generating
        BY <1>2, <4>2
      <4>4. QED
        BY <4>3
    <3>3. CASE ~LimitCheck /\ ~LimitWait
      BY <1>4, <3>3 DEF Fetch, WaitManualPause, WaitRefitPause, LimitRead, LimitWarn,
         BatchRead, PromptCheck, PromptWait, Acquire, Goto
    <3>4. QED
      BY <3>1, <3>2, <3>3
  <2>6. loop' = "reserve" => unmade' = Fresh /\ OpenTargets' # {}
    <3>1. CASE BatchRead
      BY <2>1, <3>1 DEF BatchRead, ReadTargets, ReadInv, OpenTargets, Fresh
    <3>2. CASE ~BatchRead
      BY <1>4, <3>2 DEF Fetch, WaitManualPause, WaitRefitPause, LimitRead, LimitCheck, LimitWarn, LimitWait,
         PromptCheck, PromptWait, Acquire, Goto
    <3>3. QED
      BY <3>1, <3>2
  <2>7. QED
    BY <1>1, <2>1, <2>3, <2>4, <2>5, <2>6 DEF ReadInv
<1>5. CASE LimitClear
  <2>1. /\ UNCHANGED <<generating, work, goal, target>> /\ loop' = "limit_wait"
        /\ lastWarned' = currentVersion /\ limitCleared' = FALSE
    BY <1>5 DEF LimitClear, localVars, sharedVars, groupVars
  <2>2. \A i \in 1 .. Len(inbox) : inbox[i].op # "set_weight_version"
    <3>1. CASE inbox = <<>>
      BY <3>1
    <3>2. CASE actor = "drain"
      <4>1. inbox # <<>> /\ Head(inbox).op = "prepare_for_refit" /\ 1 \in 1 .. Len(inbox)
            /\ Head(inbox) = inbox[1]
        BY <3>2, Typed DEF TypeInv, ActorShape
      <4>2. Len(inbox) = 1
        BY <1>2, <4>1 DEF PrepareLast
      <4>3. \A i \in 1 .. Len(inbox) : i = 1
        BY <4>2
      <4>4. QED
        BY <4>1, <4>3
    <3>3. actor \in {"idle", "wake", "drain"}
      BY DEF TypeInv, TypeOK, CollectorTypeOK, ActorTypeOK
    <3>4. QED
      BY <3>1, <3>2, <3>3 DEF CallWaiting
  <2>3. Reaches(currentVersion + MaxAge)'
    BY <1>1, <2>1 DEF WarnInv, Reaches, Starting
  <2>4. WarnInv'
    BY <1>1, <1>2, <2>1, <2>2, <2>3 DEF WarnInv
  <2>5. QED
    BY <1>1, <2>1, <2>4 DEF ReadInv, Limited
<1>6. CASE Reserve
  <2>1. PICK t \in OpenTargets : /\ generating' = generating \cup {t} /\ target' = t
                                 /\ loop' = "prompt_check"
    BY <1>6 DEF Reserve
  <2>2. /\ UNCHANGED <<lastWarned, limitCleared, work, goal>> /\ t <= currentVersion + MaxAge
        /\ loop = "reserve"
    BY <1>2, <1>6, <2>1 DEF Reserve, groupVars, ReadInv, OpenTargets
  <2>3. Reaches(currentVersion + MaxAge)'
    BY <1>1, <2>1, <2>2 DEF WarnInv, Reaches
  <2>4. WarnInv'
    BY <1>1, <2>1, <2>2, <2>3 DEF WarnInv
  <2>5. QED
    BY <1>1, <2>1, <2>4 DEF ReadInv, Limited
<1>7. CASE DropBatch
  BY <1>7 DEF DropBatch, ReadInv
<1>8. CASE StartWorker
  <2> DEFINE g == <<pos, prompt>>
  <2>1. /\ g \in Groups /\ work' = [work EXCEPT ![g] = "gen"] /\ goal' = [goal EXCEPT ![g] = target]
        /\ UNCHANGED <<lastWarned, limitCleared, generating>> /\ loop = "start"
        /\ loop' \in {"prompt_check", "fetch"} /\ (loop' = "prompt_check" => target' = target)
    BY <1>8, Started DEF StartWorker, BatchDone
  <2> HIDE DEF g
  <2>2. \A h \in Groups : h # g => work'[h] = work[h] /\ goal'[h] = goal[h]
    BY <1>3, <2>1
  <2>3. goal'[g] = target
    BY <1>3, <2>1
  <2>4. Reaches(currentVersion + MaxAge)'
    BY <1>1, <2>1, <2>2, <2>3 DEF WarnInv, Reaches, Starting
  <2>5. WarnInv'
    BY <1>1, <2>1, <2>4 DEF WarnInv
  <2>6. QED
    BY <1>1, <2>1, <2>5 DEF ReadInv, Limited
<1>9. QED
  BY <1>4, <1>5, <1>6, <1>7, <1>8 DEF LoopStep


LEMMA ReachesFurther ==
  ASSUME TypeInv, NEW b \in Int, NEW c \in Int, b <= c, Reaches(b)
  PROVE  Reaches(c)
<1>1. /\ lastTarget \in Int /\ generating \subseteq Nat
      /\ target \in Nat \cup {None}
  BY TargetsTyped DEF TypeInv, TypeOK, CollectorTypeOK, LoopTypeOK
<1>2. goal \in [Groups -> Nat]
  BY GroupTypes
<1>3. target \in Int
  BY <1>1 DEF None
<1>4. \A x \in Int : x <= b => x <= c
  OBVIOUS
<1>5. /\ \A t \in generating : t \in Int
      /\ \A g \in Groups : goal[g] \in Int
  BY <1>1, <1>2
<1>6. QED
  BY <1>1, <1>3, <1>4, <1>5 DEF Reaches

(* The actor's thread: it has nothing to do while the collection thread is *)
(* between reading the open targets and reserving one.                     *)
LEMMA ActorLimits ==
  ASSUME TypeInv, VersionInv, WarnInv, ReadInv, ActorStep, CallWaiting \/ ~LoopReady
  PROVE  WarnInv' /\ ReadInv'
<1>1. loop \notin Limited
  BY LimitedReady DEF ReadInv
<1>2. /\ UNCHANGED <<lastWarned, lastTarget, generating, work, goal, target>>
      /\ loop' \in {loop, "fetch"}
  BY DEF ActorStep, poolVars, localVars, groupVars, loopVars, sharedVars, StartCollection, SetVersion,
     WakeLoop, Pause, Resume, PrepareForRefit, PollPending, ResumeAfterRefit, GetDataloaderState
<1>3. ReadInv'
  BY <1>1, <1>2 DEF ReadInv, Limited
<1>4. /\ inbox \in Seq(Message) /\ Len(inbox) \in Nat /\ currentVersion \in Nat /\ lastWarned \in Int
      /\ \A i \in 1 .. Len(inbox) : inbox[i].arg \in Nat
      /\ inbox # <<>> => Head(inbox) = inbox[1] /\ 1 \in 1 .. Len(inbox)
  BY Typed, TargetsTyped
<1>5. \A b : Reaches(b) => Reaches(b)'
  BY <1>2 DEF Reaches, Starting
<1>6. loop' = "limit_wait" => lastWarned' \in Nat /\ Reaches(lastWarned + MaxAge)'
  BY <1>2, <1>5 DEF WarnInv
<1>7. CASE SetVersion
  <2>1. /\ inbox # <<>> /\ inbox[1].op = "set_weight_version"
        /\ currentVersion' = inbox[1].arg /\ UNCHANGED <<inbox, limitCleared>>
    BY <1>4, <1>7 DEF SetVersion, Serving
  <2>2. lastWarned < currentVersion' /\ currentVersion <= currentVersion'
    BY <1>4, <2>1 DEF WarnInv, VersionInv, Announced
  <2>3. Reaches(currentVersion' + MaxAge)
    <3>1. currentVersion' \in Nat
      BY <1>4, <2>1
    <3>2. QED
      BY <1>4, <2>2, <3>1, ReachesFurther DEF WarnInv
  <2>4. Reaches(currentVersion + MaxAge)'
    BY <1>2, <2>3 DEF Reaches, Starting
  <2>5. \A i \in 1 .. Len(inbox') : inbox'[i].op = "set_weight_version" => lastWarned' < inbox'[i].arg
    BY <1>2, <2>1 DEF WarnInv
  <2>6. lastWarned' < currentVersion'
    BY <1>2, <2>2
  <2>7. currentVersion' \in Nat /\ lastWarned' \in Int
    BY <1>2, <1>4, <2>1
  <2>8. lastWarned' <= currentVersion' /\ lastWarned' # currentVersion'
    BY <2>6, <2>7
  <2>9. QED
    BY <1>2, <1>3, <1>6, <2>4, <2>5, <2>8 DEF WarnInv
<1>8. CASE ~SetVersion
  <2>1. UNCHANGED currentVersion
    BY <1>8 DEF ActorStep, StartCollection, WakeLoop, Pause, Resume, PrepareForRefit, PollPending,
       ResumeAfterRefit, GetDataloaderState
  <2>2. \A i \in 1 .. Len(inbox') : inbox'[i].op = "set_weight_version" => lastWarned' < inbox'[i].arg
    <3>1. CASE Return
      <4>1. inbox # <<>>
        BY <3>1, ActorReturns
      <4>2. /\ Len(inbox') = Len(inbox) - 1
            /\ \A i \in 1 .. Len(inbox') : inbox'[i] = inbox[i + 1]
        BY <1>4, <3>1, <4>1, ReturnFrom
      <4>3. QED
        BY <1>2, <1>4, <4>2 DEF WarnInv
    <3>2. CASE ~Return
      <4>1. UNCHANGED inbox
        BY <3>2, ActorKeepsInbox
      <4>2. QED
        BY <1>2, <4>1 DEF WarnInv
    <3>3. QED
      BY <3>1, <3>2
  <2>3. lastWarned' = currentVersion' => ~limitCleared'
    <3>1. CASE WakeLoop
      <4>1. /\ inbox # <<>> /\ inbox[1].op = "set_weight_version" /\ inbox[1].arg = currentVersion
        BY <1>4, <3>1 DEF WakeLoop, TypeInv, ActorShape
      <4>2. lastWarned < currentVersion
        BY <1>4, <4>1 DEF WarnInv
      <4>3. QED
        BY <1>2, <1>4, <2>1, <4>2
    <3>2. CASE ~WakeLoop
      <4>1. UNCHANGED limitCleared
        BY <1>8, <3>2 DEF ActorStep, StartCollection, Pause, Resume, PrepareForRefit, PollPending,
           ResumeAfterRefit, GetDataloaderState
      <4>2. QED
        BY <1>2, <2>1, <4>1 DEF WarnInv
    <3>3. QED
      BY <3>1, <3>2
  <2>4. Reaches(currentVersion + MaxAge)'
    BY <1>2, <2>1 DEF WarnInv, Reaches, Starting
  <2>5. lastWarned' <= currentVersion'
    BY <1>2, <2>1 DEF WarnInv
  <2>6. QED
    BY <1>3, <1>6, <2>2, <2>3, <2>4, <2>5 DEF WarnInv
<1>9. QED
  BY <1>7, <1>8


LEMMA WorkerReaches ==
  ASSUME TypeInv, NEW g \in Groups, WorkerStep(g), NEW b \in Int, Reaches(b)
  PROVE  Reaches(b)'
<1>1. UNCHANGED <<loop, target>> /\ generating' \subseteq generating
  BY DEF WorkerStep, loopVars, localVars, RolloutFails, Push, PushFull, PushStopped, Unreserve, Cleanup,
     Release, sharedVars
<1>2. \A h \in Groups : work'[h] \in {"gen", "push"} => work[h] \in {"gen", "push"} /\ goal'[h] = goal[h]
  <2> SUFFICES ASSUME NEW h \in Groups, work'[h] \in {"gen", "push"}
               PROVE  work[h] \in {"gen", "push"} /\ goal'[h] = goal[h]
    OBVIOUS
  <2>1. CASE h # g
    BY <2>1, WorkerGroups
  <2>2. CASE h = g
    <3>1. work'[g] \in Alive /\ work \in [Groups -> WorkStates]
      BY <2>2, GroupTypes DEF Alive
    <3>2. goal'[g] = goal[g]
      BY <3>1, WorkerGroups
    <3>3. work[g] \in {"gen", "push"}
      BY <2>2, <3>1 DEF WorkerStep, RolloutFails, Push, PushFull, PushStopped, Unreserve, Cleanup, Release, Become
    <3>4. QED
      BY <2>2, <3>2, <3>3
  <2>3. QED
    BY <2>1, <2>2
<1>3. lastTarget' <= b
  <2>1. CASE Push(g)
    <3>1. lastTarget' = Larger(lastTarget, goal[g]) /\ work[g] \in {"gen", "push"}
      BY <2>1 DEF Push, PoolPush, Become
    <3>2. QED
      BY <3>1 DEF Larger, Reaches
  <2>2. CASE ~Push(g)
    <3>1. UNCHANGED lastTarget
      BY <2>2 DEF WorkerStep, RolloutFails, PushFull, PoolFull, PushStopped, Unreserve, Cleanup, Release, poolVars
    <3>2. QED
      BY <3>1 DEF Reaches
  <2>3. QED
    BY <2>1, <2>2
<1>4. QED
  BY <1>1, <1>2, <1>3 DEF Reaches

LEMMA WorkerLimits ==
  ASSUME TypeInv, WarnInv, ReadInv, NEW g \in Groups, WorkerStep(g), ~LoopReady
  PROVE  WarnInv' /\ ReadInv'
<1>1. loop \notin Limited
  BY LimitedReady
<1>2. /\ UNCHANGED <<lastWarned, limitCleared, currentVersion, inbox, loop>>
      /\ currentVersion \in Nat /\ lastWarned \in Int
  BY TargetsTyped DEF WorkerStep, loopVars, actorVars
<1>3. Reaches(currentVersion + MaxAge)'
  <2>1. PICK b \in Int : b = currentVersion + MaxAge /\ b = currentVersion' + MaxAge
    BY <1>2
  <2>2. Reaches(b)'
    BY <2>1, WorkerReaches DEF WarnInv
  <2>3. QED
    BY <1>2, <2>1, <2>2 DEF Reaches
<1>4. loop = "limit_wait" => lastWarned \in Nat /\ Reaches(lastWarned + MaxAge)'
  <2>1. PICK b \in Int : b = lastWarned + MaxAge /\ b = lastWarned' + MaxAge
    BY <1>2
  <2>2. loop = "limit_wait" => lastWarned \in Nat /\ Reaches(b)'
    BY <2>1, WorkerReaches DEF WarnInv
  <2>3. QED
    BY <1>2, <2>1, <2>2 DEF Reaches
<1>5. QED
  BY <1>1, <1>2, <1>3, <1>4 DEF WarnInv, ReadInv, Limited

(* A refit announces a version, and no older one.                          *)
LEMMA AnnouncesLater ==
  ASSUME NEW v \in Nat, NEW w \in Int, w < v, NEW calls \in {Announce(v), AnnouncePause(v)}
  PROVE  /\ calls \in Seq(Message)
         /\ \A i \in 1 .. Len(calls) : calls[i].op = "set_weight_version" => w < calls[i].arg
<1>1. /\ Call("set_weight_version", v).arg = v
      /\ Call("resume_after_refit", 0).op # "set_weight_version"
      /\ Call("pause", 0).op # "set_weight_version"
  BY DEF Call
<1>2. /\ calls \in Seq(Message) /\ Len(calls) \in {2, 3}
      /\ calls[1].arg = v
      /\ calls[2].op # "set_weight_version"
      /\ Len(calls) = 3 => calls[3].op # "set_weight_version"
  BY <1>1, AnnounceTyped
<1>3. \A n \in {2, 3} : \A i \in 1 .. n : i = 1 \/ i = 2 \/ (i = 3 /\ n = 3)
  OBVIOUS
<1>4. \A i \in 1 .. Len(calls) : i = 1 \/ i = 2 \/ (i = 3 /\ Len(calls) = 3)
  BY <1>2, <1>3
<1>5. QED
  BY <1>2, <1>4

LEMMA TrainerLimits ==
  ASSUME TypeInv, VersionInv, WarnInv, ReadInv, TrainerStep, ~LoopReady
  PROVE  WarnInv' /\ ReadInv'
<1>1. loop \notin Limited
  BY LimitedReady
<1>2. UNCHANGED <<lastWarned, limitCleared, currentVersion, lastTarget, generating, work, goal, loop, target>>
  BY DEF TrainerStep, loopVars, localVars, sharedVars, groupVars, actorVars, poolVars, InitialRefit, ValidateAtStart,
     BufferFilled, FillWaits, Sampled, PoolTake, SampleWaits, PoolWait, SampleRejects, PoolReject, Train, Prepared,
     Refit, Validate, NextStep, AskDataloaderState, SaveCheckpoint, TrainerFails, Send
<1>3. /\ currentVersion \in Nat /\ weightVersion \in Nat /\ lastWarned \in Int
      /\ inbox \in Seq(Message) /\ Len(inbox) \in Nat
  BY Typed, TargetsTyped
<1>4. \A i \in 1 .. Len(inbox') : inbox'[i].op = "set_weight_version" => lastWarned < inbox'[i].arg
  <2>1. CASE UNCHANGED inbox
    BY <2>1 DEF WarnInv
  <2>2. CASE ~UNCHANGED inbox
    <3>1. PICK calls \in Seq(Message) :
            /\ Send(calls)
            /\ \A i \in 1 .. Len(calls) : calls[i].op = "set_weight_version" => lastWarned < calls[i].arg
      <4>1. CASE Refit
        <5>1. weightVersion + 1 \in Nat /\ lastWarned < weightVersion + 1
          BY <1>3 DEF VersionInv, WarnInv
        <5>2. Send(Announce(weightVersion + 1)) \/ Send(AnnouncePause(weightVersion + 1))
          BY <4>1 DEF Refit, AnnouncePause
        <5>3. \A calls \in {Announce(weightVersion + 1), AnnouncePause(weightVersion + 1)} :
                /\ calls \in Seq(Message)
                /\ \A i \in 1 .. Len(calls) : calls[i].op = "set_weight_version" => lastWarned < calls[i].arg
          BY <1>3, <5>1, AnnouncesLater
        <5>4. QED
          BY <5>2, <5>3
      <4>2. CASE ~Refit
        BY <2>2, <4>2, TrainerQuiet DEF SendsQuiet, Quiet
      <4>3. QED
        BY <4>1, <4>2
    <3>2. /\ Len(inbox') = Len(inbox) + Len(calls) /\ Len(calls) \in Nat
          /\ \A i \in 1 .. Len(inbox) : inbox'[i] = inbox[i]
          /\ \A i \in 1 .. Len(calls) : inbox'[Len(inbox) + i] = calls[i]
      BY <1>3, <3>1, SendTo
    <3>3. \A i \in 1 .. Len(inbox') : i \in 1 .. Len(inbox)
              \/ (i - Len(inbox) \in 1 .. Len(calls) /\ Len(inbox) + (i - Len(inbox)) = i)
      BY <1>3, <3>2
    <3>4. QED
      BY <3>1, <3>2, <3>3 DEF WarnInv
  <2>3. QED
    BY <2>1, <2>2
<1>5. QED
  BY <1>1, <1>2, <1>4 DEF WarnInv, ReadInv, Reaches, Starting, Limited

LEMMA RestartLimits == TypeInv /\ Restart => WarnInv' /\ ReadInv'
<1> SUFFICES ASSUME TypeInv, Restart PROVE WarnInv' /\ ReadInv'
  OBVIOUS
<1>1. /\ Len(inbox') = 2 /\ inbox'[1].op = "start_collection"
      /\ inbox'[2].op = "set_weight_version" /\ inbox'[2].arg = saved.step /\ saved.step \in Nat
  BY RestartCalls
<1>2. /\ lastWarned' = -1 /\ currentVersion' = saved.step /\ lastTarget' = -1 /\ generating' = {}
      /\ loop' = "unstarted" /\ work' = [g \in Groups |-> AfterRestart(g)]
  BY DEF Restart, CollectorRestart, None
<1>3. \A g \in Groups : work'[g] \notin {"gen", "push"}
  BY <1>2 DEF AfterRestart
<1>4. Reaches(currentVersion + MaxAge)'
  BY <1>1, <1>2, <1>3 DEF Reaches, Starting
<1>5. \A i \in 1 .. Len(inbox') : inbox'[i].op = "set_weight_version" => lastWarned' < inbox'[i].arg
  <2>1. \A i \in 1 .. Len(inbox') : i = 1 \/ i = 2
    BY <1>1
  <2>2. QED
    BY <1>1, <1>2, <2>1
<1>6. WarnInv'
  BY <1>1, <1>2, <1>4, <1>5 DEF WarnInv
<1>7. QED
  BY <1>2, <1>6 DEF ReadInv, Limited

LEMMA NextLimits ==
  TypeInv /\ VersionInv /\ PrepareLast /\ WarnInv /\ ReadInv /\ [QuickNext]_vars => WarnInv' /\ ReadInv'
<1> SUFFICES ASSUME TypeInv, VersionInv, PrepareLast, WarnInv, ReadInv, [QuickNext]_vars
             PROVE  WarnInv' /\ ReadInv'
  OBVIOUS
<1>1. CASE UNCHANGED vars
  BY <1>1 DEF vars, collectorVars, trainerVars, loopVars, localVars, sharedVars, groupVars, actorVars, poolVars,
     WarnInv, ReadInv, Reaches, CallWaiting, Fresh, TargetWeights, OpenTargets
<1>2. QED
  BY <1>1, QuickWhen, LoopLimits, ActorLimits, WorkerLimits, TrainerLimits, RestartLimits


-----------------------------------------------------------------------------
(***************************************************************************)
(* Batches and steps.  Every batch that the dataloader gave has a training *)
(* step of its own: it was pushed, it is reserved, it is about to be; or   *)
(* something failed, and then at most one batch more is gone per failure,  *)
(* and per crash those of one age window and one more in hand.             *)
(***************************************************************************)
Taken == (initialVersion .. lastTarget) \cup generating
Failed == {g \in Groups : work[g] = "cleanup" /\ goal[g] > lastTarget}
Fetched == {"manual", "refit", "limit_wait"} \cup Limited
InReserve == IF loop \in Fetched THEN 1 ELSE 0
Excused == crashes * (MaxAge + 2) + failures

ReleaseInv ==
  /\ initialVersion <= currentVersion
  /\ \A t \in generating : initialVersion <= t
  /\ \A g \in Groups : work[g] = "unreserve" => goal[g] <= lastTarget
  /\ loop = "stopped" => pos = NumBatches
  /\ running => loop \notin {"unstarted", "stopped"}
  /\ loop = "unstarted" => \A g \in Groups : work[g] \notin Alive
  /\ loop \notin {"unstarted", "stopped"} => running

CountInv ==
  loop # "stopped" =>
    pos + Cardinality(Failed) <= initialVersion + Excused + Cardinality(Taken) + InReserve

LEMMA InitRelease == Init => ReleaseInv
<1> SUFFICES ASSUME Init PROVE ReleaseInv
  OBVIOUS
<1>1. /\ initialVersion = 0 /\ currentVersion = 0 /\ generating = {} /\ loop = "unstarted"
      /\ \A g \in Groups : work[g] = "none"
  BY DEF Init, CollectorStart
<1>2. running = FALSE
  BY Zenon DEF Init, CollectorStart
<1>3. QED
  BY <1>1, <1>2 DEF ReleaseInv, Alive

(* What becomes of the targets and the workers in a step of each thread.   *)
LEMMA LoopCounts ==
  ASSUME TypeInv, NotStarted, ReadInv, LoopStep
  PROVE  /\ generating \subseteq generating' /\ UNCHANGED <<initialVersion, lastTarget, failures>>
         /\ loop \notin {"unstarted", "stopped"} /\ loop' # "unstarted"
         /\ \A g \in Groups : work'[g] # work[g] =>
              /\ loop = "start" /\ g = <<pos, prompt>> /\ work[g] = "none"
              /\ work'[g] = "gen" /\ goal'[g] = target
         /\ \A g \in Groups : work'[g] = work[g] => goal'[g] = goal[g]
         /\ \/ /\ loop = "fetch" /\ pos < NumBatches /\ pos' = pos + 1 /\ loop' = "manual"
               /\ UNCHANGED <<generating, running>>
            \/ /\ loop = "fetch" /\ pos = NumBatches /\ pos' = pos /\ loop' = "stopped" /\ ~running'
               /\ UNCHANGED generating
            \/ /\ loop = "reserve" /\ loop' = "prompt_check" /\ UNCHANGED <<pos, running>>
               /\ \E t \in Fresh \ generating : generating' = generating \cup {t} /\ target' = t
            \/ /\ loop \in Fetched <=> loop' \in Fetched
               /\ loop' # "stopped" /\ UNCHANGED <<pos, generating, running>>
<1>1. /\ UNCHANGED <<initialVersion, lastTarget, failures>>
      /\ loop \notin {"unstarted", "stopped"} /\ loop' # "unstarted"
  BY DEF LoopStep, poolVars, Fetch, WaitManualPause, WaitRefitPause, LimitRead, LimitCheck, LimitWarn, LimitClear,
     LimitWait, BatchRead, Reserve, DropBatch, BatchDone, PromptCheck, PromptWait, Acquire, StartWorker, Goto
<1>2. work \in [Groups -> WorkStates] /\ goal \in [Groups -> Nat]
  BY GroupTypes
<1>3. /\ \A g \in Groups : work'[g] # work[g] =>
           /\ loop = "start" /\ g = <<pos, prompt>> /\ work[g] = "none"
           /\ work'[g] = "gen" /\ goal'[g] = target
      /\ \A g \in Groups : work'[g] = work[g] => goal'[g] = goal[g]
  <2>1. CASE StartWorker
    <3>1. PICK h \in Groups : h = <<pos, prompt>>
      BY <2>1, Started DEF StartWorker
    <3>2. work[h] = "none" /\ loop = "start"
      BY <2>1, <3>1 DEF StartWorker, NotStarted, Ahead, Between, TypeInv, TypeOK, CollectorTypeOK, LoopTypeOK
    <3>3. work' = [work EXCEPT ![h] = "gen"] /\ goal' = [goal EXCEPT ![h] = target]
      BY <2>1, <3>1 DEF StartWorker
    <3>4. QED
      BY <1>2, <3>1, <3>2, <3>3
  <2>2. CASE ~StartWorker
    <3>1. UNCHANGED <<work, goal>>
      BY <2>2 DEF LoopStep, groupVars, Fetch, WaitManualPause, WaitRefitPause, LimitRead, LimitCheck,
         LimitWarn, LimitClear, LimitWait, BatchRead, Reserve, DropBatch, PromptCheck, PromptWait, Goto,
         ReadTargets, BatchDone, Acquire
    <3>2. QED
      BY <3>1
  <2>3. QED
    BY <2>1, <2>2
<1>4. /\ generating \subseteq generating'
      /\ \/ /\ loop = "fetch" /\ pos < NumBatches /\ pos' = pos + 1 /\ loop' = "manual"
            /\ UNCHANGED <<generating, running>>
         \/ /\ loop = "fetch" /\ pos = NumBatches /\ pos' = pos /\ loop' = "stopped" /\ ~running'
            /\ UNCHANGED generating
         \/ /\ loop = "reserve" /\ loop' = "prompt_check" /\ UNCHANGED <<pos, running>>
            /\ \E t \in Fresh \ generating : generating' = generating \cup {t} /\ target' = t
         \/ /\ loop \in Fetched <=> loop' \in Fetched
            /\ loop' # "stopped" /\ UNCHANGED <<pos, generating, running>>
  <2> USE DEF Fetched, Limited, sharedVars
  <2>1. CASE Fetch
    <3>1. pos \in 0 .. NumBatches
      BY DEF TypeInv, TypeOK, CollectorTypeOK, LoopTypeOK
    <3>2. CASE pos < NumBatches
      BY <2>1, <3>2 DEF Fetch
    <3>3. CASE ~(pos < NumBatches)
      <4>1. pos = NumBatches
        BY <3>1, <3>3
      <4>2. QED
        BY <2>1, <3>3, <4>1 DEF Fetch
    <3>4. QED
      BY <3>2, <3>3
  <2>2. CASE Reserve
    BY <2>2 DEF Reserve, ReadInv, OpenTargets
  <2>3. CASE DropBatch
    BY <2>3 DEF DropBatch, ReadInv
  <2>4. CASE StartWorker
    BY <2>4 DEF StartWorker, BatchDone
  <2>5. CASE LimitRead \/ LimitCheck \/ LimitClear \/ BatchRead \/ PromptWait \/ Acquire
    BY <2>5 DEF LimitRead, LimitCheck, LimitClear, BatchRead, PromptWait, Acquire, ReadTargets
  <2>6. CASE WaitManualPause \/ WaitRefitPause \/ LimitWarn \/ LimitWait \/ PromptCheck
    BY <2>6 DEF WaitManualPause, WaitRefitPause, LimitWarn, LimitWait, PromptCheck, Goto
  <2>7. QED
    BY <2>1, <2>2, <2>3, <2>4, <2>5, <2>6 DEF LoopStep
<1>5. QED
  BY <1>1, <1>3, <1>4

LEMMA WorkerCounts ==
  ASSUME TypeInv, NEW g \in Groups, WorkerStep(g)
  PROVE  /\ UNCHANGED <<initialVersion, currentVersion, loop, pos, running>>
         /\ lastTarget <= lastTarget' /\ generating' \subseteq generating
         /\ \A h \in Groups : h # g => work'[h] = work[h] /\ goal'[h] = goal[h]
         /\ \/ /\ work[g] = "gen" /\ work'[g] = "cleanup" /\ goal'[g] = goal[g]
               /\ failures' = failures + 1 /\ UNCHANGED <<generating, lastTarget, pool>>
            \/ /\ running /\ work[g] \in {"gen", "push"} /\ work'[g] \in {"unreserve", "cleanup"}
               /\ goal'[g] = goal[g] /\ goal[g] <= lastTarget' /\ UNCHANGED <<generating, failures>>
               /\ lastTarget' = Larger(lastTarget, goal[g])
               /\ pool' = pool \cup {[id |-> g, version |-> version[g], target |-> goal[g]]}
            \/ /\ work[g] \in {"gen", "push"} /\ work'[g] = "push" /\ goal'[g] = goal[g]
               /\ UNCHANGED <<generating, failures, lastTarget, pool>>
            \/ /\ ~running /\ work[g] \in {"gen", "push"} /\ work'[g] = "cleanup"
               /\ goal'[g] = goal[g] /\ UNCHANGED <<generating, failures, lastTarget, pool>>
            \/ /\ work[g] = "unreserve" /\ work'[g] = "cleanup" /\ goal'[g] = goal[g]
               /\ generating' = generating \ {goal[g]} /\ UNCHANGED <<failures, lastTarget, pool>>
            \/ /\ work[g] = "cleanup" /\ work'[g] = "release" /\ goal'[g] = goal[g]
               /\ generating' = generating \ {goal[g]} /\ UNCHANGED <<failures, lastTarget, pool>>
            \/ /\ work[g] = "release" /\ work'[g] = "done"
               /\ UNCHANGED <<generating, failures, lastTarget, pool>>
<1>1. /\ work \in [Groups -> WorkStates] /\ goal \in [Groups -> Nat] /\ lastTarget \in Int
  BY GroupTypes, TargetsTyped
<1>2. /\ UNCHANGED <<initialVersion, currentVersion, loop, pos, running>>
      /\ \A h \in Groups : h # g => work'[h] = work[h] /\ goal'[h] = goal[h]
  BY WorkerGroups DEF WorkerStep, loopVars, actorVars
<1>3. lastTarget <= lastTarget /\ goal[g] \in Nat
  BY <1>1
<1> USE DEF Become, sharedVars, poolVars
<1>4. CASE RolloutFails(g) /\ UNCHANGED goal
  BY <1>1, <1>2, <1>3, <1>4 DEF RolloutFails
<1>5. CASE Push(g) /\ UNCHANGED goal
  <2>1. /\ lastTarget' = Larger(lastTarget, goal[g])
        /\ pool' = pool \cup {[id |-> g, version |-> version[g], target |-> goal[g]]}
        /\ running /\ work[g] \in {"gen", "push"} /\ UNCHANGED <<generating, failures>>
        /\ work' = [work EXCEPT ![g] = IF g[2] = 0 THEN "unreserve" ELSE "cleanup"]
    BY <1>5 DEF Push, PoolPush
  <2>2. lastTarget <= lastTarget' /\ goal[g] <= lastTarget'
    BY <1>1, <1>3, <2>1 DEF Larger
  <2>3. work'[g] \in {"unreserve", "cleanup"}
    BY <1>1, <2>1
  <2>4. QED
    BY <1>2, <1>5, <2>1, <2>2, <2>3
<1>6. CASE PushFull(g) /\ UNCHANGED goal
  BY <1>1, <1>2, <1>3, <1>6 DEF PushFull, PoolFull
<1>7. CASE PushStopped(g) /\ UNCHANGED goal
  BY <1>1, <1>2, <1>3, <1>7 DEF PushStopped
<1>8. CASE Unreserve(g) /\ UNCHANGED goal
  BY <1>1, <1>2, <1>3, <1>8 DEF Unreserve
<1>9. CASE Cleanup(g) /\ UNCHANGED goal
  BY <1>1, <1>2, <1>3, <1>9 DEF Cleanup
<1>10. CASE Release(g)
  BY <1>1, <1>2, <1>3, <1>10 DEF Release
<1>11. QED
  BY <1>4, <1>5, <1>6, <1>7, <1>8, <1>9, <1>10 DEF WorkerStep

LEMMA ActorCounts ==
  ASSUME TypeInv, ActorStep
  PROVE  /\ UNCHANGED <<initialVersion, pos, generating, lastTarget, pool, work, goal, failures, target>>
         /\ \/ UNCHANGED <<loop, running>>
            \/ loop = "unstarted" /\ loop' = "fetch" /\ running'
<1>1. UNCHANGED <<initialVersion, pos, generating, lastTarget, pool, work, goal, failures, target>>
  BY DEF ActorStep, poolVars, localVars, groupVars, loopVars, sharedVars, StartCollection, SetVersion,
     WakeLoop, Pause, Resume, PrepareForRefit, PollPending, ResumeAfterRefit, GetDataloaderState
<1>2. CASE StartCollection
  <2>1. inbox # <<>> /\ Head(inbox) = inbox[1] /\ 1 \in 1 .. Len(inbox) /\ inbox[1].op = "start_collection"
    BY <1>2, Typed DEF StartCollection, Serving
  <2>2. loop = "unstarted"
    BY <2>1 DEF TypeInv, ActorShape
  <2>3. QED
    BY <1>1, <1>2, <2>2 DEF StartCollection
<1>3. CASE ~StartCollection
  BY <1>1, <1>3 DEF ActorStep, loopVars, SetVersion,
     WakeLoop, Pause, Resume, PrepareForRefit, PollPending, ResumeAfterRefit, GetDataloaderState
<1>4. QED
  BY <1>2, <1>3

LEMMA TrainerCounts ==
  ASSUME TrainerStep
  PROVE  /\ UNCHANGED <<initialVersion, currentVersion, pos, generating, lastTarget, work, goal, target, loop,
                        running, crashes>>
         /\ failures' \in {failures, failures + 1}
BY DEF TrainerStep, loopVars, localVars, sharedVars, groupVars, actorVars, poolVars, InitialRefit, ValidateAtStart,
   BufferFilled, FillWaits, Sampled, PoolTake, SampleWaits, PoolWait, SampleRejects, PoolReject, Train, Prepared,
   Refit, Validate, NextStep, AskDataloaderState, SaveCheckpoint, TrainerFails, Send


LEMMA NextRelease ==
  TypeInv /\ VersionInv /\ NotStarted /\ ReadInv /\ ReleaseInv /\ [QuickNext]_vars => ReleaseInv'
<1> SUFFICES ASSUME TypeInv, VersionInv, NotStarted, ReadInv, ReleaseInv, [QuickNext]_vars PROVE ReleaseInv'
  OBVIOUS
<1> USE DEF ReleaseInv
<1>1. /\ work \in [Groups -> WorkStates] /\ goal \in [Groups -> Nat] /\ lastTarget \in Int
      /\ initialVersion \in Nat /\ currentVersion \in Nat /\ generating \subseteq Nat
      /\ \A t \in Fresh : currentVersion <= t /\ t \in Nat
  BY GroupTypes, TargetsTyped
<1>2. CASE LoopStep
  <2>1. UNCHANGED <<initialVersion, currentVersion, lastTarget>>
    BY <1>2, LoopLeaves
  <2>2. \A t \in generating' : initialVersion <= t
    <3>1. \A t \in Fresh : initialVersion <= t
      BY <1>1
    <3>2. CASE UNCHANGED generating
      BY <3>2
    <3>3. CASE ~UNCHANGED generating
      <4>1. \E t \in Fresh \ generating : generating' = generating \cup {t}
        BY <1>2, <3>3, LoopCounts
      <4>2. QED
        BY <3>1, <4>1
    <3>4. QED
      BY <3>2, <3>3
  <2>3. \A g \in Groups : work'[g] = "unreserve" => goal'[g] <= lastTarget
    <3> SUFFICES ASSUME NEW g \in Groups, work'[g] = "unreserve" PROVE goal'[g] <= lastTarget
      OBVIOUS
    <3>1. work'[g] = work[g] /\ goal'[g] = goal[g]
      BY <1>2, LoopCounts
    <3>2. QED
      BY <3>1
  <2>4. loop \notin {"unstarted", "stopped"} /\ loop' # "unstarted"
    BY <1>2, LoopCounts
  <2>5. /\ loop' = "stopped" => pos' = NumBatches
        /\ running' => loop' \notin {"unstarted", "stopped"}
        /\ loop' \notin {"unstarted", "stopped"} => running'
    <3>1. CASE loop' = "stopped"
      <4>1. pos' = NumBatches /\ ~running'
        BY <1>2, <3>1, LoopCounts, Zenon
      <4>2. QED
        BY <3>1, <4>1
    <3>2. CASE loop' # "stopped"
      <4>1. running' = running
        BY <1>2, <3>2, LoopCounts, Zenon
      <4>2. QED
        BY <2>4, <3>2, <4>1
    <3>3. QED
      BY <3>1, <3>2
  <2>6. QED
    BY <2>1, <2>2, <2>3, <2>4, <2>5
<1>3. CASE \E g \in Groups : WorkerStep(g)
  <2>1. PICK g \in Groups : WorkerStep(g)
    BY <1>3
  <2>2. /\ UNCHANGED <<initialVersion, currentVersion, loop, pos, running>>
        /\ lastTarget <= lastTarget' /\ generating' \subseteq generating
        /\ \A h \in Groups : h # g => work'[h] = work[h] /\ goal'[h] = goal[h]
        /\ work'[g] = "unreserve" => goal'[g] <= lastTarget'
    BY <2>1, WorkerCounts
  <2>3. lastTarget' \in Int
    BY <2>1, WorkerTyped, NextTyped, <1>1 DEF WorkerStep, Push, PoolPush, RolloutFails, PushFull, PoolFull, PushStopped,
       Unreserve, Cleanup, Release, poolVars, Larger
  <2>4. \A h \in Groups : work'[h] = "unreserve" => goal'[h] <= lastTarget'
    <3> SUFFICES ASSUME NEW h \in Groups, h # g, work'[h] = "unreserve" PROVE goal'[h] <= lastTarget'
      BY <2>2
    <3>1. work[h] = "unreserve" /\ goal'[h] = goal[h] /\ goal[h] \in Nat
      BY <1>1, <2>2
    <3>2. goal[h] <= lastTarget
      BY <3>1
    <3>3. QED
      BY <1>1, <2>2, <2>3, <3>1, <3>2
  <2>5. loop' = "unstarted" => \A h \in Groups : work'[h] \notin Alive
    BY <2>1, <2>2, WorkerGroups
  <2>6. QED
    BY <2>2, <2>4, <2>5
<1>4. CASE ActorStep
  <2>1. /\ UNCHANGED <<initialVersion, pos, generating, lastTarget, work, goal>>
        /\ UNCHANGED <<loop, running>> \/ (loop = "unstarted" /\ loop' = "fetch" /\ running')
    BY <1>4, ActorCounts
  <2>2. currentVersion <= currentVersion' /\ currentVersion' \in Nat
    <3>1. CASE UNCHANGED currentVersion
      BY <1>1, <3>1
    <3>2. CASE ~UNCHANGED currentVersion
      <4>1. inbox # <<>> /\ Head(inbox).op = "set_weight_version" /\ currentVersion' = Head(inbox).arg
        BY <1>4, <3>2, ActorKeepsInbox, ActorReturns
      <4>2. Head(inbox) = inbox[1] /\ 1 \in 1 .. Len(inbox) /\ inbox[1].arg \in Nat
        BY <4>1, Typed
      <4>3. QED
        BY <4>1, <4>2 DEF VersionInv, Announced
    <3>3. QED
      BY <3>1, <3>2
  <2>3. initialVersion' <= currentVersion'
    BY <1>1, <2>1, <2>2
  <2>4. CASE UNCHANGED <<loop, running>>
    BY <2>1, <2>3, <2>4
  <2>5. CASE loop = "unstarted" /\ loop' = "fetch" /\ running'
    BY <2>1, <2>3, <2>5
  <2>6. QED
    BY <2>1, <2>4, <2>5
<1>5. CASE TrainerStep
  BY <1>5, TrainerCounts
<1>6. CASE Restart
  <2>1. /\ initialVersion' = saved.step /\ currentVersion' = saved.step /\ generating' = {}
        /\ loop' = "unstarted" /\ work' = [g \in Groups |-> AfterRestart(g)]
    BY <1>6 DEF Restart, CollectorRestart
  <2>2. running' = FALSE
    BY <1>6, Zenon DEF Restart, CollectorRestart
  <2>3. \A g \in Groups : work'[g] \notin Alive
    BY <2>1 DEF AfterRestart, Alive
  <2>4. saved.step \in Nat
    BY <1>6, RestartCalls
  <2>5. QED
    BY <2>1, <2>2, <2>3, <2>4 DEF Alive
<1>7. CASE UNCHANGED vars
  BY <1>7 DEF vars, collectorVars, loopVars, sharedVars, groupVars, actorVars, poolVars
<1>8. QED
  BY <1>2, <1>3, <1>4, <1>5, <1>6, <1>7, QuickWhen


LEMMA CountsTyped ==
  TypeInv /\ WarnInv =>
    /\ IsFiniteSet(Groups) /\ IsFiniteSet(Failed) /\ Cardinality(Failed) \in Nat
    /\ IsFiniteSet(Taken) /\ Cardinality(Taken) \in Nat
    /\ InReserve \in {0, 1} /\ Excused \in Nat /\ pos \in Nat /\ initialVersion \in Nat
    /\ lastTarget \in Int /\ failures \in Nat
<1> SUFFICES ASSUME TypeInv, WarnInv
             PROVE  /\ IsFiniteSet(Groups) /\ IsFiniteSet(Failed) /\ Cardinality(Failed) \in Nat
                    /\ IsFiniteSet(Taken) /\ Cardinality(Taken) \in Nat
                    /\ InReserve \in {0, 1} /\ Excused \in Nat /\ pos \in Nat /\ initialVersion \in Nat
                    /\ lastTarget \in Int /\ failures \in Nat
  OBVIOUS
<1>1. IsFiniteSet(1 .. NumBatches) /\ IsFiniteSet(0 .. NumPrompts - 1)
  BY FS_Interval
<1>2. IsFiniteSet(Groups)
  BY <1>1, FS_Product DEF Groups
<1>3. IsFiniteSet(Failed) /\ Cardinality(Failed) \in Nat
  BY <1>2, FS_Subset, FS_CardinalityType DEF Failed
<1>4. /\ lastTarget \in Int /\ initialVersion \in Nat /\ currentVersion \in Nat /\ generating \subseteq Nat
  BY TargetsTyped
<1>5. IsFiniteSet(initialVersion .. lastTarget) /\ IsFiniteSet(0 .. currentVersion + MaxAge)
  BY <1>4, FS_Interval
<1>6. generating \subseteq 0 .. currentVersion + MaxAge
  BY <1>4 DEF WarnInv, Reaches
<1>7. IsFiniteSet(generating)
  BY <1>5, <1>6, FS_Subset
<1>8. IsFiniteSet(Taken) /\ Cardinality(Taken) \in Nat
  BY <1>5, <1>7, FS_Union, FS_CardinalityType DEF Taken
<1>9. crashes \in Nat /\ failures \in Nat /\ pos \in Nat
  BY DEF TypeInv, TypeOK, CollectorTypeOK, ActorTypeOK, LoopTypeOK
<1>10. Excused \in Nat
  BY <1>9 DEF Excused
<1>11. QED
  BY <1>2, <1>3, <1>4, <1>8, <1>9, <1>10 DEF InReserve

LEMMA CountsTypedNext ==
  TypeInv' /\ WarnInv' =>
    /\ IsFiniteSet(Failed') /\ Cardinality(Failed') \in Nat
    /\ IsFiniteSet(Taken') /\ Cardinality(Taken') \in Nat
    /\ InReserve' \in {0, 1} /\ Excused' \in Nat /\ pos' \in Nat /\ initialVersion' \in Nat
    /\ lastTarget' \in Int /\ failures' \in Nat
<1>1. (TypeInv /\ WarnInv =>
         /\ IsFiniteSet(Groups) /\ IsFiniteSet(Failed) /\ Cardinality(Failed) \in Nat
         /\ IsFiniteSet(Taken) /\ Cardinality(Taken) \in Nat
         /\ InReserve \in {0, 1} /\ Excused \in Nat /\ pos \in Nat /\ initialVersion \in Nat
         /\ lastTarget \in Int /\ failures \in Nat)'
  BY CountsTyped, PTL
<1>2. QED
  BY <1>1

(* Counting the parts of a finite set.                                     *)
LEMMA FewerIn ==
  ASSUME NEW S, NEW T, IsFiniteSet(S), T \subseteq S
  PROVE  /\ Cardinality(T) \in Nat /\ Cardinality(S) \in Nat
         /\ Cardinality(T) <= Cardinality(S)
         /\ \A x : x \in S /\ x \notin T => Cardinality(T) + 1 <= Cardinality(S)
<1>1. /\ IsFiniteSet(T) /\ Cardinality(T) \in Nat /\ Cardinality(S) \in Nat
      /\ Cardinality(T) <= Cardinality(S)
  BY FS_Subset, FS_CardinalityType
<1>2. ASSUME NEW x \in S, x \notin T
      PROVE  Cardinality(T) + 1 <= Cardinality(S)
  <2>1. IsFiniteSet(T \cup {x}) /\ Cardinality(T \cup {x}) = Cardinality(T) + 1
    BY <1>1, <1>2, FS_AddElement
  <2>2. Cardinality(T \cup {x}) <= Cardinality(S)
    BY <1>2, FS_Subset
  <2>3. QED
    BY <2>1, <2>2
<1>3. QED
  BY <1>1, <1>2

LEMMA OneMoreIn ==
  ASSUME NEW S, NEW T, NEW x, IsFiniteSet(S), T \subseteq S \cup {x}
  PROVE  /\ Cardinality(T) \in Nat /\ Cardinality(S) \in Nat
         /\ Cardinality(T) <= Cardinality(S) + 1
<1>1. Cardinality(S) \in Nat
  BY FS_CardinalityType
<1>2. IsFiniteSet(S \cup {x}) /\ Cardinality(S \cup {x}) \in {Cardinality(S), Cardinality(S) + 1}
  <2>1. CASE x \in S
    <3>1. S \cup {x} = S
      BY <2>1
    <3>2. QED
      BY <3>1
  <2>2. CASE x \notin S
    BY <2>2, FS_AddElement
  <2>3. QED
    BY <2>1, <2>2
<1>3. /\ Cardinality(T) \in Nat /\ Cardinality(T) <= Cardinality(S \cup {x})
  BY <1>2, FewerIn
<1>4. QED
  BY <1>1, <1>2, <1>3

LEMMA LoopCount ==
  ASSUME TypeInv, WarnInv, NotStarted, ReadInv, CountInv, LoopStep, UNCHANGED trainerVars,
         TypeInv', WarnInv'
  PROVE  CountInv'
<1>1. /\ IsFiniteSet(Failed) /\ IsFiniteSet(Taken) /\ Cardinality(Failed) \in Nat /\ Cardinality(Taken) \in Nat
      /\ InReserve \in {0, 1} /\ Excused \in Nat /\ pos \in Nat /\ initialVersion \in Nat
      /\ lastTarget \in Int
  BY CountsTyped
<1>2. /\ IsFiniteSet(Taken') /\ Cardinality(Failed') \in Nat /\ Cardinality(Taken') \in Nat
  BY CountsTypedNext
<1>3. UNCHANGED <<initialVersion, lastTarget, failures, crashes>> /\ generating \subseteq generating'
  BY LoopCounts DEF trainerVars
<1>4. initialVersion' = initialVersion /\ Excused' = Excused
  BY <1>3 DEF Excused
<1>5. Failed' \subseteq Failed
  <2> SUFFICES ASSUME NEW g \in Groups, work'[g] = "cleanup", goal'[g] > lastTarget
               PROVE  work[g] = "cleanup" /\ goal[g] > lastTarget
    BY <1>3 DEF Failed
  <2>1. QED
    BY LoopCounts
<1>6. Taken \subseteq Taken'
  BY <1>3 DEF Taken
<1>7. Cardinality(Failed') <= Cardinality(Failed) /\ Cardinality(Taken) <= Cardinality(Taken')
  BY <1>1, <1>2, <1>5, <1>6, FewerIn
<1>8. pos + Cardinality(Failed) <= initialVersion + Excused + Cardinality(Taken) + InReserve
  BY LoopCounts DEF CountInv
<1>9. CASE pos' = pos + 1 /\ loop = "fetch" /\ loop' = "manual"
  <2>1. InReserve = 0 /\ InReserve' = 1
    BY <1>9 DEF InReserve, Fetched, Limited
  <2>2. QED
    BY <1>1, <1>2, <1>4, <1>7, <1>8, <1>9, <2>1 DEF CountInv
<1>10. CASE loop' = "stopped"
  BY <1>10 DEF CountInv
<1>11. CASE \E t \in Fresh \ generating : generating' = generating \cup {t} /\ pos' = pos /\ loop = "reserve"
  <2>1. PICK t \in Fresh \ generating : generating' = generating \cup {t}
    BY <1>11
  <2>2. t \in Taken' /\ t \notin Taken
    BY <1>1, <2>1, TargetsTyped DEF Taken
  <2>3. Cardinality(Taken) + 1 <= Cardinality(Taken')
    BY <1>2, <1>6, <2>2, FewerIn
  <2>4. pos' = pos /\ InReserve' \in {0, 1}
    BY <1>11, CountsTypedNext
  <2>5. InReserve' = 0 \/ InReserve = 1
    BY <1>11 DEF InReserve, Fetched, Limited
  <2>6. QED
    BY <1>1, <1>2, <1>4, <1>7, <1>8, <2>3, <2>4, <2>5 DEF CountInv
<1>12. CASE (loop \in Fetched <=> loop' \in Fetched) /\ pos' = pos
  <2>1. InReserve' = InReserve
    BY <1>12 DEF InReserve
  <2>2. QED
    BY <1>1, <1>2, <1>4, <1>7, <1>8, <1>12, <2>1 DEF CountInv
<1>13. QED
  BY <1>9, <1>10, <1>11, <1>12, LoopCounts

LEMMA WorkerCount ==
  ASSUME TypeInv, WarnInv, ReleaseInv, CountInv, NEW g \in Groups, WorkerStep(g), UNCHANGED trainerVars,
         TypeInv', WarnInv'
  PROVE  CountInv'
<1>1. /\ IsFiniteSet(Failed) /\ IsFiniteSet(Taken) /\ Cardinality(Failed) \in Nat /\ Cardinality(Taken) \in Nat
      /\ InReserve \in {0, 1} /\ Excused \in Nat /\ pos \in Nat /\ initialVersion \in Nat
      /\ lastTarget \in Int
  BY CountsTyped
<1>2. /\ IsFiniteSet(Taken') /\ Cardinality(Failed') \in Nat /\ Cardinality(Taken') \in Nat
      /\ lastTarget' \in Int
  BY CountsTypedNext
<1>3. /\ UNCHANGED <<initialVersion, loop, pos, running, crashes>>
      /\ lastTarget <= lastTarget' /\ generating' \subseteq generating
      /\ \A h \in Groups : h # g => work'[h] = work[h] /\ goal'[h] = goal[h]
  BY WorkerCounts DEF trainerVars
<1>4. goal \in [Groups -> Nat] /\ goal' \in [Groups -> Nat] /\ work[g] \in Alive
  BY GroupTypes, WorkerGroups DEF TypeInv, TypeOK, CollectorTypeOK, GroupTypeOK
<1>5. SUFFICES ASSUME loop # "stopped" PROVE CountInv'
  BY <1>3 DEF CountInv
<1>6. running
  BY <1>4, <1>5 DEF ReleaseInv
<1>7. InReserve' = InReserve /\ initialVersion' = initialVersion /\ pos' = pos
  BY <1>3 DEF InReserve
<1>8. pos + Cardinality(Failed) <= initialVersion + Excused + Cardinality(Taken) + InReserve
  BY <1>5 DEF CountInv
<1>9. \A h \in Failed' : h # g => h \in Failed
  <2> SUFFICES ASSUME NEW h \in Failed', h # g PROVE h \in Failed
    OBVIOUS
  <2>1. h \in Groups /\ work'[h] = "cleanup" /\ goal'[h] > lastTarget'
    BY DEF Failed
  <2>2. work[h] = "cleanup" /\ goal[h] > lastTarget'
    BY <1>3, <2>1
  <2>3. goal[h] > lastTarget
    BY <1>1, <1>2, <1>3, <1>4, <2>1, <2>2
  <2>4. QED
    BY <2>1, <2>2, <2>3 DEF Failed
<1>10. ASSUME failures' = failures, Failed' \subseteq Failed, Taken \subseteq Taken' PROVE CountInv'
  <2>1. Cardinality(Failed') <= Cardinality(Failed) /\ Cardinality(Taken) <= Cardinality(Taken')
    BY <1>1, <1>2, <1>10, FewerIn
  <2>2. Excused' = Excused
    BY <1>3, <1>10 DEF Excused
  <2>3. QED
    BY <1>1, <1>2, <1>7, <1>8, <2>1, <2>2 DEF CountInv
<1>11. ASSUME UNCHANGED generating PROVE Taken \subseteq Taken'
  BY <1>1, <1>2, <1>3, <1>11 DEF Taken
<1>12. CASE work[g] = "gen" /\ failures' = failures + 1 /\ UNCHANGED generating
  <2>1. Failed' \subseteq Failed \cup {g}
    BY <1>9
  <2>2. Cardinality(Failed') <= Cardinality(Failed) + 1
    BY <1>1, <2>1, OneMoreIn
  <2>3. Cardinality(Taken) <= Cardinality(Taken')
    BY <1>2, <1>11, <1>12, FewerIn
  <2>4. Excused' = Excused + 1
    <3>1. /\ crashes' = crashes /\ crashes \in Nat /\ failures \in Nat
      BY <1>3 DEF TypeInv, TypeOK, CollectorTypeOK, ActorTypeOK
    <3>2. \A c \in Nat : c + (failures + 1) = c + failures + 1
      BY <3>1
    <3>3. crashes * (MaxAge + 2) \in Nat
      BY <3>1
    <3>4. QED
      BY <1>12, <3>1, <3>2, <3>3 DEF Excused
  <2>5. QED
    BY <1>1, <1>2, <1>7, <1>8, <2>2, <2>3, <2>4 DEF CountInv
<1>13. CASE g \notin Failed' /\ UNCHANGED <<generating, failures>>
  <2>1. Failed' \subseteq Failed
    BY <1>9, <1>13
  <2>2. Taken \subseteq Taken'
    BY <1>11, <1>13
  <2>3. QED
    BY <1>10, <1>13, <2>1, <2>2
<1>14. CASE work[g] = "unreserve" /\ generating' = generating \ {goal[g]} /\ failures' = failures
            /\ lastTarget' = lastTarget /\ goal'[g] = goal[g]
  <2>1. goal[g] <= lastTarget
    BY <1>14 DEF ReleaseInv
  <2>2. g \notin Failed'
    BY <1>1, <1>4, <1>14, <2>1 DEF Failed
  <2>3. Taken \subseteq Taken'
    BY <1>1, <1>3, <1>4, <1>14, <2>1 DEF Taken, ReleaseInv
  <2>4. Failed' \subseteq Failed
    BY <1>9, <2>2
  <2>5. QED
    BY <1>10, <1>14, <2>3, <2>4
<1>15. CASE work[g] = "cleanup" /\ work'[g] = "release" /\ generating' = generating \ {goal[g]}
            /\ failures' = failures /\ lastTarget' = lastTarget
  <2>1. Failed' \subseteq Failed /\ g \notin Failed'
    BY <1>9, <1>15 DEF Failed
  <2>2. CASE goal[g] <= lastTarget
    <3>1. Taken \subseteq Taken'
      BY <1>1, <1>3, <1>4, <1>15, <2>2 DEF Taken, ReleaseInv
    <3>2. QED
      BY <1>10, <1>15, <2>1, <3>1
  <2>3. CASE ~(goal[g] <= lastTarget)
    <3>1. g \in Failed
      BY <1>1, <1>4, <1>15, <2>3 DEF Failed
    <3>2. Cardinality(Failed') + 1 <= Cardinality(Failed)
      BY <1>1, <2>1, <3>1, FewerIn
    <3>3. Taken \subseteq Taken' \cup {goal[g]}
      BY <1>3, <1>15 DEF Taken
    <3>4. Cardinality(Taken) <= Cardinality(Taken') + 1
      BY <1>2, <3>3, OneMoreIn
    <3>5. Excused' = Excused
      BY <1>3, <1>15 DEF Excused
    <3>6. QED
      BY <1>1, <1>2, <1>7, <1>8, <3>2, <3>4, <3>5 DEF CountInv
  <2>4. QED
    BY <2>2, <2>3
<1>16. CASE running /\ work[g] \in {"gen", "push"} /\ goal'[g] <= lastTarget' /\ UNCHANGED <<generating, failures>>
  <2>1. g \notin Failed'
    BY <1>2, <1>4, <1>16 DEF Failed
  <2>2. QED
    BY <1>13, <1>16, <2>1
<1>17. CASE work'[g] # "cleanup" /\ UNCHANGED <<generating, failures>>
  <2>1. g \notin Failed'
    BY <1>17 DEF Failed
  <2>2. QED
    BY <1>13, <1>17, <2>1
<1>18. QED
  <2>1. \/ work[g] = "gen" /\ failures' = failures + 1 /\ UNCHANGED generating
        \/ running /\ work[g] \in {"gen", "push"} /\ goal'[g] <= lastTarget' /\ UNCHANGED <<generating, failures>>
        \/ work'[g] # "cleanup" /\ UNCHANGED <<generating, failures>>
        \/ work[g] = "unreserve" /\ generating' = generating \ {goal[g]} /\ failures' = failures
            /\ lastTarget' = lastTarget /\ goal'[g] = goal[g]
        \/ work[g] = "cleanup" /\ work'[g] = "release" /\ generating' = generating \ {goal[g]}
            /\ failures' = failures /\ lastTarget' = lastTarget
    BY <1>6, WorkerCounts
  <2>2. QED
    BY <1>12, <1>14, <1>15, <1>16, <1>17, <2>1


LEMMA ExcusedGrows ==
  ASSUME TypeInv, crashes' = crashes, failures' \in {failures, failures + 1}
  PROVE  Excused \in Nat /\ Excused' \in Nat /\ Excused <= Excused'
<1>1. crashes \in Nat /\ failures \in Nat
  BY DEF TypeInv, TypeOK, CollectorTypeOK, ActorTypeOK
<1>2. PICK c \in Nat : c = crashes * (MaxAge + 2)
  BY <1>1
<1>3. c \in Nat /\ Excused = c + failures /\ Excused' = c + failures'
  BY <1>2 DEF Excused
<1>4. failures' = failures \/ failures' = failures + 1
  OBVIOUS
<1>5. failures' \in Nat /\ failures <= failures'
  BY <1>1, <1>4
<1>6. \A a, b \in Nat : a <= b => c + a \in Nat /\ c + b \in Nat /\ c + a <= c + b
  OBVIOUS
<1>7. c + failures \in Nat /\ c + failures' \in Nat /\ c + failures <= c + failures'
  BY <1>1, <1>5, <1>6
<1>8. QED
  BY <1>3, <1>7

LEMMA ExcusedByCrash ==
  ASSUME TypeInv, Restart
  PROVE  Excused \in Nat /\ Excused' = Excused + MaxAge + 2
<1>1. crashes \in Nat /\ failures \in Nat /\ crashes' = crashes + 1 /\ failures' = failures
  BY DEF TypeInv, TypeOK, CollectorTypeOK, ActorTypeOK, Restart
<1>2. PICK a \in Nat : a = MaxAge + 2
  OBVIOUS
<1>3. (crashes + 1) * a = crashes * a + a /\ crashes * a \in Nat
  BY <1>1
<1>4. Excused = crashes * a + failures /\ Excused' = (crashes + 1) * a + failures
  BY <1>1, <1>2 DEF Excused
<1>5. PICK c \in Nat : c = crashes * a
  BY <1>3
<1>6. Excused = c + failures /\ Excused' = c + a + failures
  BY <1>3, <1>4, <1>5
<1>7. QED
  BY <1>1, <1>2, <1>6

(* What a checkpoint may hold: the batches that were given by the time a   *)
(* training step s is about to begin.                                      *)
SavedBound(s, p) == p < NumBatches => p <= s + Excused + MaxAge + 2

RestartBound == SavedBound(saved.step, saved.pos)
ReplyBound == trainer \in Awaiting /\ inbox = <<>> => SavedBound(step + 1, reply)

LEMMA GivenBatches ==
  ASSUME TypeInv, VersionInv, WarnInv, ReleaseInv, CountInv, trainer \in Awaiting
  PROVE  SavedBound(step + 1, pos)
<1>1. /\ IsFiniteSet(Taken) /\ Cardinality(Failed) \in Nat /\ Cardinality(Taken) \in Nat
      /\ InReserve \in {0, 1} /\ Excused \in Nat /\ pos \in Nat /\ initialVersion \in Nat
      /\ lastTarget \in Int
  BY CountsTyped
<1>2. SUFFICES ASSUME pos < NumBatches PROVE pos <= step + 1 + Excused + MaxAge + 2
  BY DEF SavedBound
<1>3. loop # "stopped"
  BY <1>1, <1>2 DEF ReleaseInv
<1>4. pos + Cardinality(Failed) <= initialVersion + Excused + Cardinality(Taken) + InReserve
  BY <1>3 DEF CountInv
<1>5. initialVersion \in Nat /\ currentVersion \in Nat /\ initialVersion <= currentVersion /\ generating \subseteq Nat
  BY TargetsTyped DEF ReleaseInv
<1>6. Taken \subseteq initialVersion .. currentVersion + MaxAge
  BY <1>1, <1>5 DEF Taken, WarnInv, Reaches, ReleaseInv
<1>7. /\ IsFiniteSet(initialVersion .. currentVersion + MaxAge)
      /\ Cardinality(initialVersion .. currentVersion + MaxAge) = currentVersion + MaxAge - initialVersion + 1
  BY <1>5, FS_Interval
<1>8. Cardinality(Taken) <= currentVersion + MaxAge - initialVersion + 1
  BY <1>6, <1>7, FewerIn
<1>9. currentVersion <= step + 1 /\ step \in Nat
  BY DEF VersionInv, TypeInv, TypeOK, TrainerShape, Awaiting
<1>10. QED
  BY <1>1, <1>4, <1>5, <1>8, <1>9

LEMMA NextCount ==
  TypeInv /\ VersionInv /\ NotStarted /\ PrepareLast /\ WarnInv /\ ReadInv /\ ReleaseInv /\ RestartBound
    /\ CountInv /\ [QuickNext]_vars => CountInv'
<1> SUFFICES ASSUME TypeInv, VersionInv, NotStarted, PrepareLast, WarnInv, ReadInv, ReleaseInv, RestartBound,
                    CountInv, [QuickNext]_vars
             PROVE  CountInv'
  OBVIOUS
<1>1. TypeInv' /\ WarnInv'
  BY NextTyped, NextLimits, QuickSteps DEF Next, CollectorStep, QuickNext, QuickCollector, QuickTrainer
<1>2. /\ Cardinality(Failed) \in Nat /\ Cardinality(Taken) \in Nat /\ InReserve \in {0, 1} /\ Excused \in Nat
      /\ pos \in Nat /\ initialVersion \in Nat
  BY CountsTyped
<1>3. /\ Cardinality(Failed') \in Nat /\ Cardinality(Taken') \in Nat
  BY <1>1, CountsTypedNext
<1>4. CASE LoopStep /\ UNCHANGED trainerVars
  BY <1>1, <1>4, LoopCount
<1>5. CASE \E g \in Groups : WorkerStep(g) /\ UNCHANGED trainerVars
  BY <1>1, <1>5, WorkerCount
<1>6. CASE ActorStep /\ UNCHANGED trainerVars
  <2>1. /\ UNCHANGED <<initialVersion, pos, generating, lastTarget, work, goal, failures, crashes>>
        /\ UNCHANGED loop \/ (loop = "unstarted" /\ loop' = "fetch")
    BY <1>6, ActorCounts DEF trainerVars
  <2>2. Failed' = Failed /\ Taken' = Taken /\ Excused' = Excused
    BY <2>1 DEF Failed, Taken, Excused
  <2>3. InReserve' = InReserve
    BY <2>1 DEF InReserve, Fetched, Limited
  <2>4. QED
    BY <2>1, <2>2, <2>3 DEF CountInv
<1>7. CASE TrainerStep
  <2>1. /\ UNCHANGED <<initialVersion, pos, generating, lastTarget, work, goal, loop, crashes>>
        /\ failures' \in {failures, failures + 1}
    BY <1>7, TrainerCounts
  <2>2. Failed' = Failed /\ Taken' = Taken /\ InReserve' = InReserve
    BY <2>1 DEF Failed, Taken, InReserve
  <2>3. Excused <= Excused' /\ Excused' \in Nat
    BY <2>1, ExcusedGrows
  <2>4. QED
    BY <1>2, <2>1, <2>2, <2>3 DEF CountInv
<1>8. CASE Restart
  <2>1. /\ initialVersion' = saved.step /\ generating' = {} /\ loop' = "unstarted" /\ lastTarget' = -1
        /\ pos' = saved.pos /\ work' = [g \in Groups |-> AfterRestart(g)] /\ saved.pos < NumBatches
    BY <1>8 DEF Restart, CollectorRestart
  <2>2. saved.step \in Nat /\ saved.pos \in Nat
    BY OwnTypes
  <2>3. saved.pos <= saved.step + Excused + MaxAge + 2
    BY <2>1 DEF RestartBound, SavedBound
  <2>4. Failed' = {}
    BY <2>1 DEF Failed, AfterRestart
  <2>5. Cardinality(Failed') = 0
    BY <2>4, FS_EmptySet
  <2>6. InReserve' = 0
    BY <2>1 DEF InReserve, Fetched, Limited
  <2>7. Excused' = Excused + MaxAge + 2
    BY <1>8, ExcusedByCrash
  <2>8. QED
    BY <1>2, <1>3, <2>1, <2>2, <2>3, <2>5, <2>6, <2>7 DEF CountInv
<1>9. CASE UNCHANGED vars
  <2>1. UNCHANGED <<initialVersion, pos, generating, lastTarget, work, goal, loop, crashes, failures>>
    BY <1>9 DEF vars, collectorVars, trainerVars, loopVars, sharedVars, groupVars, actorVars, poolVars
  <2>2. Failed' = Failed /\ Taken' = Taken /\ InReserve' = InReserve /\ Excused' = Excused
    BY <2>1 DEF Failed, Taken, InReserve, Excused
  <2>3. QED
    BY <2>1, <2>2 DEF CountInv
<1>10. QED
  BY <1>4, <1>5, <1>6, <1>7, <1>8, <1>9, QuickSteps

LEMMA InitCount == Init => CountInv /\ RestartBound /\ ReplyBound
<1> SUFFICES ASSUME Init PROVE CountInv /\ RestartBound /\ ReplyBound
  OBVIOUS
<1>1. /\ initialVersion = 0 /\ generating = {} /\ loop = "unstarted" /\ lastTarget = -1 /\ pos = 0
      /\ crashes = 0 /\ failures = 0 /\ saved = [step |-> 0, pos |-> 0] /\ trainer = "setup"
      /\ \A g \in Groups : work[g] = "none"
  BY DEF Init, CollectorStart, PoolInit
<1>2. Failed = {} /\ Taken = {}
  BY <1>1 DEF Failed, Taken
<1>3. Cardinality(Failed) = 0 /\ Cardinality(Taken) = 0
  BY <1>2, FS_EmptySet
<1>4. InReserve = 0 /\ Excused = 0
  BY <1>1 DEF InReserve, Fetched, Limited, Excused
<1>5. CountInv
  BY <1>1, <1>3, <1>4 DEF CountInv
<1>6. RestartBound
  BY <1>1, <1>4 DEF RestartBound, SavedBound
<1>7. QED
  BY <1>1, <1>5, <1>6 DEF ReplyBound, Awaiting


(* Disjoint sets of k elements each: n of them in T make n * k elements.   *)
LEMMA DisjointCount ==
  ASSUME NEW n \in Nat, NEW k \in Nat, NEW F, NEW T, IsFiniteSet(T),
         \A s \in 0 .. n - 1 : F[s] \subseteq T /\ Cardinality(F[s]) = k,
         \A s, t \in 0 .. n - 1 : s # t => F[s] \cap F[t] = {}
  PROVE  n * k <= Cardinality(T)
<1> DEFINE D == (0 .. n - 1) \X (1 .. k)
           b == [s \in 0 .. n - 1 |-> CHOOSE f : f \in Bijection(1 .. k, F[s])]
           M == [p \in D |-> b[p[1]][p[2]]]
<1>1. \A s \in 0 .. n - 1 :
        /\ b[s] \in [1 .. k -> F[s]]
        /\ \A i, j \in 1 .. k : b[s][i] = b[s][j] => i = j
  <2> SUFFICES ASSUME NEW s \in 0 .. n - 1
               PROVE  /\ b[s] \in [1 .. k -> F[s]]
                      /\ \A i, j \in 1 .. k : b[s][i] = b[s][j] => i = j
    OBVIOUS
  <2>1. IsFiniteSet(F[s]) /\ Cardinality(F[s]) = k
    BY FS_Subset
  <2>2. Bijection(1 .. k, F[s]) # {}
    BY <2>1, FS_CardinalityType DEF ExistsBijection
  <2>3. b[s] \in Bijection(1 .. k, F[s])
    BY <2>2
  <2>4. QED
    BY <2>3 DEF Bijection, Injection, IsInjective
<1> HIDE DEF b
<1>2. M \in [D -> T]
  BY <1>1
<1>3. \A p, q \in D : M[p] = M[q] => p = q
  <2> SUFFICES ASSUME NEW p \in D, NEW q \in D, M[p] = M[q] PROVE p = q
    OBVIOUS
  <2>1. /\ p[1] \in 0 .. n - 1 /\ p[2] \in 1 .. k /\ q[1] \in 0 .. n - 1 /\ q[2] \in 1 .. k
        /\ p = <<p[1], p[2]>> /\ q = <<q[1], q[2]>>
    OBVIOUS
  <2>2. b[p[1]][p[2]] = b[q[1]][q[2]]
    OBVIOUS
  <2>3. b[p[1]][p[2]] \in F[p[1]] /\ b[q[1]][q[2]] \in F[q[1]]
    BY <1>1, <2>1
  <2>4. p[1] = q[1]
    BY <2>1, <2>2, <2>3
  <2>5. p[2] = q[2]
    BY <1>1, <2>1, <2>2, <2>4
  <2>6. QED
    BY <2>1, <2>4, <2>5
<1> HIDE DEF M
<1>4. M \in Injection(D, T)
  <2> HIDE DEF D
  <2> QED
    BY <1>2, <1>3, Fun_IsInj
<1>5. /\ IsFiniteSet(0 .. n - 1) /\ Cardinality(0 .. n - 1) = n
      /\ IsFiniteSet(1 .. k) /\ Cardinality(1 .. k) = k
  <2>1. n - 1 \in Int
    OBVIOUS
  <2>2. /\ IsFiniteSet(0 .. n - 1) /\ Cardinality(0 .. n - 1) = IF 0 > n - 1 THEN 0 ELSE n - 1 - 0 + 1
        /\ IsFiniteSet(1 .. k) /\ Cardinality(1 .. k) = IF 1 > k THEN 0 ELSE k - 1 + 1
    BY <2>1, FS_Interval
  <2>3. QED
    BY <2>2
<1>6. Cardinality(D) = n * k
  <2>1. \A A, B : IsFiniteSet(A) /\ IsFiniteSet(B) => Cardinality(A \X B) = Cardinality(A) * Cardinality(B)
    BY FS_Product
  <2>2. Cardinality(D) = Cardinality(0 .. n - 1) * Cardinality(1 .. k)
    BY <1>5, <2>1
  <2>3. QED
    BY <1>5, <2>2
<1>7. Cardinality(D) <= Cardinality(T)
  <2> HIDE DEF D
  <2> QED
    BY <1>4, FS_Injection
<1>8. QED
  BY <1>6, <1>7

(* What a restart from the last checkpoint loses: the prompts the          *)
(* dataloader had given by then, less those the finished steps trained.    *)
LEMMA LostCount ==
  ASSUME TypeInv, OwnInv, SavedInv
  PROVE  Cardinality({g \in Groups : AfterRestart(g) = "lost"}) + saved.step * NumPrompts
           <= saved.pos * NumPrompts
<1> DEFINE Lost == {g \in Groups : AfterRestart(g) = "lost"}
           Given == (1 .. saved.pos) \X (0 .. NumPrompts - 1)
<1>1. saved.step \in 0 .. MaxSteps /\ saved.pos \in 0 .. NumBatches /\ step \in 0 .. MaxSteps
      /\ saved.step <= step /\ trained \in [Begun -> SUBSET Groups]
  BY OwnTypes DEF SavedInv
<1>2. IsFiniteSet(Given) /\ Cardinality(Given) = saved.pos * NumPrompts
  <2>1. /\ IsFiniteSet(1 .. saved.pos) /\ Cardinality(1 .. saved.pos) = saved.pos
        /\ IsFiniteSet(0 .. NumPrompts - 1) /\ Cardinality(0 .. NumPrompts - 1) = NumPrompts
    <3>1. \A a, b \in Int : IsFiniteSet(a .. b) /\ Cardinality(a .. b) = IF a > b THEN 0 ELSE b - a + 1
      BY FS_Interval
    <3>2. saved.pos \in Int /\ NumPrompts - 1 \in Int /\ 0 \in Int /\ 1 \in Int /\ saved.pos >= 0
      BY <1>1
    <3>3. /\ IsFiniteSet(1 .. saved.pos)
          /\ Cardinality(1 .. saved.pos) = IF 1 > saved.pos THEN 0 ELSE saved.pos - 1 + 1
          /\ IsFiniteSet(0 .. NumPrompts - 1)
          /\ Cardinality(0 .. NumPrompts - 1) = IF 0 > NumPrompts - 1 THEN 0 ELSE NumPrompts - 1 - 0 + 1
      BY <3>1, <3>2
    <3>4. QED
      BY <3>2, <3>3
  <2>2. \A A, B : IsFiniteSet(A) /\ IsFiniteSet(B) =>
          IsFiniteSet(A \X B) /\ Cardinality(A \X B) = Cardinality(A) * Cardinality(B)
    BY FS_Product
  <2>3. /\ IsFiniteSet(Given)
        /\ Cardinality(Given) = Cardinality(1 .. saved.pos) * Cardinality(0 .. NumPrompts - 1)
    BY <2>1, <2>2
  <2>4. QED
    BY <2>1, <2>3
<1>3. Lost \subseteq Given
  BY <1>1 DEF AfterRestart, Groups
<1>4. \A s \in 0 .. saved.step - 1 :
        /\ trained[s] \subseteq Given \ Lost /\ Cardinality(trained[s]) = NumPrompts
  <2> SUFFICES ASSUME NEW s \in 0 .. saved.step - 1
               PROVE  trained[s] \subseteq Given \ Lost /\ Cardinality(trained[s]) = NumPrompts
    OBVIOUS
  <2>1. s \in Begun /\ s < saved.step /\ s < step /\ s \in 0 .. MaxSteps - 1
    BY <1>1 DEF Begun
  <2>2. Cardinality(trained[s]) = NumPrompts
    BY <2>1 DEF OwnInv, OwnGroups
  <2>3. ASSUME NEW g \in trained[s] PROVE g \in Given /\ g \notin Lost
    <3>1. g \in Groups /\ g[1] <= saved.pos
      BY <1>1, <2>1 DEF SavedInv
    <3>2. g \in Given
      BY <1>1, <3>1 DEF Groups
    <3>3. AfterRestart(g) # "lost"
      BY <1>1, <3>1 DEF AfterRestart, Groups
    <3>4. QED
      BY <3>2, <3>3
  <2>4. QED
    BY <2>2, <2>3
<1>5. \A s, t \in 0 .. saved.step - 1 : s # t => trained[s] \cap trained[t] = {}
  <2>1. \A s \in 0 .. saved.step - 1 : s \in 0 .. MaxSteps - 1
    BY <1>1
  <2>2. QED
    BY <2>1 DEF OwnInv, OwnGroups
<1> HIDE DEF Lost, Given
<1>6. /\ IsFiniteSet(Given \ Lost) /\ IsFiniteSet(Lost)
      /\ Cardinality(Given \ Lost) = Cardinality(Given) - Cardinality(Given \cap Lost)
  BY <1>2, <1>3, FS_Difference, FS_Subset
<1>7. Given \cap Lost = Lost
  BY <1>3
<1>8. saved.step * NumPrompts <= Cardinality(Given \ Lost)
  BY <1>1, <1>4, <1>5, <1>6, DisjointCount
<1>9. PICK a \in Nat, c \in Nat : a = saved.step * NumPrompts /\ c = saved.pos * NumPrompts
  BY <1>1
<1>10. a <= c - Cardinality(Lost) /\ Cardinality(Lost) \in Nat
  BY <1>2, <1>6, <1>7, <1>8, <1>9, FS_CardinalityType
<1>11. a \in Nat /\ c \in Nat
  OBVIOUS
<1>12. Cardinality(Lost) + a <= c
  BY <1>10, <1>11
<1>13. QED
  BY <1>9, <1>12 DEF Lost


LEMMA SavedBoundGrows ==
  ASSUME NEW s \in Nat, NEW p \in Nat, Excused \in Nat, Excused' \in Nat, Excused <= Excused', SavedBound(s, p)
  PROVE  p < NumBatches => p <= s + Excused' + MaxAge + 2
<1>1. \A a, b \in Nat : a <= b /\ p <= s + a + MaxAge + 2 => p <= s + b + MaxAge + 2
  OBVIOUS
<1>2. QED
  BY <1>1 DEF SavedBound

LEMMA ExcusedMonotone ==
  ASSUME TypeInv, [QuickNext]_vars
  PROVE  Excused \in Nat /\ Excused' \in Nat /\ Excused <= Excused'
<1>1. CASE Restart
  <2>1. Excused \in Nat /\ Excused' = Excused + MaxAge + 2
    BY <1>1, ExcusedByCrash
  <2>2. QED
    BY <2>1
<1>2. CASE ~Restart
  <2>1. crashes' = crashes /\ failures' \in {failures, failures + 1}
    <3>1. CASE LoopStep /\ UNCHANGED trainerVars
      BY <3>1, LoopLeaves DEF trainerVars
    <3>2. CASE ActorStep /\ UNCHANGED trainerVars
      BY <3>2, ActorCounts DEF trainerVars
    <3>3. CASE \E g \in Groups : WorkerStep(g) /\ UNCHANGED trainerVars
      BY <3>3, WorkerCounts DEF trainerVars
    <3>4. CASE TrainerStep
      BY <3>4, TrainerCounts
    <3>5. CASE UNCHANGED vars
      BY <3>5 DEF vars, collectorVars, trainerVars
    <3>6. QED
      BY <1>2, <3>1, <3>2, <3>3, <3>4, <3>5, QuickSteps
  <2>2. QED
    BY <2>1, ExcusedGrows
<1>3. QED
  BY <1>1, <1>2

LEMMA NextRestartBound ==
  TypeInv /\ RestartBound /\ ReplyBound /\ [QuickNext]_vars => RestartBound'
<1> SUFFICES ASSUME TypeInv, RestartBound, ReplyBound, [QuickNext]_vars PROVE RestartBound'
  OBVIOUS
<1>1. Excused \in Nat /\ Excused' \in Nat /\ Excused <= Excused'
  BY ExcusedMonotone
<1>2. saved.step \in Nat /\ saved.pos \in Nat /\ step \in Nat /\ reply \in Nat
  BY OwnTypes
<1>3. CASE UNCHANGED saved
  <2>1. saved.pos < NumBatches => saved.pos <= saved.step + Excused' + MaxAge + 2
    BY <1>1, <1>2, SavedBoundGrows DEF RestartBound
  <2>2. QED
    BY <1>3, <2>1 DEF RestartBound, SavedBound
<1>4. CASE ~UNCHANGED saved
  <2>1. SaveCheckpoint
    BY <1>4, QuickSteps DEF TrainerStep, InitialRefit, ValidateAtStart, BufferFilled, FillWaits, Sampled, SampleWaits,
       SampleRejects, Train, Prepared, Refit, Validate, NextStep, AskDataloaderState, TrainerFails, Restart,
       trainerVars, vars
  <2>2. /\ saved' = [step |-> step + 1, pos |-> reply] /\ trainer \in Awaiting /\ inbox = <<>>
    BY <2>1 DEF SaveCheckpoint, Answered, Awaiting
  <2>3. saved'.step = step + 1 /\ saved'.pos = reply
    BY <2>2
  <2>4. reply < NumBatches => reply <= step + 1 + Excused' + MaxAge + 2
    <3>1. step + 1 \in Nat /\ SavedBound(step + 1, reply)
      BY <1>2, <2>2 DEF ReplyBound
    <3>2. QED
      BY <1>1, <1>2, <3>1, SavedBoundGrows
  <2>5. QED
    BY <2>3, <2>4 DEF RestartBound, SavedBound
<1>5. QED
  BY <1>3, <1>4

LEMMA NextReplyBound ==
  TypeInv /\ VersionInv /\ WarnInv /\ ReleaseInv /\ CountInv /\ SavedInv /\ ReplyBound /\ [QuickNext]_vars
    => ReplyBound'
<1> SUFFICES ASSUME TypeInv, VersionInv, WarnInv, ReleaseInv, CountInv, SavedInv, ReplyBound, [QuickNext]_vars,
                    trainer' \in Awaiting, inbox' = <<>>
             PROVE  reply' < NumBatches => reply' <= step' + 1 + Excused' + MaxAge + 2
  BY DEF ReplyBound, SavedBound
<1>1. Excused \in Nat /\ Excused' \in Nat /\ Excused <= Excused'
  BY ExcusedMonotone
<1>2. /\ step \in Nat /\ reply \in Nat /\ pos \in Nat /\ step + 1 \in Nat
      /\ inbox \in Seq(Message) /\ Len(inbox) \in Nat
  BY OwnTypes, Typed
<1>3. CASE UNCHANGED <<trainer, inbox, step, reply>>
  BY <1>1, <1>2, <1>3, SavedBoundGrows DEF ReplyBound
<1>4. CASE ActorStep /\ UNCHANGED trainerVars /\ inbox # <<>>
  <2>1. UNCHANGED <<trainer, step>> /\ trainer \in Awaiting
    BY <1>4 DEF trainerVars
  <2>2. Return
    BY <1>4, ActorKeepsInbox
  <2>3. Len(inbox') = Len(inbox) - 1
    BY <1>2, <1>4, <2>2, ReturnFrom
  <2>4. Len(inbox) = 1 /\ Head(inbox) = inbox[1]
    BY <1>2, <1>4, <2>3
  <2>5. Head(inbox).op = "get_dataloader_state"
    BY <1>4, <2>1, <2>4 DEF SavedInv
  <2>6. GetDataloaderState
    BY <1>4, <2>2, <2>5, SetVersionKeepsCall DEF ActorStep, StartCollection, WakeLoop, Pause, Resume,
       PrepareForRefit, PollPending, ResumeAfterRefit, Serving, TypeInv, ActorShape
  <2>7. reply' = pos
    BY <2>6 DEF GetDataloaderState
  <2>8. SavedBound(step + 1, pos)
    BY <2>1, GivenBatches
  <2>9. QED
    BY <1>1, <1>2, <2>1, <2>7, <2>8, SavedBoundGrows
<1>5. CASE ActorStep /\ UNCHANGED trainerVars /\ inbox = <<>>
  BY <1>5 DEF ActorStep, StartCollection, SetVersion, WakeLoop, Pause, Resume, PrepareForRefit,
     PollPending, ResumeAfterRefit, GetDataloaderState, Serving, TypeInv, ActorShape
<1>6. CASE TrainerStep
  <2>1. AskDataloaderState
    BY <1>6 DEF TrainerStep, InitialRefit, ValidateAtStart, BufferFilled, AfterFill, FillWaits, Sampled, SampleWaits,
       SampleRejects, Train, Prepared, Refit, Validate, NextStep, SaveCheckpoint, TrainerFails, Awaiting
  <2> DEFINE calls == <<Call("get_dataloader_state", 0)>>
  <2>2. calls \in Seq(Message) /\ Len(calls) = 1
    BY DEF Call, Message, Calls
  <2>3. Send(calls)
    BY <2>1 DEF AskDataloaderState
  <2> HIDE DEF calls
  <2>4. Len(inbox') = Len(inbox) + Len(calls)
    BY <1>2, <2>2, <2>3, SendTo
  <2>5. QED
    BY <1>2, <2>2, <2>4
<1>7. CASE Restart
  BY <1>7 DEF Restart, Awaiting
<1>8. CASE (LoopStep \/ \E g \in Groups : WorkerStep(g)) /\ UNCHANGED trainerVars
  BY <1>3, <1>8 DEF LoopStep, WorkerStep, actorVars, trainerVars
<1>9. CASE UNCHANGED vars
  BY <1>3, <1>9 DEF vars, collectorVars, trainerVars, actorVars
<1>10. QED
  BY <1>4, <1>5, <1>6, <1>7, <1>8, <1>9, QuickSteps

LEMMA NextLoss ==
  TypeInv /\ NotStarted /\ ReadInv /\ OwnInv /\ SavedInv /\ RestartBound /\ RestartLoss /\ [QuickNext]_vars
    => RestartLoss'
<1> SUFFICES ASSUME TypeInv, NotStarted, ReadInv, OwnInv, SavedInv, RestartBound, RestartLoss, [QuickNext]_vars
             PROVE  RestartLoss'
  OBVIOUS
<1> DEFINE Lost == {g \in Groups : work[g] = "lost"}
           Left == {g \in Groups : work'[g] = "lost"}
<1>1. Excused \in Nat /\ Excused' \in Nat /\ Excused <= Excused'
  BY ExcusedMonotone
<1>2. IsFiniteSet(Groups)
  <2>1. IsFiniteSet(1 .. NumBatches) /\ IsFiniteSet(0 .. NumPrompts - 1)
    BY FS_Interval
  <2>2. QED
    BY <2>1, FS_Product DEF Groups
<1>3. IsFiniteSet(Lost) /\ Cardinality(Lost) \in Nat /\ IsFiniteSet(Left) /\ Cardinality(Left) \in Nat
  BY <1>2, FS_Subset, FS_CardinalityType
<1>4. Cardinality(Lost) <= NumPrompts * Excused
  BY DEF RestartLoss, Excused
<1>5. SUFFICES Cardinality(Left) <= NumPrompts * Excused'
  BY DEF RestartLoss, Excused
<1>6. \A a, b \in Nat : a <= b => NumPrompts * a \in Nat /\ NumPrompts * b \in Nat /\ NumPrompts * a <= NumPrompts * b
  OBVIOUS
<1>7. CASE Left \subseteq Lost
  <2>1. Cardinality(Left) <= Cardinality(Lost)
    BY <1>3, <1>7, FewerIn
  <2>2. /\ NumPrompts * Excused \in Nat /\ NumPrompts * Excused' \in Nat
        /\ NumPrompts * Excused <= NumPrompts * Excused'
    BY <1>1, <1>6
  <2> HIDE DEF Left, Lost
  <2>3. QED
    BY <1>3, <1>4, <2>1, <2>2
<1>8. CASE Restart
  <2>1. work' = [g \in Groups |-> AfterRestart(g)] /\ saved.pos < NumBatches
    BY <1>8 DEF Restart
  <2>2. Left = {g \in Groups : AfterRestart(g) = "lost"}
    BY <2>1
  <2>3. Cardinality(Left) + saved.step * NumPrompts <= saved.pos * NumPrompts
    BY <2>2, LostCount
  <2>4. saved.step \in Nat /\ saved.pos \in Nat /\ NumPrompts \in Nat
    BY OwnTypes
  <2>5. saved.pos <= saved.step + Excused'
    <3>1. Excused' = Excused + MaxAge + 2
      BY <1>8, ExcusedByCrash
    <3>2. saved.pos <= saved.step + Excused + MaxAge + 2
      BY <2>1 DEF RestartBound, SavedBound
    <3>3. QED
      BY <1>1, <2>4, <3>1, <3>2
  <2>6. \A s, p, x, n, c \in Nat : c + s * n <= p * n /\ p <= s + x => c <= n * x
    <3> SUFFICES ASSUME NEW s \in Nat, NEW p \in Nat, NEW x \in Nat, NEW n \in Nat, NEW c \in Nat,
                        c + s * n <= p * n, p <= s + x
                 PROVE  c <= n * x
      OBVIOUS
    <3>1. p * n <= (s + x) * n /\ (s + x) * n = s * n + n * x
      OBVIOUS
    <3>2. s * n \in Nat /\ p * n \in Nat /\ n * x \in Nat
      OBVIOUS
    <3>3. QED
      BY <3>1, <3>2
  <2> HIDE DEF Left
  <2>7. QED
    BY <1>1, <1>3, <2>3, <2>4, <2>5, <2>6
<1>9. CASE LoopStep
  <2>1. \A g \in Groups : work'[g] = work[g] \/ work'[g] = "gen"
    BY <1>9, LoopCounts
  <2>2. QED
    BY <1>7, <2>1
<1>10. CASE \E g \in Groups : WorkerStep(g)
  <2>1. PICK g \in Groups : WorkerStep(g)
    BY <1>10
  <2>2. work'[g] # "lost" /\ \A h \in Groups : h # g => work'[h] = work[h]
    BY <2>1, WorkerGroups DEF Alive
  <2>3. QED
    BY <1>7, <2>2
<1>11. CASE ActorStep \/ TrainerStep \/ UNCHANGED vars
  <2>1. UNCHANGED work
    BY <1>11, ActorCounts, TrainerCounts DEF vars, collectorVars, groupVars
  <2>2. QED
    BY <1>7, <2>1
<1>12. QED
  BY <1>8, <1>9, <1>10, <1>11, QuickSteps


LEMMA InitLoss == Init => RestartLoss
<1> SUFFICES ASSUME Init PROVE RestartLoss
  OBVIOUS
<1>1. crashes = 0 /\ failures = 0 /\ {g \in Groups : work[g] = "lost"} = {}
  BY DEF Init
<1>2. Cardinality({g \in Groups : work[g] = "lost"}) = 0
  BY <1>1, FS_EmptySet
<1>3. QED
  BY <1>1, <1>2 DEF RestartLoss

LEMMA QuickIsNext == [QuickNext]_vars => [Next]_vars
BY DEF QuickNext, QuickCollector, QuickTrainer, Next, CollectorStep

(* What is proved of every schedule, and of the collection thread in those *)
(* in which control takes no time.                                         *)
ScheduleInv ==
  /\ TypeInv /\ VersionInv /\ NotStarted /\ PrepareLast /\ WarnInv /\ ReadInv /\ ReleaseInv
  /\ OwnInv /\ SavedInv

LEMMA InitScheduleInv == Init => ScheduleInv
BY InitTyped, InitVersions, InitNotStarted, InitSchedule, InitRelease, InitOwn DEF ScheduleInv

LEMMA NextScheduleInv == ScheduleInv /\ [QuickNext]_vars => ScheduleInv'
BY QuickIsNext, NextTyped, NextVersions, NextNotStarted, NextPrepareLast, NextLimits, NextRelease, NextOwn, NextSaved
   DEF ScheduleInv

(* Where control takes no time the collection thread never finds that the  *)
(* batch it fetched has no target left: no batch of prompts is dropped.    *)
THEOREM NoBatchDropped == QuickSpec => [](loop = "reserve" => OpenTargets # {})
<1>1. ScheduleInv => (loop = "reserve" => OpenTargets # {})
  BY DEF ScheduleInv, ReadInv
<1>2. QED
  BY <1>1, InitScheduleInv, NextScheduleInv, PTL DEF QuickSpec

(* Where control takes no time, a restart trains no prompt again, and the  *)
(* prompts lost for good are never more than those of MaxAge + 2 batches   *)
(* per crash and of one batch per failure, whatever the age limit, the     *)
(* sizes and the periods are and wherever the crashes fall.                *)
THEOREM RestartsAreSound == QuickSpec => []RestartSound
<1> DEFINE Inv == ScheduleInv /\ CountInv /\ RestartBound /\ ReplyBound /\ RestartLoss
<1>1. Init => Inv
  BY InitScheduleInv, InitCount, InitLoss
<1>2. Inv /\ [QuickNext]_vars => Inv'
  BY NextScheduleInv, NextCount, NextRestartBound, NextReplyBound, NextLoss DEF ScheduleInv
<1>3. Inv => RestartSound
  BY DEF ScheduleInv, OwnInv, RestartSound
<1>4. QED
  BY <1>1, <1>2, <1>3, PTL DEF QuickSpec


-----------------------------------------------------------------------------
(***************************************************************************)
(* The supply of a training in which nothing fails.  Floor is the step     *)
(* that is still to be sampled.  A step is reserved once, by the batch     *)
(* that supplies it, and never a step that was sampled: when N groups of a *)
(* step were sampled they were all those of its batch, so nothing and      *)
(* nobody is left that would bring another group for it.                   *)
(***************************************************************************)
Floor == IF trainer \in {"train", "drain", "refit"} THEN weightVersion + 1 ELSE weightVersion
Carrying == {g \in Groups : work[g] \in {"gen", "push"}}

InTime ==
  /\ \A e \in pool : e.version \in Nat /\ e.target <= lastTarget /\ Floor <= e.target
  /\ \A g \in Carrying : Floor <= goal[g]
  /\ loop \in Starting => Floor <= target
  /\ initialVersion < Floor => Floor <= lastTarget + 1

Reserved ==
  loop # "stopped" =>
    /\ \A g \in Carrying : goal[g] \in Taken
    /\ loop \in Starting => target \in Taken
    /\ Failed = {}

OneBatch ==
  /\ loop \in Starting =>
       /\ \A e \in pool : e.target = target => e.id[1] = pos
       /\ \A g \in Carrying : goal[g] = target => g[1] = pos
  /\ \A e, f \in pool : e.target = f.target => e.id[1] = f.id[1]
  /\ \A g, h \in Carrying : goal[g] = goal[h] => g[1] = h[1]
  /\ \A e \in pool, g \in Carrying : e.target = goal[g] => e.id[1] = g[1]

SupplyInv == InTime /\ Reserved /\ OneBatch

LEMMA SupplyTypes ==
  ASSUME TypeInv
  PROVE  /\ Floor \in Nat /\ weightVersion \in Nat /\ weightVersion <= Floor
         /\ lastTarget \in Int /\ initialVersion \in Nat /\ generating \subseteq Nat
         /\ goal \in [Groups -> Nat] /\ version \in [Groups -> Nat] /\ work \in [Groups -> WorkStates]
         /\ pos \in Nat /\ (loop \in Starting => target \in Nat)
         /\ \A e \in pool : e.id \in Groups /\ e.target \in Int /\ e.version \in Int
<1>1. weightVersion \in Nat
  BY Typed
<1>2. Floor \in Nat /\ weightVersion <= Floor
  BY <1>1 DEF Floor
<1>3. \A e \in pool : e.id \in Groups /\ e.target \in Int /\ e.version \in Int
  BY DEF TypeInv, TypeOK, PoolTypeOK, Entry
<1>4. pos \in Nat /\ (loop \in Starting => target \in Nat)
  BY DEF TypeInv, TypeOK, CollectorTypeOK, LoopTypeOK, LoopShape
<1>5. QED
  BY <1>1, <1>2, <1>3, <1>4, GroupTypes, TargetsTyped

LEMMA InitSupply == Init => SupplyInv
<1> SUFFICES ASSUME Init PROVE SupplyInv
  OBVIOUS
<1>1. /\ pool = {} /\ loop = "unstarted" /\ trainer = "setup" /\ weightVersion = 0 /\ initialVersion = 0
      /\ \A g \in Groups : work[g] = "none"
  BY DEF Init, PoolInit, CollectorStart
<1>2. Floor = 0 /\ Carrying = {} /\ Failed = {}
  BY <1>1 DEF Floor, Carrying, Failed
<1>3. QED
  BY <1>1, <1>2 DEF SupplyInv, InTime, Reserved, OneBatch, Starting

(* What the collection thread is starting.                                 *)
LEMMA LoopStarting ==
  ASSUME ReadInv, LoopStep
  PROVE  /\ UNCHANGED pool
         /\ loop' \in Starting =>
              \/ loop \in Starting /\ UNCHANGED <<target, pos, generating>>
              \/ /\ loop = "reserve" /\ UNCHANGED pos
                 /\ \E t \in Fresh \ generating : generating' = generating \cup {t} /\ target' = t
<1>1. UNCHANGED pool
  BY DEF LoopStep, poolVars
<1> USE DEF Starting, sharedVars
<1>2. CASE Fetch \/ WaitManualPause \/ WaitRefitPause \/ LimitRead \/ LimitCheck \/ LimitWarn \/ LimitClear
           \/ LimitWait \/ BatchRead \/ DropBatch
  BY <1>1, <1>2 DEF Fetch, WaitManualPause, WaitRefitPause, LimitRead, LimitCheck, LimitWarn, LimitClear,
     LimitWait, BatchRead, DropBatch, BatchDone, Goto
<1>3. CASE Reserve
  BY <1>1, <1>3 DEF Reserve, ReadInv, OpenTargets
<1>4. CASE PromptCheck \/ PromptWait \/ Acquire
  BY <1>1, <1>4 DEF PromptCheck, PromptWait, Acquire, Goto, localVars
<1>5. CASE StartWorker
  BY <1>1, <1>5 DEF StartWorker, BatchDone
<1>6. QED
  BY <1>2, <1>3, <1>4, <1>5 DEF LoopStep

LEMMA LoopSupply ==
  ASSUME TypeInv, TypeInv', NotStarted, ReadInv, ReleaseInv, SupplyInv, LoopStep, UNCHANGED trainerVars
  PROVE  SupplyInv'
<1>1. /\ UNCHANGED <<pool, initialVersion, lastTarget, trainer, weightVersion>> /\ generating \subseteq generating'
      /\ loop \notin {"unstarted", "stopped"}
  BY LoopStarting, LoopCounts DEF trainerVars
<1>2. Floor' = Floor /\ Taken \subseteq Taken'
  BY <1>1 DEF Floor, Taken
<1>3. \A g \in Carrying' :
        \/ g \in Carrying /\ goal'[g] = goal[g]
        \/ loop = "start" /\ g = <<pos, prompt>> /\ goal'[g] = target
  <2> SUFFICES ASSUME NEW g \in Groups, work'[g] \in {"gen", "push"}
               PROVE  \/ g \in Carrying /\ goal'[g] = goal[g]
                      \/ loop = "start" /\ g = <<pos, prompt>> /\ goal'[g] = target
    BY DEF Carrying
  <2>1. CASE work'[g] = work[g]
    <3>1. goal'[g] = goal[g]
      BY <2>1, LoopCounts
    <3>2. QED
      BY <2>1, <3>1 DEF Carrying
  <2>2. CASE work'[g] # work[g]
    BY <2>2, LoopCounts
  <2>3. QED
    BY <2>1, <2>2
<1>4. "start" \in Starting
  BY DEF Starting
<1>5. ASSUME NEW t \in Fresh \ generating, loop = "reserve"
      PROVE  /\ Floor <= t /\ t \notin Taken
             /\ \A e \in pool : e.target # t
             /\ \A g \in Carrying : goal[g] # t
  <2>1. t \in Nat /\ currentVersion <= t /\ lastTarget < t /\ currentVersion \in Nat
    BY <1>5, TargetsTyped
  <2>2. t \notin Taken
    BY <1>5, <2>1, SupplyTypes DEF Taken
  <2>3. Floor <= t
    <3>1. CASE initialVersion < Floor
      BY <2>1, <3>1, SupplyTypes DEF SupplyInv, InTime
    <3>2. CASE ~(initialVersion < Floor)
      BY <2>1, <3>2, SupplyTypes DEF ReleaseInv
    <3>3. QED
      BY <3>1, <3>2
  <2>4. \A e \in pool : e.target # t
    BY <2>1, SupplyTypes DEF SupplyInv, InTime
  <2>5. \A g \in Carrying : goal[g] # t
    BY <1>5, <2>2 DEF SupplyInv, Reserved
  <2>6. QED
    BY <2>2, <2>3, <2>4, <2>5
<1>6. loop' \in Starting =>
        \/ loop \in Starting /\ target' = target /\ pos' = pos
        \/ loop = "reserve" /\ pos' = pos /\ target' \in Fresh \ generating /\ target' \in generating'
  BY LoopStarting
<1>7. InTime'
  <2>1. \A g \in Carrying' : Floor <= goal'[g]
    BY <1>3, <1>4 DEF SupplyInv, InTime
  <2>2. loop' \in Starting => Floor <= target'
    BY <1>5, <1>6 DEF SupplyInv, InTime
  <2>3. QED
    BY <1>1, <1>2, <2>1, <2>2 DEF SupplyInv, InTime
<1>8. Reserved'
  <2>1. \A g \in Carrying' : goal'[g] \in Taken'
    BY <1>1, <1>2, <1>3, <1>4 DEF SupplyInv, Reserved
  <2>2. loop' \in Starting => target' \in Taken'
    <3>1. CASE loop \in Starting /\ target' = target
      BY <1>1, <1>2, <3>1 DEF SupplyInv, Reserved
    <3>2. CASE target' \in generating'
      BY <3>2 DEF Taken
    <3>3. QED
      BY <1>6, <3>1, <3>2
  <2>3. Failed' = {}
    <3> SUFFICES ASSUME NEW g \in Groups, work'[g] = "cleanup", goal'[g] > lastTarget' PROVE FALSE
      BY DEF Failed
    <3>1. work[g] = "cleanup" /\ goal[g] > lastTarget
      BY <1>1, LoopCounts
    <3>2. QED
      BY <1>1, <3>1 DEF SupplyInv, Reserved, Failed
  <2>4. QED
    BY <2>1, <2>2, <2>3 DEF Reserved
<1>9. OneBatch'
  <2>1. ASSUME loop' \in Starting
        PROVE  /\ \A e \in pool : e.target = target' => e.id[1] = pos'
               /\ \A g \in Carrying' : goal'[g] = target' => g[1] = pos'
    <3>1. CASE loop \in Starting /\ target' = target /\ pos' = pos
      BY <1>3, <3>1 DEF SupplyInv, OneBatch
    <3>2. CASE loop = "reserve" /\ target' \in Fresh \ generating
      BY <1>3, <1>5, <3>2
    <3>3. QED
      BY <1>6, <2>1, <3>1, <3>2
  <2>2. \A g, h \in Carrying' : goal'[g] = goal'[h] => g[1] = h[1]
    BY <1>3, <1>4 DEF SupplyInv, OneBatch
  <2>3. \A e \in pool, g \in Carrying' : e.target = goal'[g] => e.id[1] = g[1]
    BY <1>3, <1>4 DEF SupplyInv, OneBatch
  <2>4. QED
    BY <1>1, <2>1, <2>2, <2>3 DEF SupplyInv, OneBatch
<1>10. QED
  BY <1>7, <1>8, <1>9 DEF SupplyInv


LEMMA WorkerSupply ==
  ASSUME TypeInv, TypeInv', ReleaseInv, SupplyInv, NEW g \in Groups, WorkerStep(g), UNCHANGED trainerVars,
         failures' = 0, failures = 0
  PROVE  SupplyInv'
<1>1. /\ UNCHANGED <<initialVersion, loop, pos, running, target, trainer, weightVersion>>
      /\ lastTarget <= lastTarget' /\ generating' \subseteq generating
      /\ \A h \in Groups : h # g => work'[h] = work[h] /\ goal'[h] = goal[h]
  BY WorkerCounts DEF WorkerStep, localVars, trainerVars
<1>2. Floor' = Floor
  BY <1>1 DEF Floor
<1>3. /\ lastTarget \in Int /\ lastTarget' \in Int /\ goal \in [Groups -> Nat] /\ generating \subseteq Nat
      /\ version \in [Groups -> Nat] /\ initialVersion \in Nat /\ Floor \in Nat
      /\ \A e \in pool : e.target \in Int
  BY SupplyTypes DEF TypeInv, TypeOK, PoolTypeOK
<1>4. work[g] \in Alive
  BY WorkerGroups
<1>5. loop # "stopped" => running
  BY <1>4 DEF ReleaseInv
<1>6. \A h \in Carrying' : h \in Carrying /\ goal'[h] = goal[h]
  <2> SUFFICES ASSUME NEW h \in Groups, work'[h] \in {"gen", "push"} PROVE h \in Carrying /\ goal'[h] = goal[h]
    BY DEF Carrying
  <2>1. CASE h # g
    BY <1>1, <2>1 DEF Carrying
  <2>2. CASE h = g
    BY <2>2, WorkerCounts DEF Carrying
  <2>3. QED
    BY <2>1, <2>2
<1>7. /\ \A e \in pool' : e \in pool \/ (g \in Carrying /\ e.id = g /\ e.target = goal[g]
                                         /\ e.version = version[g] /\ goal[g] <= lastTarget' /\ g \notin Carrying')
  <2>1. CASE UNCHANGED pool
    BY <2>1
  <2>2. CASE ~UNCHANGED pool
    <3>1. /\ work[g] \in {"gen", "push"} /\ work'[g] \in {"unreserve", "cleanup"} /\ goal[g] <= lastTarget'
          /\ pool' = pool \cup {[id |-> g, version |-> version[g], target |-> goal[g]]}
      BY <2>2, WorkerCounts
    <3>2. QED
      BY <3>1 DEF Carrying
  <2>3. QED
    BY <2>1, <2>2
<1>8. loop # "stopped" => Failed' = {} /\ Taken \subseteq Taken'
  <2> SUFFICES ASSUME loop # "stopped" PROVE Failed' = {} /\ Taken \subseteq Taken'
    OBVIOUS
  <2>1. Failed = {} /\ running
    BY <1>5 DEF SupplyInv, Reserved
  <2>2. \/ /\ work[g] \in {"gen", "push"} /\ goal'[g] <= lastTarget' /\ UNCHANGED generating
        \/ /\ work'[g] # "cleanup" /\ UNCHANGED generating
        \/ /\ work[g] = "unreserve" /\ goal'[g] = goal[g] /\ generating' = generating \ {goal[g]}
           /\ UNCHANGED lastTarget
        \/ /\ work[g] = "cleanup" /\ work'[g] = "release" /\ generating' = generating \ {goal[g]}
           /\ UNCHANGED lastTarget
    <3>1. ~(failures' = failures + 1)
      OBVIOUS
    <3>2. QED
      BY <2>1, <3>1, WorkerCounts
  <2>3. goal[g] <= lastTarget \/ UNCHANGED generating
    <3>1. CASE work[g] = "unreserve"
      BY <3>1 DEF ReleaseInv
    <3>2. CASE work[g] = "cleanup"
      BY <1>3, <2>1, <3>2 DEF Failed
    <3>3. QED
      BY <2>2, <3>1, <3>2
  <2>4. goal'[g] <= lastTarget' \/ work'[g] # "cleanup"
    BY <1>3, <2>2, <2>3 DEF ReleaseInv
  <2>5. Failed' = {}
    <3> SUFFICES ASSUME NEW h \in Groups, work'[h] = "cleanup", goal'[h] > lastTarget' PROVE FALSE
      BY DEF Failed
    <3>1. CASE h = g
      <4>1. goal'[g] \in Nat
        BY DEF TypeInv, TypeOK, CollectorTypeOK, GroupTypeOK
      <4>2. QED
        BY <1>3, <2>4, <3>1, <4>1
    <3>2. CASE h # g
      <4>1. work[h] = "cleanup" /\ goal[h] > lastTarget' /\ goal[h] \in Nat
        BY <1>1, <1>3, <3>2
      <4>2. goal[h] > lastTarget
        BY <1>1, <1>3, <4>1
      <4>3. QED
        BY <2>1, <4>1, <4>2 DEF Failed
    <3>3. QED
      BY <3>1, <3>2
  <2>6. Taken \subseteq Taken'
    <3> SUFFICES ASSUME NEW t \in Taken PROVE t \in Taken'
      OBVIOUS
    <3>1. CASE t \in initialVersion .. lastTarget
      BY <1>1, <1>3, <3>1 DEF Taken
    <3>2. CASE t \in generating /\ t \notin generating'
      <4>1. t = goal[g] /\ t <= lastTarget /\ initialVersion <= t /\ t \in Nat
        BY <1>3, <2>2, <2>3, <3>2 DEF ReleaseInv
      <4>2. t \in initialVersion .. lastTarget
        BY <1>3, <4>1
      <4>3. QED
        BY <1>1, <1>3, <4>2 DEF Taken
    <3>3. CASE t \in generating'
      BY <3>3 DEF Taken
    <3>4. QED
      BY <3>1, <3>2, <3>3 DEF Taken
  <2>7. QED
    BY <2>5, <2>6
<1>9. InTime'
  <2>1. ASSUME NEW e \in pool'
        PROVE  e.version \in Nat /\ e.target <= lastTarget' /\ Floor <= e.target
    <3>1. CASE e \in pool
      <4>1. e.version \in Nat /\ e.target <= lastTarget /\ Floor <= e.target /\ e.target \in Int
        BY <1>3, <3>1 DEF SupplyInv, InTime
      <4>2. QED
        BY <1>1, <1>3, <4>1
    <3>2. CASE e \notin pool
      BY <1>3, <1>7, <3>2 DEF SupplyInv, InTime
    <3>3. QED
      BY <3>1, <3>2
  <2>2. \A h \in Carrying' : Floor <= goal'[h]
    BY <1>6 DEF SupplyInv, InTime
  <2>3. initialVersion < Floor => Floor <= lastTarget' + 1
    <3>1. initialVersion < Floor => Floor <= lastTarget + 1
      BY DEF SupplyInv, InTime
    <3>2. \A f \in Nat, l, m \in Int : f <= l + 1 /\ l <= m => f <= m + 1
      OBVIOUS
    <3>3. QED
      BY <1>1, <1>3, <3>1, <3>2
  <2>4. QED
    BY <1>1, <1>2, <2>1, <2>2, <2>3 DEF SupplyInv, InTime
<1>10. Reserved'
  BY <1>1, <1>6, <1>8 DEF SupplyInv, Reserved
<1>11. OneBatch'
  <2>1. loop \in Starting =>
          /\ \A e \in pool' : e.target = target => e.id[1] = pos
          /\ \A h \in Carrying' : goal'[h] = target => h[1] = pos
    BY <1>6, <1>7 DEF SupplyInv, OneBatch
  <2>2. \A e, f \in pool' : e.target = f.target => e.id[1] = f.id[1]
    BY <1>7 DEF SupplyInv, OneBatch
  <2>3. \A h, k \in Carrying' : goal'[h] = goal'[k] => h[1] = k[1]
    BY <1>6 DEF SupplyInv, OneBatch
  <2>4. \A e \in pool', h \in Carrying' : e.target = goal'[h] => e.id[1] = h[1]
    BY <1>6, <1>7 DEF SupplyInv, OneBatch
  <2>5. QED
    BY <1>1, <2>1, <2>2, <2>3, <2>4 DEF OneBatch
<1>12. QED
  BY <1>9, <1>10, <1>11 DEF SupplyInv

LEMMA ActorSupply ==
  ASSUME SupplyInv, TypeInv, ActorStep, UNCHANGED trainerVars
  PROVE  SupplyInv'
<1>1. /\ UNCHANGED <<initialVersion, pos, generating, lastTarget, pool, work, goal, target, trainer, weightVersion>>
      /\ UNCHANGED loop \/ (loop = "unstarted" /\ loop' = "fetch")
  BY ActorCounts DEF trainerVars
<1>2. Floor' = Floor /\ Carrying' = Carrying /\ Failed' = Failed /\ Taken' = Taken
  BY <1>1 DEF Floor, Carrying, Failed, Taken
<1>3. loop' \in Starting => loop \in Starting
  BY <1>1 DEF Starting
<1>4. InTime' /\ OneBatch'
  BY <1>1, <1>2, <1>3 DEF SupplyInv, InTime, OneBatch
<1>5. Reserved'
  BY <1>1, <1>2, <1>3 DEF SupplyInv, Reserved
<1>6. QED
  BY <1>4, <1>5 DEF SupplyInv

(* The sample of a step takes the whole batch that was reserved for it.    *)
LEMMA WholeBatch ==
  ASSUME TypeInv, OwnInv, SupplyInv, NEW S, S \subseteq pool, Cardinality(S) = NumPrompts,
         NEW t, \A e \in S : e.target = t
  PROVE  \E e \in S : \A g \in Groups : g[1] = e.id[1] => \E f \in S : f.id = g
<1> DEFINE names == {e.id : e \in S}
<1>1. IsFiniteSet(S)
  BY FS_Subset DEF OwnInv
<1>2. S # {}
  <2>1. Cardinality({}) = 0
    BY FS_EmptySet
  <2>2. QED
    BY <2>1
<1>3. PICK e \in S : TRUE
  BY <1>2
<1> DEFINE b == e.id[1]
           batch == {b} \X (0 .. NumPrompts - 1)
<1>4. names \subseteq batch
  <2> SUFFICES ASSUME NEW f \in S PROVE f.id \in batch
    OBVIOUS
  <2>1. f \in pool /\ e \in pool /\ f.target = e.target
    BY <1>3
  <2>2. f.id \in Groups /\ f.id[1] = b
    BY <2>1, SupplyTypes DEF SupplyInv, OneBatch
  <2>3. QED
    BY <2>2 DEF Groups
<1>5. IsFiniteSet(batch) /\ Cardinality(batch) = NumPrompts
  <2>1. /\ IsFiniteSet(0 .. NumPrompts - 1)
        /\ Cardinality(0 .. NumPrompts - 1) = IF 0 > NumPrompts - 1 THEN 0 ELSE NumPrompts - 1 - 0 + 1
    BY FS_Interval
  <2>2. Cardinality(0 .. NumPrompts - 1) = NumPrompts
    BY <2>1
  <2>3. IsFiniteSet({b}) /\ Cardinality({b}) = 1
    BY FS_Singleton
  <2>4. \A A, B : IsFiniteSet(A) /\ IsFiniteSet(B) =>
          IsFiniteSet(A \X B) /\ Cardinality(A \X B) = Cardinality(A) * Cardinality(B)
    BY FS_Product
  <2>5. IsFiniteSet(batch) /\ Cardinality(batch) = Cardinality({b}) * Cardinality(0 .. NumPrompts - 1)
    BY <2>1, <2>3, <2>4
  <2>6. QED
    BY <2>2, <2>3, <2>5
<1>6. Cardinality(names) = NumPrompts
  BY <1>1, NamesCounted DEF OwnInv
<1>7. names = batch
  <2> HIDE DEF names, batch
  <2> QED
    BY <1>4, <1>5, <1>6, FS_Subset
<1>8. ASSUME NEW g \in Groups, g[1] = b PROVE \E f \in S : f.id = g
  <2>1. g \in batch
    BY <1>8 DEF Groups
  <2>2. g \in names
    BY <1>7, <2>1
  <2>3. QED
    BY <2>2
<1>9. QED
  BY <1>8

LEMMA SampledSupply ==
  ASSUME TypeInv, NotStarted, OwnInv, SupplyInv, TrainerStep, Sampled
  PROVE  SupplyInv'
<1>1. /\ UNCHANGED <<initialVersion, pos, generating, lastTarget, work, goal, target, loop, weightVersion>>
      /\ trainer = "sample" /\ trainer' = "train"
  BY TrainerCounts DEF Sampled
<1>2. PICK S \in SUBSET Intended(weightVersion, MaxAge) :
        S \subseteq pool /\ Cardinality(S) = NumPrompts /\ pool' = pool \ S /\ \A e \in S : e.target = weightVersion
  BY DEF Sampled, PoolTake, Intended
<1>3. PICK e \in S : \A g \in Groups : g[1] = e.id[1] => \E f \in S : f.id = g
  BY <1>2, WholeBatch
<1>4. e \in pool /\ e.target = weightVersion
  BY <1>2
<1>5. Floor = weightVersion /\ Floor' = weightVersion + 1 /\ weightVersion \in Nat
  BY <1>1, SupplyTypes DEF Floor
<1>6. \A f \in pool' : f.target # weightVersion
  <2> SUFFICES ASSUME NEW f \in pool', f.target = weightVersion PROVE FALSE
    OBVIOUS
  <2>1. f \in pool /\ f \notin S
    BY <1>2
  <2>2. f.id \in Groups /\ f.id[1] = e.id[1]
    BY <1>4, <2>1, SupplyTypes DEF SupplyInv, OneBatch
  <2>3. PICK h \in S : h.id = f.id
    BY <1>3, <2>2
  <2>4. h = f
    BY <1>2, <2>1, <2>3 DEF OwnInv
  <2>5. QED
    BY <2>1, <2>4
<1>7. \A g \in Carrying : goal[g] # weightVersion
  <2> SUFFICES ASSUME NEW g \in Carrying, goal[g] = weightVersion PROVE FALSE
    OBVIOUS
  <2>1. g \in Groups /\ g[1] = e.id[1] /\ work[g] \in {"gen", "push"}
    BY <1>4 DEF SupplyInv, OneBatch, Carrying
  <2>2. PICK h \in S : h.id = g
    BY <1>3, <2>1
  <2>3. work[g] \in Past
    BY <1>2, <2>2 DEF OwnInv
  <2>4. QED
    BY <2>1, <2>3 DEF Past
<1>8. loop \in Starting => target # weightVersion
  <2> SUFFICES ASSUME loop \in Starting, target = weightVersion PROVE FALSE
    OBVIOUS
  <2>1. e.id[1] = pos
    BY <1>4 DEF SupplyInv, OneBatch
  <2> DEFINE g == <<pos, prompt>>
  <2>2. g \in Groups /\ g[1] = pos /\ g[2] = prompt /\ prompt \in Nat /\ pos \in Nat
    BY DEF TypeInv, TypeOK, CollectorTypeOK, LoopTypeOK, LoopShape, Between, Starting, Groups
  <2>3. work[g] = "none"
    BY <2>2 DEF NotStarted, Ahead, Between, Starting
  <2> HIDE DEF g
  <2>4. PICK h \in S : h.id = g
    BY <1>3, <2>1, <2>2
  <2>5. work[g] \in Past
    BY <1>2, <2>4 DEF OwnInv
  <2>6. QED
    BY <2>3, <2>5 DEF Past
<1>9. Carrying' = Carrying /\ Failed' = Failed /\ Taken' = Taken
  BY <1>1 DEF Carrying, Failed, Taken
<1>10. InTime'
  <2>1. \A x \in Int : weightVersion <= x /\ x # weightVersion => weightVersion + 1 <= x
    BY <1>5
  <2>2. \A f \in pool' : f.version \in Nat /\ f.target <= lastTarget /\ weightVersion + 1 <= f.target
    <3> SUFFICES ASSUME NEW f \in pool'
                 PROVE  f.version \in Nat /\ f.target <= lastTarget /\ weightVersion + 1 <= f.target
      OBVIOUS
    <3>1. f \in pool /\ f.target \in Int
      BY <1>2, SupplyTypes
    <3>2. QED
      BY <1>5, <1>6, <2>1, <3>1 DEF SupplyInv, InTime
  <2>3. \A g \in Carrying : weightVersion + 1 <= goal[g]
    <3> SUFFICES ASSUME NEW g \in Carrying PROVE weightVersion + 1 <= goal[g]
      OBVIOUS
    <3>1. goal[g] \in Nat
      BY SupplyTypes DEF Carrying
    <3>2. QED
      BY <1>5, <1>7, <2>1, <3>1 DEF SupplyInv, InTime
  <2>4. loop \in Starting => weightVersion + 1 <= target
    BY <1>5, <1>8, <2>1, SupplyTypes DEF SupplyInv, InTime
  <2>5. weightVersion + 1 <= lastTarget + 1
    <3>1. e.target <= lastTarget /\ lastTarget \in Int
      BY <1>4, SupplyTypes DEF SupplyInv, InTime
    <3>2. QED
      BY <1>4, <1>5, <3>1
  <2>6. QED
    BY <1>1, <1>5, <1>9, <2>2, <2>3, <2>4, <2>5 DEF InTime
<1>11. Reserved'
  BY <1>1, <1>9 DEF SupplyInv, Reserved
<1>12. OneBatch'
  BY <1>1, <1>2, <1>9 DEF SupplyInv, OneBatch
<1>13. QED
  BY <1>10, <1>11, <1>12 DEF SupplyInv

LEMMA TrainerSupply ==
  ASSUME TypeInv, NotStarted, OwnInv, SupplyInv, TrainerStep, failures = 0, failures' = 0
  PROVE  SupplyInv'
<1>1. /\ UNCHANGED <<initialVersion, pos, generating, lastTarget, work, goal, target, loop>>
      /\ weightVersion \in Nat
  BY TrainerCounts, SupplyTypes
<1>2. CASE Sampled
  BY <1>2, SampledSupply
<1>3. CASE ~Sampled
  <2>1. ~TrainerFails
    BY DEF TrainerFails
  <2>2. UNCHANGED pool
    BY <1>3, <2>1 DEF TrainerStep, poolVars, InitialRefit, ValidateAtStart, BufferFilled, FillWaits, SampleWaits, PoolWait,
       SampleRejects, PoolReject, Train, Prepared, Refit, Validate, NextStep, AskDataloaderState, SaveCheckpoint
  <2>3. \/ trainer \in {"train", "drain"} /\ trainer' \in {"drain", "refit"} /\ UNCHANGED weightVersion
        \/ /\ trainer = "refit" /\ weightVersion' = weightVersion + 1 /\ trainer' \notin {"train", "drain", "refit"}
        \/ /\ trainer \notin {"train", "drain", "refit"} /\ UNCHANGED weightVersion
           /\ trainer' \notin {"train", "drain", "refit"}
    BY <1>3, <2>1 DEF TrainerStep, InitialRefit, ValidateAtStart, BufferFilled, FillWaits, SampleWaits,
       SampleRejects, Train, Prepared, Refit, Validate, NextStep, AskDataloaderState, SaveCheckpoint, AfterFill
  <2>4. Floor' = Floor
    BY <1>1, <2>3 DEF Floor
  <2>5. Carrying' = Carrying /\ Failed' = Failed /\ Taken' = Taken
    BY <1>1 DEF Carrying, Failed, Taken
  <2>6. InTime'
    BY <1>1, <2>2, <2>4, <2>5 DEF SupplyInv, InTime
  <2>7. Reserved'
    BY <1>1, <2>5 DEF SupplyInv, Reserved
  <2>8. OneBatch'
    BY <1>1, <2>2, <2>5 DEF SupplyInv, OneBatch
  <2>9. QED
    BY <2>6, <2>7, <2>8 DEF SupplyInv
<1>4. QED
  BY <1>2, <1>3

LEMMA RestartSupply ==
  ASSUME TypeInv, Restart
  PROVE  SupplyInv'
<1>1. /\ pool' = {} /\ loop' = "unstarted" /\ initialVersion' = saved.step /\ weightVersion' = saved.step
      /\ trainer' = "setup" /\ work' = [g \in Groups |-> AfterRestart(g)]
  BY DEF Restart, CollectorRestart
<1>2. \A g \in Groups : work'[g] \in {"none", "done", "lost"}
  BY <1>1 DEF AfterRestart
<1>3. Floor' = saved.step /\ Carrying' = {} /\ Failed' = {}
  BY <1>1, <1>2 DEF Floor, Carrying, Failed
<1>4. saved.step \in Nat
  BY RestartCalls
<1>5. InTime'
  BY <1>1, <1>3, <1>4 DEF InTime, Starting
<1>6. Reserved' /\ OneBatch'
  BY <1>1, <1>3 DEF Reserved, OneBatch, Starting
<1>7. QED
  BY <1>5, <1>6 DEF SupplyInv

LEMMA NextSupply ==
  ScheduleInv /\ (failures = 0 => SupplyInv) /\ [QuickNext]_vars => (failures' = 0 => SupplyInv')
<1> SUFFICES ASSUME ScheduleInv, failures = 0 => SupplyInv, [QuickNext]_vars, failures' = 0 PROVE SupplyInv'
  OBVIOUS
<1>1. /\ TypeInv /\ TypeInv' /\ NotStarted /\ ReadInv /\ ReleaseInv /\ OwnInv
      /\ failures \in Nat
  BY QuickIsNext, NextTyped DEF ScheduleInv, TypeInv, TypeOK, CollectorTypeOK, SharedTypeOK, LoopTypeOK, GroupTypeOK, ActorTypeOK
<1>2. failures = 0
  <2>1. CASE LoopStep
    BY <1>1, <2>1, LoopCounts
  <2>2. CASE \E g \in Groups : WorkerStep(g)
    BY <1>1, <2>2, WorkerCounts
  <2>3. CASE ActorStep
    BY <1>1, <2>3, ActorCounts
  <2>4. CASE TrainerStep
    BY <1>1, <2>4, TrainerCounts
  <2>5. CASE Restart
    BY <2>5 DEF Restart
  <2>6. CASE UNCHANGED vars
    BY <2>6 DEF vars, collectorVars, sharedVars
  <2>7. QED
    BY <2>1, <2>2, <2>3, <2>4, <2>5, <2>6, QuickWhen
<1>3. SupplyInv
  BY <1>2
<1>4. CASE LoopStep /\ UNCHANGED trainerVars
  BY <1>1, <1>3, <1>4, LoopSupply
<1>5. CASE (\E g \in Groups : WorkerStep(g)) /\ UNCHANGED trainerVars
  BY <1>1, <1>2, <1>3, <1>5, WorkerSupply
<1>6. CASE ActorStep /\ UNCHANGED trainerVars
  BY <1>1, <1>3, <1>6, ActorSupply
<1>7. CASE TrainerStep
  BY <1>1, <1>2, <1>3, <1>7, TrainerSupply
<1>8. CASE Restart
  BY <1>1, <1>8, RestartSupply
<1>9. CASE UNCHANGED vars
  <2>1. UNCHANGED <<initialVersion, pos, generating, lastTarget, pool, work, goal, target, loop, trainer, weightVersion>>
    BY <1>9 DEF vars, collectorVars, trainerVars, loopVars, localVars, sharedVars, groupVars, actorVars, poolVars
  <2>2. Floor' = Floor /\ Carrying' = Carrying /\ Failed' = Failed /\ Taken' = Taken
    BY <2>1 DEF Floor, Carrying, Failed, Taken
  <2>3. QED
    BY <1>3, <2>1, <2>2 DEF SupplyInv, InTime, Reserved, OneBatch
<1>10. QED
  BY <1>4, <1>5, <1>6, <1>7, <1>8, <1>9, QuickWhen

(* What the sample and the buffer's size need of it.                       *)
LEMMA NeverStaleIfSupplied ==
  ASSUME TypeInv, AgeInv, SupplyInv
  PROVE  NeverStale
<1> SUFFICES ASSUME NEW e \in pool, e.version < MinValidVersion(weightVersion, MaxAge) PROVE FALSE
  BY DEF NeverStale, Stale
<1>1. e.version \in Nat /\ Floor <= e.target /\ e.target \in Int /\ weightVersion <= Floor
      /\ Floor \in Nat /\ weightVersion \in Nat
  BY SupplyTypes DEF SupplyInv, InTime
<1>2. e.target <= e.version + MaxAge
  BY DEF AgeInv, AgeWindow
<1>3. weightVersion - MaxAge <= e.version
  BY <1>1, <1>2
<1>4. QED
  BY <1>1, <1>3 DEF MinValidVersion, Larger

LEMMA NeverFullIfSupplied ==
  ASSUME TypeInv, VersionInv, WarnInv, OwnInv, SupplyInv
  PROVE  NeverFull
<1> DEFINE window == weightVersion .. weightVersion + MaxAge
           prompts == 0 .. NumPrompts - 1
           places == window \X prompts
           place == [e \in pool |-> <<e.target, e.id[2]>>]
<1>1. \A e \in pool : e.target \in window /\ e.id \in Groups /\ e.id[2] \in prompts
  <2> SUFFICES ASSUME NEW e \in pool
               PROVE  e.target \in window /\ e.id \in Groups /\ e.id[2] \in prompts
    OBVIOUS
  <2>1. e.id \in Groups /\ e.id[2] \in prompts
    BY SupplyTypes DEF Groups
  <2>2. /\ Floor <= e.target /\ e.target <= lastTarget /\ e.target \in Int /\ lastTarget \in Int
        /\ weightVersion <= Floor /\ Floor \in Nat /\ weightVersion \in Nat
    BY SupplyTypes DEF SupplyInv, InTime
  <2>3. lastTarget <= currentVersion + MaxAge /\ currentVersion <= weightVersion /\ currentVersion \in Nat
    BY Typed DEF WarnInv, Reaches, VersionInv
  <2>4. QED
    BY <2>1, <2>2, <2>3
<1>2. place \in Injection(pool, places)
  <2>1. place \in [pool -> places]
    <3> HIDE DEF window, prompts
    <3> QED
      BY <1>1
  <2>2. ASSUME NEW e \in pool, NEW f \in pool, place[e] = place[f] PROVE e = f
    <3>1. e.target = f.target /\ e.id[2] = f.id[2]
      BY <2>2
    <3>2. e.id[1] = f.id[1]
      BY <3>1 DEF SupplyInv, OneBatch
    <3>3. e.id = f.id
      BY <1>1, <3>1, <3>2 DEF Groups
    <3>4. QED
      BY <3>3 DEF OwnInv
  <2>3. QED
    <3> HIDE DEF place, places
    <3> QED
      BY <2>1, <2>2, Fun_IsInj
<1>3. /\ IsFiniteSet(window) /\ Cardinality(window) = MaxAge + 1
      /\ IsFiniteSet(prompts) /\ Cardinality(prompts) = NumPrompts
  <2>1. weightVersion \in Nat /\ weightVersion + MaxAge \in Nat
    BY SupplyTypes
  <2>2. /\ IsFiniteSet(window)
        /\ Cardinality(window) = IF weightVersion > weightVersion + MaxAge THEN 0
                                 ELSE weightVersion + MaxAge - weightVersion + 1
    BY <2>1, FS_Interval
  <2>3. /\ IsFiniteSet(prompts)
        /\ Cardinality(prompts) = IF 0 > NumPrompts - 1 THEN 0 ELSE NumPrompts - 1 - 0 + 1
    BY FS_Interval
  <2>4. QED
    BY <2>1, <2>2, <2>3
<1>4. IsFiniteSet(places) /\ Cardinality(places) = (MaxAge + 1) * NumPrompts
  <2>1. \A A, B : IsFiniteSet(A) /\ IsFiniteSet(B) =>
          IsFiniteSet(A \X B) /\ Cardinality(A \X B) = Cardinality(A) * Cardinality(B)
    BY FS_Product
  <2> HIDE DEF window, prompts
  <2>2. QED
    BY <1>3, <2>1
<1>5. Cardinality(pool) <= Cardinality(places)
  <2> HIDE DEF place, places
  <2>1. IsFiniteSet(pool)
    BY DEF OwnInv
  <2>2. \A A, B : IsFiniteSet(B) /\ (\E f \in Injection(A, B) : TRUE) => Cardinality(A) <= Cardinality(B)
    BY FS_Injection DEF ExistsInjection
  <2>3. QED
    BY <1>2, <1>4, <2>2
<1>6. (MaxAge + 1) * NumPrompts = NumPrompts * (MaxAge + 1)
  <2>1. \A a, b \in Nat : a * b = b * a
    OBVIOUS
  <2>2. QED
    BY <2>1
<1>7. QED
  <2> HIDE DEF places
  <2> QED
    BY <1>4, <1>5, <1>6 DEF NeverFull

(* Where control takes no time and nothing fails, no sample ever meets a   *)
(* group outside its age window, the groups of a training step are all of  *)
(* one batch of prompts, and the buffer holds those of one age window at   *)
(* most: across restarts too, whatever the sizes and the age limit are.    *)
THEOREM SuppliedWhileNothingFails == QuickSpec => [](failures = 0 => SuppliedInTime)
<1> DEFINE Inv == ScheduleInv /\ AgeInv /\ (failures = 0 => SupplyInv)
<1>1. Init => Inv
  BY InitScheduleInv, InitAge, InitSupply
<1>2. Inv /\ [QuickNext]_vars => Inv'
  <2>1. ScheduleInv /\ AgeInv /\ [QuickNext]_vars => AgeInv'
    BY QuickIsNext, NextAge DEF ScheduleInv
  <2>2. QED
    BY <2>1, NextScheduleInv, NextSupply
<1>3. Inv => (failures = 0 => SuppliedInTime)
  <2> SUFFICES ASSUME ScheduleInv, AgeInv, SupplyInv PROVE SuppliedInTime
    OBVIOUS
  <2>1. NeverStale /\ NeverFull
    BY NeverStaleIfSupplied, NeverFullIfSupplied DEF ScheduleInv
  <2>2. OneBatchPerStep
    BY SupplyTypes DEF OneBatchPerStep, SupplyInv, OneBatch, Carrying, ScheduleInv
  <2>3. QED
    BY <2>1, <2>2 DEF SuppliedInTime
<1>4. QED
  BY <1>1, <1>2, <1>3, PTL DEF QuickSpec

=============================================================================
