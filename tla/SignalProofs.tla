----------------------------- MODULE SignalProofs -----------------------------
(***************************************************************************)
(* SpscQueue implements BoundedFifo, for every number of slots; and what   *)
(* follows from it, and from the ramp, for the signal generator.           *)
(***************************************************************************)
EXTENDS SignalGen, SequenceTheorems, TLAPS

(* What the two threads may rely on: the producer owns the slot at head    *)
(* while it pushes, the consumer the slot at tail while it pops.           *)
QueueInv ==
  /\ buffer \in [Slot -> Item]
  /\ head \in Slot /\ tail \in Slot
  /\ pushing \in Steps /\ popping \in Steps
  /\ item \in Item /\ popped \in Item
  /\ pushing # "idle" => ~IsFull
  /\ pushing = "publish" => buffer[head] = item
  /\ popping # "idle" => ~IsEmpty

LEMMA AfterSlot ==
  ASSUME NEW s \in Slot
  PROVE  After(s) = IF s + 1 = N THEN 0 ELSE s + 1
  BY QueueAssumption DEF After, Slot

LEMMA AfterInSlot ==
  ASSUME NEW s \in Slot
  PROVE  After(s) \in Slot /\ After(s) # s
  BY AfterSlot, QueueAssumption DEF Slot

LEMMA QueueInit_Inv == QueueInit => QueueInv
  BY QueueAssumption DEF QueueInit, QueueInv, Slot, Steps

LEMMA QueueNext_Inv == QueueInv /\ [QueueNext]_queueVars => QueueInv'
<1> SUFFICES ASSUME QueueInv, [QueueNext]_queueVars PROVE QueueInv'
  OBVIOUS
<1>0. After(head) \in Slot /\ After(tail) \in Slot
      /\ After(head) # head /\ After(tail) # tail
  BY AfterInSlot DEF QueueInv
<1>i. \A s, t \in Slot : After(s) = After(t) => s = t
  BY AfterSlot, QueueAssumption DEF Slot
<1>1. ASSUME NEW new \in Item, PushBegin(new) PROVE QueueInv'
  BY <1>1 DEF QueueInv, PushBegin, IsFull, IsEmpty, Steps, After, Slot
<1>2. CASE PushWrite
  BY <1>2 DEF QueueInv, PushWrite, IsFull, IsEmpty, Steps, After, Slot
<1>3. CASE PushPublish
  <2>1. popping # "idle" => tail # After(head)
    BY <1>3 DEF QueueInv, PushPublish, IsFull
  <2> QED BY <1>3, <2>1, <1>0 DEF QueueInv, PushPublish, IsFull, IsEmpty, Steps, Slot
<1>4. CASE PopBegin
  BY <1>4 DEF QueueInv, PopBegin, IsFull, IsEmpty, Steps, After, Slot
<1>5. CASE PopRead
  BY <1>5 DEF QueueInv, PopRead, IsFull, IsEmpty, Steps, After, Slot
<1>6. CASE PopPublish
  <2>1. pushing # "idle" => After(head) # After(tail)
    BY <1>6, <1>i DEF QueueInv, PopPublish, IsEmpty
  <2> QED BY <1>6, <2>1, <1>0 DEF QueueInv, PopPublish, IsFull, IsEmpty, Steps, After, Slot
<1>7. CASE UNCHANGED queueVars
  BY <1>7 DEF QueueInv, queueVars, IsFull, IsEmpty, Steps, After, Slot
<1> QED BY <1>1, <1>2, <1>3, <1>4, <1>5, <1>6, <1>7 DEF QueueNext

--------------------------------------------------------------------------------

LEMMA WaitingType ==
  ASSUME QueueInv
  PROVE  /\ From \in Slot /\ Used \in 0..(N - 1)
         /\ \A i \in 1..Used : At(i) \in Slot
         /\ Waiting \in Seq(Item) /\ Len(Waiting) = Used
<1>1. From \in Slot
  BY AfterInSlot DEF QueueInv, From
<1>2. Used \in 0..(N - 1)
  BY <1>1, QueueAssumption DEF Used, QueueInv, Slot
<1>3. \A i \in 1..Used : At(i) \in Slot
  BY <1>1, <1>2, QueueAssumption DEF At, Slot
<1>4. Waiting \in [1..Used -> Item]
  BY <1>3 DEF Waiting, QueueInv
<1> QED BY <1>1, <1>2, <1>3, <1>4

(* The slot at head is none of those that wait. *)
LEMMA HeadIsFree ==
  ASSUME QueueInv
  PROVE  \A i \in 1..Used : At(i) # head
BY WaitingType, QueueAssumption DEF QueueInv, Used, At, Slot

(* A step that moves neither end and writes no slot that waits. *)
LEMMA WaitingStays ==
  ASSUME QueueInv, head' = head, From' = From,
         \A s \in Slot : s # head => buffer'[s] = buffer[s]
  PROVE  Waiting' = Waiting
<1>1. Used' = Used /\ \A i \in 1..Used : At(i)' = At(i)
  BY DEF Used, At
<1>2. \A i \in 1..Used : buffer'[At(i)] = buffer[At(i)]
  BY WaitingType, HeadIsFree
<1> QED BY <1>1, <1>2 DEF Waiting

LEMMA PublishPuts ==
  ASSUME QueueInv, PushPublish
  PROVE  Fifo!Put
<1>1. From' = From /\ popped' = popped /\ buffer' = buffer
  BY DEF PushPublish, From, After
<1>2. head' = After(head) /\ After(head) # From
  BY AfterSlot, QueueAssumption DEF PushPublish, QueueInv, IsFull, IsEmpty, From, Slot
<1>3. Used' = Used + 1 /\ Used < N - 1
  <2>1. Used' = IF head' >= From THEN head' - From ELSE head' + N - From
    BY <1>1 DEF Used
  <2> QED BY <1>1, <2>1, <1>2, AfterSlot, WaitingType, QueueAssumption
          DEF Used, QueueInv, Slot
<1>4. \A i \in 1..(Used + 1) : At(i)' = At(i)
  BY <1>1 DEF At
<1>5. At(Used + 1) = head
  BY WaitingType, QueueAssumption DEF At, Used, QueueInv, Slot
<1>6. Waiting' = [i \in 1..(Used + 1) |-> buffer[At(i)]]
  BY <1>1, <1>3, <1>4 DEF Waiting
<1>7. buffer[head] = item /\ item \in Item
  BY DEF PushPublish, QueueInv
<1>8. Waiting' = Append(Waiting, item)
  <2>1. Waiting' \in Seq(Item) /\ Len(Waiting') = Used + 1
    <3>1. \A i \in 1..(Used + 1) : buffer[At(i)] \in Item
      BY <1>5, <1>7, WaitingType DEF QueueInv
    <3>2. Waiting' \in [1..(Used + 1) -> Item]
      BY <1>6, <3>1
    <3> QED BY <3>2, WaitingType
  <2>2. Append(Waiting, item) \in Seq(Item) /\ Len(Append(Waiting, item)) = Used + 1
    BY <1>7, WaitingType
  <2>3. \A i \in 1..(Used + 1) : Waiting'[i] = Append(Waiting, item)[i]
    <3> SUFFICES ASSUME NEW i \in 1..(Used + 1)
                 PROVE  Waiting'[i] = Append(Waiting, item)[i]
      OBVIOUS
    <3>1. CASE i = Used + 1
      <4>1. Used + 1 \in 1..(Used + 1)
        BY WaitingType
      <4>2. Waiting'[Used + 1] = item
        BY <4>1, <1>5, <1>6, <1>7
      <4>3. Append(Waiting, item)[Len(Waiting) + 1] = item
        BY <1>7, WaitingType
      <4> QED BY <3>1, <4>2, <4>3, WaitingType
    <3>2. CASE i # Used + 1
      <4>1. i \in 1..Used
        BY <3>2, WaitingType
      <4>2. Waiting'[i] = buffer[At(i)] /\ Waiting[i] = buffer[At(i)]
        <5>1. Waiting'[i] = buffer[At(i)]
          BY <1>6
        <5> QED BY <4>1, <5>1 DEF Waiting
      <4>3. Append(Waiting, item)[i] = Waiting[i]
        BY <4>1, <1>7, WaitingType
      <4> QED BY <4>2, <4>3
    <3> QED BY <3>1, <3>2
  <2> QED BY <2>1, <2>2, <2>3, SeqEqual
<1> QED BY <1>1, <1>3, <1>7, <1>8, WaitingType DEF Fifo!Put

LEMMA ReadTakes ==
  ASSUME QueueInv, PopRead
  PROVE  Fifo!Take
<1>1. head' = head /\ buffer' = buffer /\ From = tail /\ From' = After(tail)
      /\ popped' = buffer[tail] /\ tail # head
  BY DEF PopRead, From, After, QueueInv, IsEmpty
<1>2. Used' = Used - 1 /\ Used > 0
  <2>1. Used' = IF head >= After(tail) THEN head - After(tail)
                ELSE head + N - After(tail)
    BY <1>1 DEF Used
  <2>2. Used = IF head >= tail THEN head - tail ELSE head + N - tail
    BY <1>1 DEF Used
  <2> QED BY <1>1, <2>1, <2>2, AfterSlot, QueueAssumption DEF QueueInv, Slot
<1>3. \A i \in 1..(Used - 1) : At(i)' = At(i + 1)
  BY <1>1, AfterSlot, WaitingType, QueueAssumption DEF At, QueueInv, Slot
<1>4. At(1) = tail
  BY <1>1, QueueAssumption DEF At, QueueInv, Slot
<1>5. Waiting' = [i \in 1..(Used - 1) |-> buffer[At(i + 1)]]
  BY <1>1, <1>2, <1>3 DEF Waiting
<1>6. Waiting # << >>
  BY <1>2, WaitingType, EmptySeq
<1>8. Waiting' = Tail(Waiting)
  <2>1. Waiting' \in Seq(Item) /\ Len(Waiting') = Used - 1
    <3>1. \A i \in 1..(Used - 1) : buffer[At(i + 1)] \in Item
      BY <1>2, WaitingType DEF QueueInv
    <3>2. Waiting' \in [1..(Used - 1) -> Item]
      BY <1>5, <3>1
    <3> QED BY <1>2, <3>2, WaitingType
  <2>2. /\ Tail(Waiting) \in Seq(Item) /\ Len(Tail(Waiting)) = Used - 1
        /\ \A i \in 1..(Used - 1) : Tail(Waiting)[i] = Waiting[i + 1]
    BY <1>6, WaitingType, HeadTailProperties
  <2>3. \A i \in 1..(Used - 1) : Waiting'[i] = Tail(Waiting)[i]
    BY <1>5, <2>2, <1>2, WaitingType DEF Waiting
  <2> QED BY <2>1, <2>2, <2>3, SeqEqual
<1>9. Waiting # << >> /\ Head(Waiting) = buffer[tail]
  BY <1>2, <1>4, WaitingType DEF Waiting
<1> QED BY <1>1, <1>8, <1>9 DEF Fifo!Take

LEMMA QueueStep_Fifo ==
  ASSUME QueueInv, [QueueNext]_queueVars
  PROVE  [Fifo!Next]_(Fifo!fifo)
<1>1. ASSUME NEW new \in Item, PushBegin(new) PROVE UNCHANGED Fifo!fifo
  <2>1. head' = head /\ From' = From /\ buffer' = buffer /\ popped' = popped
    BY <1>1 DEF PushBegin, From, After
  <2> QED BY <2>1, WaitingStays DEF Fifo!fifo
<1>2. CASE PushWrite
  <2>1. head' = head /\ From' = From /\ popped' = popped
    BY <1>2 DEF PushWrite, From, After
  <2>2. \A s \in Slot : s # head => buffer'[s] = buffer[s]
    BY <1>2 DEF PushWrite, QueueInv
  <2> QED BY <2>1, <2>2, WaitingStays DEF Fifo!fifo
<1>3. CASE PushPublish
  BY <1>3, PublishPuts DEF Fifo!Next
<1>4. CASE PopBegin
  <2>1. head' = head /\ From' = From /\ buffer' = buffer /\ popped' = popped
    BY <1>4 DEF PopBegin, From, After
  <2> QED BY <2>1, WaitingStays DEF Fifo!fifo
<1>5. CASE PopRead
  BY <1>5, ReadTakes DEF Fifo!Next
<1>6. CASE PopPublish
  <2>1. head' = head /\ From' = From /\ buffer' = buffer /\ popped' = popped
    BY <1>6 DEF PopPublish, From, After
  <2> QED BY <2>1, WaitingStays DEF Fifo!fifo
<1>7. CASE UNCHANGED queueVars
  <2>1. head' = head /\ From' = From /\ buffer' = buffer /\ popped' = popped
    BY <1>7 DEF queueVars, From, After
  <2> QED BY <2>1, WaitingStays DEF Fifo!fifo
<1> QED BY <1>1, <1>2, <1>3, <1>4, <1>5, <1>6, <1>7 DEF QueueNext

LEMMA QueueInit_Fifo == QueueInit => Fifo!Init
<1> SUFFICES ASSUME QueueInit PROVE Fifo!Init
  OBVIOUS
<1>1. Used = 0
  BY QueueAssumption DEF QueueInit, Used, From
<1>2. Waiting = << >>
  BY <1>1 DEF Waiting
<1> QED BY <1>2, QueueInit_Inv DEF Fifo!Init, QueueInv

(* One thread that pushes and one that pops see a FIFO queue of N - 1      *)
(* items, at whatever step of push and pop they interleave.                *)
THEOREM QueueIsFifo == QueueSpec => Fifo!Spec
<1>1. QueueSpec => []QueueInv
  BY QueueInit_Inv, QueueNext_Inv, PTL DEF QueueSpec
<1>2. QueueInv /\ [QueueNext]_queueVars => [Fifo!Next]_(Fifo!fifo)
  BY QueueStep_Fifo
<1> QED BY <1>1, <1>2, QueueInit_Fifo, PTL DEF QueueSpec, Fifo!Spec

--------------------------------------------------------------------------------
(* The signal generator. *)

LEMMA SignalInit_Queue == SignalInit => QueueInit
  BY DEF SignalInit

LEMMA SignalNext_Queue == [SignalNext]_signalVars => [QueueNext]_queueVars
<1>1. ASSUME NEW cmd \in Item, Request(cmd) PROVE QueueNext
  BY <1>1 DEF Request, QueueNext
<1>2. CASE PushStep
  BY <1>2 DEF PushStep, QueueNext
<1>3. CASE Poll
  BY <1>3 DEF Poll
<1>4. CASE PopStep
  BY <1>4 DEF PopStep, QueueNext
<1>5. CASE ApplyCommand
  BY <1>5 DEF ApplyCommand, QueueNext
<1>6. CASE Process
  BY <1>6 DEF Process
<1>7. CASE UNCHANGED signalVars
  BY <1>7 DEF signalVars
<1> QED BY <1>1, <1>2, <1>3, <1>4, <1>5, <1>6, <1>7
        DEF SignalNext, RpcStep, RtStep

LEMMA SignalQueueInv == SignalSpec => []QueueInv
  BY SignalInit_Queue, SignalNext_Queue, QueueInit_Inv, QueueNext_Inv, PTL
     DEF SignalSpec

(* Acknowledged commands are applied once, in their order, for every       *)
(* capacity and every set of commands.                                     *)
THEOREM SignalCommandsInOrder == SignalSpec => CommandsInOrder
<1>1. QueueInv /\ [SignalNext]_signalVars => [Fifo!Next]_(Fifo!fifo)
  BY SignalNext_Queue, QueueStep_Fifo
<1> QED BY <1>1, SignalQueueInv, SignalInit_Queue, QueueInit_Fifo, PTL
        DEF SignalSpec, CommandsInOrder, Fifo!Spec

LEMMA CommandFields ==
  ASSUME NEW cmd \in Item
  PROVE  /\ cmd.kind = "play" => /\ cmd.signal \in Signal /\ cmd.level \in Levels
                                 /\ cmd.burst \in Duration \union {None}
         /\ cmd.kind = "set_level" => cmd.level \in Levels
         /\ cmd.kind = "set_signal" => cmd.signal \in Signal
<1>1. cmd \in Command
  BY SignalAssumption
<1> QED BY <1>1 DEF Command

LEMMA GeneratorType ==
  ASSUME NEW signal \in Signal, NEW frames \in Nat
  PROVE  Generator(signal, frames) \in [signal : Signal, left : Nat]
  BY DEF Generator

LEMMA FadeTypes ==
  ASSUME NEW from \in Levels \union {0}, NEW to \in Levels \union {0}
  PROVE  Fade(from, to) \in FadeType
  BY SignalAssumption DEF Fade, FadeType

LEMMA SignalInit_TypeOK == SignalInit => SignalTypeOK
<1> SUFFICES ASSUME SignalInit PROVE SignalTypeOK
  OBVIOUS
<1>1. generator \in [signal : Signal, left : Nat]
  BY GeneratorType DEF SignalInit, NoSignal, Signal
<1>2. fade \in FadeType
  BY SignalAssumption DEF SignalInit, FadeType
<1>3. << >> \in Seq(PlayState) /\ Len(<< >>) = 0
  BY EmptySeq
<1>4. stateQueue \in Seq(PlayState) /\ Len(stateQueue) <= StateSlots
  BY <1>3, SignalAssumption DEF SignalInit
<1>5. None \in Nat \union {None} /\ 0 \in 0..MaxRequests
  BY SignalAssumption
<1> QED BY <1>1, <1>2, <1>4, <1>5 DEF SignalInit, SignalTypeOK, PlayState

LEMMA Apply_TypeOK ==
  ASSUME SignalTypeOK, popped \in Item, ApplyCommand
  PROVE  SignalTypeOK'
<1>1. UNCHANGED <<out, stateQueue, latest, requests>>
  BY DEF ApplyCommand
<1>2. /\ playState' \in PlayState /\ generator' \in [signal : Signal, left : Nat]
      /\ channels' \in BOOLEAN /\ pendingStop' \in BOOLEAN
      /\ level' \in Levels \union {0} /\ fade' \in FadeType
      /\ burst' \in Nat \union {None}
  <2>1. CASE Play(popped)
    <3>1. popped.signal \in Signal /\ popped.level \in Levels
          /\ popped.burst \in Duration \union {None}
      BY <2>1, CommandFields DEF Play
    <3>2. generator' \in [signal : Signal, left : Nat]
      BY <2>1, <3>1, GeneratorType, SignalAssumption DEF Play
    <3>3. fade' \in FadeType
      BY <2>1, <3>1, FadeTypes DEF Play
    <3> QED BY <2>1, <3>1, <3>2, <3>3, SignalAssumption DEF Play, PlayState
  <2>2. CASE Stop(popped)
    BY <2>2, FadeTypes DEF Stop, SignalTypeOK, FadeOut
  <2>3. CASE SetLevel(popped)
    <3>1. popped.level \in Levels
      BY <2>3, CommandFields DEF SetLevel
    <3>2. fade' \in FadeType
      BY <2>3, <3>1, FadeTypes DEF SetLevel, SignalTypeOK
    <3> QED BY <2>3, <3>1, <3>2 DEF SetLevel, SignalTypeOK
  <2>4. CASE SetSignal(popped)
    <3>1. popped.signal \in Signal
      BY <2>4, CommandFields DEF SetSignal
    <3> QED BY <2>4, <3>1, GeneratorType, SignalAssumption DEF SetSignal, SignalTypeOK
  <2>5. CASE SetChannel(popped)
    BY <2>5 DEF SetChannel, SignalTypeOK
  <2> QED BY <2>1, <2>2, <2>3, <2>4, <2>5 DEF ApplyCommand
<1> QED BY <1>1, <1>2 DEF SignalTypeOK

LEMMA Left_InNat ==
  ASSUME NEW n \in Nat
  PROVE  Left(n) \in Nat /\ Left(n) <= n
  BY SignalAssumption DEF Left

LEMMA Process_TypeOK ==
  ASSUME SignalTypeOK, Process
  PROVE  SignalTypeOK'
<1>1. channels' = channels /\ level' = level /\ latest' = latest
      /\ requests' = requests
  BY DEF Process
<1>2. out' \in Levels \union {0}
  <2>1. \A gen : Sounding(gen) \in Levels \union {0}
    BY DEF Sounding, SignalTypeOK, FadeType
  <2> QED BY <2>1 DEF Process
<1>3. fade' \in FadeType
  <2>1. FadeOut \in FadeType
    BY FadeTypes DEF FadeOut, SignalTypeOK
  <2>2. [from |-> fade.from, to |-> fade.to, left |-> Left(fade.left)] \in FadeType
    BY Left_InNat, SignalAssumption DEF SignalTypeOK, FadeType
  <2> QED BY <2>1, <2>2 DEF Process
<1>4. generator' \in [signal : Signal, left : Nat]
  <2>1. NoSignal \in [signal : Signal, left : Nat]
    BY GeneratorType DEF NoSignal, Signal
  <2>2. \A gen \in [signal : Signal, left : Nat] :
          Generator(gen.signal, Left(gen.left)) \in [signal : Signal, left : Nat]
    BY GeneratorType, Left_InNat
  <2> QED BY <2>1, <2>2 DEF Process, SignalTypeOK
<1>5. burst' \in Nat \union {None}
  <2>1. \A stopped \in BOOLEAN : BurstLeft(stopped) \in Nat \union {None}
    BY SignalAssumption DEF BurstLeft, SignalTypeOK, None
  <2> QED BY <2>1 DEF Process, BurstLeft
<1>6. playState' \in PlayState /\ pendingStop' \in BOOLEAN
  BY DEF Process, SignalTypeOK, PlayState
<1>7. stateQueue' \in Seq(PlayState) /\ Len(stateQueue') <= StateSlots
  BY <1>6, SignalAssumption DEF Process, Pushed, SignalTypeOK
<1> QED BY <1>1, <1>2, <1>3, <1>4, <1>5, <1>6, <1>7 DEF SignalTypeOK

LEMMA SignalNext_TypeOK ==
  ASSUME SignalTypeOK, QueueInv, [SignalNext]_signalVars
  PROVE  SignalTypeOK'
<1>1. ASSUME NEW cmd \in Item, Request(cmd) PROVE SignalTypeOK'
  BY <1>1, SignalAssumption DEF Request, rt, SignalTypeOK
<1>2. CASE PushStep
  BY <1>2 DEF PushStep, rt, SignalTypeOK
<1>3. CASE Poll
  <2>1. latest' \in PlayState /\ stateQueue' \in Seq(PlayState)
        /\ Len(stateQueue') <= StateSlots
    BY <1>3, SignalAssumption, HeadTailProperties DEF Poll, SignalTypeOK
  <2> QED BY <1>3, <2>1 DEF Poll, SignalTypeOK
<1>4. CASE PopStep
  BY <1>4 DEF PopStep, rt, SignalTypeOK
<1>5. CASE ApplyCommand
  BY <1>5, Apply_TypeOK DEF QueueInv
<1>6. CASE Process
  BY <1>6, Process_TypeOK
<1>7. CASE UNCHANGED signalVars
  BY <1>7 DEF signalVars, rt, SignalTypeOK
<1> QED BY <1>1, <1>2, <1>3, <1>4, <1>5, <1>6, <1>7
        DEF SignalNext, RpcStep, RtStep

(* Whatever commands arrive, and at whatever step of the callback, the     *)
(* level, the fade and what sounds stay among the levels that validation   *)
(* lets pass, none of them above the cap.                                  *)
THEOREM SignalType == SignalSpec => []SignalTypeOK
  BY SignalInit_TypeOK, SignalNext_TypeOK, SignalQueueInv, PTL DEF SignalSpec

(* With a ramp of any length but none, a stop is never a click: the last   *)
(* frame before Stopped is silent, unless set_level redirected the fade.   *)
THEOREM SignalStopsOnSilence ==
  ASSUME Ramp > 0
  PROVE  SignalSpec => StopsOnSilence
<1>1. SignalTypeOK /\ [SignalNext]_signalVars
        => (playState = "Playing" /\ playState' = "Stopped"
              => out' = 0 \/ fade'.to # 0)
  <2> SUFFICES ASSUME SignalTypeOK, [SignalNext]_signalVars,
                      playState = "Playing", playState' = "Stopped"
               PROVE  out' = 0 \/ fade'.to # 0
    OBVIOUS
  <2>1. Process
    <3>1. ASSUME NEW cmd \in Item, Request(cmd) PROVE FALSE
      BY <3>1 DEF Request, rt
    <3>2. ~PushStep /\ ~PopStep /\ ~Poll /\ ~UNCHANGED signalVars
      BY DEF PushStep, PopStep, Poll, signalVars, rt
    <3>3. ~ApplyCommand
      BY DEF ApplyCommand, Play, Stop, SetLevel, SetSignal, SetChannel
    <3> QED BY <3>1, <3>2, <3>3 DEF SignalNext, RpcStep, RtStep
  <2>2. CASE pendingStop /\ fade.left = 0
    <3>1. out' = Sounding(NoSignal)
      BY <2>1, <2>2 DEF Process
    <3> QED BY <3>1 DEF Sounding, NoSignal, Generator
  <2>3. CASE ~(pendingStop /\ fade.left = 0)
    <3>1. FadeOut.left > 0
      BY SignalAssumption DEF FadeOut, Fade
    <3>2. /\ fade' = [from |-> fade.from, to |-> fade.to, left |-> Left(fade.left)]
          /\ Left(fade.left) = 0 /\ pendingStop
      BY <2>1, <2>3, <3>1 DEF Process
    <3>3. fade.left # 0 /\ fade.left <= Quantum
      BY <2>3, <3>2, SignalAssumption DEF Left, SignalTypeOK, FadeType
    <3>4. out' = 0 \/ out' = fade.to
      BY <2>1, <3>3 DEF Process, Sounding
    <3> QED BY <3>2, <3>4
  <2> QED BY <2>2, <2>3
<1> QED BY <1>1, SignalType, PTL DEF SignalSpec, StopsOnSilence

================================================================================
