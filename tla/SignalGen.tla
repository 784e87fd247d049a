------------------------------- MODULE SignalGen -------------------------------
(***************************************************************************)
(* pi4audio-signal-gen: the RPC thread turns requests into commands, the   *)
(* PipeWire callback takes them from the queue, once per quantum, and      *)
(* plays.  Amplitudes are levels: the fade that the code multiplies with   *)
(* the level runs here from one level to another.  A tone is any signal    *)
(* that never ends (sine, white, pink, a looping file).  Requests that     *)
(* validation refuses, and set_freq, whose oscillator no generator in use  *)
(* reads, change nothing modelled.                                         *)
(***************************************************************************)
EXTENDS SpscQueue, Integers

CONSTANTS
  Quantum,      (* frames per callback                                      *)
  Ramp,         (* ramp_samples                                             *)
  Levels,       (* the levels that validate_level lets pass                 *)
  Duration,     (* frames of a burst                                        *)
  SweepLength,  (* frames of a sweep without a duration                     *)
  StateSlots,   (* usable slots of the state queue, 15 in the code          *)
  MaxRequests   (* bound: commands sent                                     *)

VARIABLES
  playState,    (* play_state; Fading is declared and never assigned        *)
  generator,    (* generator, with the frames a sweep has left              *)
  channels,     (* active_channels is not empty                             *)
  level,        (* current_level_linear                                     *)
  fade,         (* fade, in levels                                          *)
  burst,        (* burst_remaining                                          *)
  pendingStop,  (* pending_stop                                             *)
  out,          (* what the last frame of the quantum is at most            *)
  stateQueue,   (* snapshots on their way to the RPC thread                 *)
  latest,       (* latest_state of the RPC thread                           *)
  requests      (* commands sent so far                                     *)

rt == <<playState, generator, channels, level, fade, burst, pendingStop, out,
        stateQueue>>
signalVars == <<queueVars, rt, latest, requests>>

Signal == {"silence", "tone", "sweep"}
PlayState == {"Stopped", "Playing"}
None == -1

Command ==
  [kind : {"play"}, signal : Signal, level : Levels, burst : Duration \union {None}]
    \union [kind : {"stop", "set_channel"}]
    \union [kind : {"set_level"}, level : Levels]
    \union [kind : {"set_signal"}, signal : Signal]

(* Item stands for the commands that the clients at hand send. *)
ASSUME SignalAssumption ==
  /\ Quantum \in Nat \ {0} /\ Ramp \in Nat /\ Levels \subseteq Nat \ {0}
  /\ Duration \subseteq Nat /\ SweepLength \in Nat
  /\ [kind |-> "stop"] \in Item /\ Item \subseteq Command
  /\ StateSlots \in Nat \ {0} /\ MaxRequests \in Nat

Fade(from, to) == [from |-> from, to |-> to, left |-> Ramp]
(* Slip: the fade out has no length. *)
FadeOutAtOnce == [from |-> level, to |-> 0, left |-> 0]

FadeOut == Fade(level, 0)
Generator(signal, frames) ==
  [signal |-> signal, left |-> IF signal = "sweep" THEN frames ELSE 0]
NoSignal == Generator("silence", 0)

SignalInit ==
  /\ QueueInit /\ item = [kind |-> "stop"]
  /\ playState = "Stopped" /\ generator = NoSignal
  /\ channels = FALSE /\ level = 0
  /\ fade = [from |-> 0, to |-> 0, left |-> 0]
  /\ burst = None /\ pendingStop = FALSE
  /\ out = 0
  /\ stateQueue = << >> /\ latest = "Stopped" /\ requests = 0

--------------------------------------------------------------------------------
(* The RPC thread. *)

(* A command passes validation; with IsFull it is answered with an error. *)
Request(cmd) ==
  /\ requests < MaxRequests
  /\ PushBegin(cmd)
  /\ requests' = requests + 1
  /\ UNCHANGED <<rt, latest>>

PushStep ==
  /\ PushWrite \/ PushPublish
  /\ UNCHANGED <<rt, latest, requests>>

(* Between two requests the thread takes the snapshots that have arrived. *)
Poll ==
  /\ pushing = "idle"
  /\ stateQueue # << >>
  /\ latest' = Head(stateQueue)
  /\ stateQueue' = Tail(stateQueue)
  /\ UNCHANGED <<queueVars, playState, generator, channels, level, fade, burst,
                 pendingStop, out, requests>>

--------------------------------------------------------------------------------
(* The callback: apply_command, which the pop of a command ends in. *)

Play(cmd) ==
  /\ cmd.kind = "play"
  /\ generator' = Generator(cmd.signal,
                            IF cmd.burst = None THEN SweepLength ELSE cmd.burst)
  /\ channels' = TRUE
  /\ level' = cmd.level
  /\ fade' = Fade(0, cmd.level)
  /\ playState' = "Playing"
  /\ burst' = cmd.burst
  /\ pendingStop' = FALSE

Stop(cmd) ==
  /\ cmd.kind = "stop"
  /\ IF playState # "Stopped"
       THEN fade' = FadeOut /\ pendingStop' = TRUE
       ELSE UNCHANGED <<fade, pendingStop>>
  /\ UNCHANGED <<playState, generator, channels, level, burst>>

(* The fade becomes one towards the new level, also while a stop fades out. *)
SetLevel(cmd) ==
  /\ cmd.kind = "set_level"
  /\ fade' = Fade(level, cmd.level)
  /\ level' = cmd.level
  /\ UNCHANGED <<playState, generator, channels, burst, pendingStop>>

SetSignal(cmd) ==
  /\ cmd.kind = "set_signal"
  /\ generator' = Generator(cmd.signal, SweepLength)
  /\ UNCHANGED <<playState, channels, level, fade, burst, pendingStop>>

SetChannel(cmd) ==
  /\ cmd.kind = "set_channel"
  /\ channels' = TRUE
  /\ UNCHANGED <<playState, generator, level, fade, burst, pendingStop>>

ApplyCommand ==
  /\ PopPublish
  /\ \/ Play(popped) \/ Stop(popped) \/ SetLevel(popped)
     \/ SetSignal(popped) \/ SetChannel(popped)
  /\ UNCHANGED <<out, stateQueue, latest, requests>>

PopStep ==
  /\ PopBegin \/ PopRead
  /\ UNCHANGED <<rt, latest, requests>>

--------------------------------------------------------------------------------
(* The callback: process, once the queue is found empty. *)

Left(n) == IF n > Quantum THEN n - Quantum ELSE 0

(* The last frame of the quantum, before the clip, which no level reaches. *)
Sounding(gen) ==
  IF ~channels \/ gen.signal = "silence"
     \/ (gen.signal = "sweep" /\ gen.left < Quantum) THEN 0
  ELSE IF fade.left = 0 THEN level
  ELSE IF fade.left <= Quantum THEN fade.to
  ELSE IF fade.to > fade.from THEN fade.to ELSE fade.from

(* What burst_remaining and the end of a sweep ask for. *)
BurstExpires(halted) == ~halted /\ burst # None /\ burst <= Quantum

(* Slip: burst_remaining is not cleared when it runs out. *)
BurstKept(stopped) == IF stopped \/ burst = None THEN None ELSE Left(burst)

BurstLeft(stopped) ==
  IF stopped \/ burst = None \/ burst <= Quantum THEN None ELSE burst - Quantum
SweepEnds(gen) ==
  gen.signal = "sweep" /\ gen.left <= Quantum /\ playState = "Playing"

(* A full queue drops the snapshot. *)
Pushed(state) ==
  IF Len(stateQueue) < StateSlots THEN Append(stateQueue, state) ELSE stateQueue

Process ==
  /\ popping = "idle" /\ IsEmpty
  /\ LET halted == pendingStop /\ fade.left = 0
         gen == IF halted THEN NoSignal ELSE generator
         cut == BurstExpires(halted) \/ SweepEnds(gen)
         faded == IF cut THEN FadeOut
                  ELSE [from |-> fade.from, to |-> fade.to, left |-> Left(fade.left)]
         pending == cut \/ (pendingStop /\ ~halted)
         done == pending /\ faded.left = 0
     IN /\ out' = Sounding(gen)
        /\ fade' = faded
        /\ playState' = IF halted \/ done THEN "Stopped" ELSE playState
        /\ generator' = IF halted \/ done THEN NoSignal
                        ELSE Generator(gen.signal, Left(gen.left))
        /\ burst' = BurstLeft(halted \/ done)
        /\ pendingStop' = (pending /\ ~done)
  /\ stateQueue' = Pushed(playState')
  /\ UNCHANGED <<queueVars, channels, level, latest, requests>>

--------------------------------------------------------------------------------

RpcStep == (\E cmd \in Item : Request(cmd)) \/ PushStep \/ Poll
RtStep == PopStep \/ ApplyCommand \/ Process

SignalNext == RpcStep \/ RtStep

(* PipeWire calls the callback again and again, and the RPC thread finishes *)
(* a push and polls; nothing makes a client send.                          *)
SignalFairness ==
  WF_signalVars(RtStep) /\ WF_signalVars(PushStep) /\ WF_signalVars(Poll)

SignalSpec == SignalInit /\ [][SignalNext]_signalVars /\ SignalFairness

--------------------------------------------------------------------------------

FadeType == [from : Levels \union {0}, to : Levels \union {0}, left : 0..Ramp]

(* No command that a client can send, in any order, takes ProcessState out *)
(* of its types: levels stay at or under the cap, fades within the ramp.   *)
SignalTypeOK ==
  /\ playState \in PlayState /\ latest \in PlayState
  /\ generator \in [signal : Signal, left : Nat]
  /\ channels \in BOOLEAN /\ pendingStop \in BOOLEAN
  /\ level \in Levels \union {0} /\ out \in Levels \union {0}
  /\ fade \in FadeType
  /\ burst \in Nat \union {None}
  /\ stateQueue \in Seq(PlayState) /\ Len(stateQueue) <= StateSlots
  /\ requests \in 0..MaxRequests

(* A command that was acknowledged is applied once, and in the order of    *)
(* the acknowledgements, however the two threads interleave (spsc_queue.rs *)
(* push and pop).                                                          *)
CommandsInOrder == Fifo!Spec

(* Playing stops only on a frame that is silent: the fade that a stop or   *)
(* the end of a burst began has run out.  A set_level that arrives during  *)
(* the fade turns it into a fade to the new level; that stop cuts off.     *)
StopsOnSilence ==
  [][playState = "Playing" /\ playState' = "Stopped"
       => out' = 0 \/ fade'.to # 0]_signalVars

(* A stop, and a burst with a duration, end: unless another play or a      *)
(* sweep takes over, the generator is Stopped at last (process, steps 5    *)
(* and 6b).  A sweep is left out: at its end process starts the fade anew  *)
(* in every quantum, and so never comes to Stopped by itself.  And when    *)
(* the play state settles, status comes to report it, although the         *)
(* callback drops the newest snapshot whenever the queue is full (process  *)
(* step 7; rpc.rs, handle_status).                                         *)
EndsAreReported ==
  /\ (pendingStop \/ burst # None)
       ~> (playState = "Stopped" \/ generator.signal = "sweep"
             \/ (~pendingStop /\ burst = None))
  /\ \A s \in PlayState : <>[](playState = s) => <>[](latest = s)

================================================================================
