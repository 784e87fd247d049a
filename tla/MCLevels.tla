------------------------------- MODULE MCLevels -------------------------------
(* The two programs that move levels by themselves, of which one is run    *)
(* with the other at its start: they share nothing.  The signal generator  *)
(* has a queue of two commands, and times in half quanta: a ramp ends      *)
(* within a quantum, a burst and a sweep do not.  The thermal limiter has  *)
(* one gain, at the profile's own level, -66 dB: there the threshold hides *)
(* a change of one decibel, and further down of several.                   *)
EXTENDS SignalGen, ThermalLimiter

VARIABLE process
allVars == <<signalVars, chain, limiterVars, process>>

MCCommand == {
  [kind |-> "play", signal |-> "tone", level |-> 2, burst |-> None],
  [kind |-> "play", signal |-> "tone", level |-> 1, burst |-> 3],
  [kind |-> "play", signal |-> "sweep", level |-> 1, burst |-> 3],
  [kind |-> "stop"],
  [kind |-> "set_channel"],
  [kind |-> "set_level", level |-> 1],
  [kind |-> "set_signal", signal |-> "tone"]}

MCVenue == {<<9>>}

(* Far below the ceiling, at it, in the knee and, at 2, so little in the   *)
(* knee that nothing is sent, and above it.                                *)
MCProgrammes == {-10, -6, 0, 1, 2, 5}

(* The factors of -74 dB to -66 dB, in millionths, above silence. *)
MCLinear ==
  [l \in 0..9 |-> IF l = 0 THEN 0
                  ELSE <<199, 223, 251, 281, 315, 354, 397, 446, 500>>[l]]

MCInit ==
  /\ SignalInit /\ LimiterInit
  /\ process \in {"signal-gen", "limiter"}
  /\ process = "signal-gen" => load = 0

MCNext ==
  \/ process = "signal-gen" /\ SignalNext /\ UNCHANGED <<chain, limiterVars, process>>
  \/ process = "limiter" /\ LimiterNext /\ UNCHANGED <<signalVars, process>>

MCSpec ==
  /\ MCInit /\ [][MCNext]_allVars
  /\ process = "signal-gen" => SignalFairness
  /\ process = "limiter" => LimiterFairness
================================================================================
