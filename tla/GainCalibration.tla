---------------------------- MODULE GainCalibration ----------------------------
(***************************************************************************)
(* calibrate_channel (gain_calibration.py): the ramp of one channel from a *)
(* level nobody hears up to the target, burst by burst.  A calibration is  *)
(* a record, a step is one burst with what the microphone hears of it.     *)
(* Levels are in dBFS and sound pressures in dB, whole numbers.            *)
(***************************************************************************)
EXTENDS Integers

CONSTANTS
  StartLevel,     (* START_LEVEL_DBFS without measurement_attenuation_db    *)
  CoarseStep,
  FineStep,
  MaxStep,
  FineThreshold,
  Tolerance,      (* SPL_TOLERANCE_DB                                       *)
  MaxRampSteps,
  MaxOvershoots,  (* MAX_OVERSHOOT_RETRIES                                  *)
  MaxXruns,       (* MAX_XRUN_RETRIES                                       *)
  LoopbackFloor,  (* -40 dBFS, below which no burst is played               *)
  SnrLevel,       (* effective_snr_threshold                                *)
  AmbientLimit,   (* AMBIENT_SPL_ABORT_THRESHOLD                            *)
  Target,         (* target_spl_db                                          *)
  HardLimit,      (* hard_limit_spl_db                                      *)
  Spl             (* bound: the sound pressures that are heard              *)

ASSUME CalibrationAssumption ==
  /\ StartLevel \in Int /\ LoopbackFloor \in Int /\ SnrLevel \in Int
  /\ StartLevel <= LoopbackFloor
  /\ CoarseStep \in Nat \ {0} /\ FineStep \in Nat \ {0} /\ MaxStep \in Nat \ {0}
  /\ FineThreshold \in Nat /\ Tolerance \in Nat
  /\ MaxRampSteps \in Nat \ {0} /\ MaxOvershoots \in Nat \ {0} /\ MaxXruns \in Nat
  /\ AmbientLimit \in Int /\ Target \in Int /\ HardLimit \in Int /\ Spl \subseteq Int

(* What pw-record brings back: the level, whether the peak is near         *)
(* clipping, or silence, or not above the ambient noise, and whether       *)
(* PipeWire counted xruns meanwhile.                                       *)
Heard == [spl : Spl, mic : {"ok", "clipping", "silent", "faint"}, xrun : BOOLEAN]

Calibration ==
  [at     : {"ambient", "ramp", "verify", "passed", "failed"},
   level  : Int,               (* current_level_dbfs, or backed_off         *)
   played : Int,               (* the level of the last burst               *)
   spl    : Int,               (* last_measured_spl                         *)
   step   : 1..MaxRampSteps,
   tries  : 1..MaxOvershoots,  (* verify_attempt                            *)
   xruns  : 0..MaxXruns]

(* GC-05: the target must be below the limit. *)
Begun ==
  [at |-> IF Target < HardLimit THEN "ambient" ELSE "failed",
   level |-> StartLevel, played |-> LoopbackFloor, spl |-> HardLimit - 1,
   step |-> 1, tries |-> 1, xruns |-> 0]

Least(a, b) == IF a <= b THEN a ELSE b
Most(a, b) == IF a >= b THEN a ELSE b

Gives(c, end) == [c EXCEPT !.at = end]

Play(c, level) == [c EXCEPT !.played = Most(level, LoopbackFloor)]

(* The same burst once more, as often as MAX_XRUN_RETRIES says. *)
Again(c) == IF c.xruns < MaxXruns THEN [c EXCEPT !.xruns = @ + 1] ELSE Gives(c, "failed")

(* The 2 s of silence, played at the floor to keep the loopback alive. *)
AfterAmbient(c, heard) ==
  IF heard.spl > AmbientLimit THEN Gives(c, "failed") ELSE Gives(c, "ramp")

(* The safety gates, in their order; all of them end the ramp. *)
Unsafe(c, heard) ==
  \/ heard.mic = "faint" /\ c.level > SnrLevel
  \/ heard.mic \in {"clipping", "silent"}
  \/ heard.spl >= HardLimit

AtTarget(spl) == spl \in (Target - Tolerance)..(Target + Tolerance)

StepSize(spl) == Least(IF Target - spl <= FineThreshold THEN FineStep ELSE CoarseStep, MaxStep)

(* Slip: the level below an overshoot is taken without listening. *)
Unverified(c) == [c EXCEPT !.at = "passed", !.level = @ - FineStep]

(* GC-01: one step back, and listen. *)
BackOff(c) == [c EXCEPT !.at = "verify", !.level = @ - FineStep]

(* The next level, unless the ramp is at the ceiling or out of steps. *)
StepUp(c, ceiling) ==
  IF c.step = MaxRampSteps \/ c.level >= ceiling
    THEN Gives(c, "failed")
    ELSE [c EXCEPT !.level = Least(@ + StepSize(c.spl), ceiling), !.step = @ + 1]

AfterBurst(c, ceiling, heard) ==
  CASE Unsafe(c, heard)               -> Gives(c, "failed")
    [] ~Unsafe(c, heard) /\ AtTarget(c.spl) -> Gives(c, "passed")
    [] ~Unsafe(c, heard) /\ c.spl > Target + Tolerance -> BackOff(c)
    [] OTHER                          -> StepUp(c, ceiling)

(* A verification burst passes no gate but that of the xruns, and what is  *)
(* below the target is accepted.                                           *)
AfterVerify(c) ==
  CASE c.spl <= Target + Tolerance    -> Gives(c, "passed")
    [] c.spl > Target + Tolerance /\ c.tries = MaxOvershoots -> Gives(c, "failed")
    [] OTHER                          -> [BackOff(c) EXCEPT !.tries = @ + 1]

(* A burst of the ramp or of the verification, and what comes of it. *)
BurstStep(c, ceiling, heard) ==
  LET at     == [c EXCEPT !.level = IF c.at = "ramp" THEN Least(@, ceiling) ELSE @]
      played == Play(at, at.level)
      whole  == [played EXCEPT !.spl = heard.spl, !.xruns = 0]
  IN  IF heard.xrun
        THEN Again(played)
        ELSE IF c.at = "ramp" THEN AfterBurst(whole, ceiling, heard) ELSE AfterVerify(whole)

(* The operator's abort is looked at before each step of the ramp; neither *)
(* a repeated burst nor a verification does.                               *)
Halted(c, abort) == c.at = "ramp" /\ c.xruns = 0 /\ abort

CalibrationStep(c, ceiling, abort, heard) ==
  CASE c.at = "ambient"  -> AfterAmbient(Play(c, LoopbackFloor), heard)
    [] Halted(c, abort)  -> Gives(c, "failed")
    [] OTHER             -> BurstStep(c, ceiling, heard)

Calibrating(c) == c.at \notin {"passed", "failed"}

================================================================================
