---------------------------- MODULE ThermalLimiter ----------------------------
(***************************************************************************)
(* ThermalGainLimiter of the web UI (thermal_limiter.py) for one channel,  *)
(* with the ThermalMonitor (thermal_monitor.py) that feeds it.  The        *)
(* monitor estimates the voice coil's power from the level behind the gain *)
(* builtins; the limiter turns the headroom it reports into a gain and     *)
(* sends that through pw-cli.  Headroom and reductions are whole decibels; *)
(* the time constants are left out.                                        *)
(***************************************************************************)
EXTENDS FilterChain

CONSTANTS
  Channel,  (* the gain builtin of this channel                             *)
  Knee,     (* SOFT_KNEE_THRESHOLD_DB, also SOFT_KNEE_MAX_REDUCTION_DB      *)
  Floor,    (* the largest reduction, 20 dB in the code                     *)
  Programmes,  (* headroom that a programme leaves at base_mult              *)
  Override, (* decibels an operator's override may add to the ceiling       *)
  Linear,   (* the factor that each level stands for, in a small unit       *)
  Threshold (* MULT_CHANGE_THRESHOLD, in that unit                          *)

ASSUME LimiterAssumption ==
  /\ Channel \in 1..Gains
  /\ Knee \in Nat \ {0}
  /\ Floor \in Nat /\ Knee <= Floor /\ Floor < Full
  /\ Programmes \subseteq Int
  /\ \E h \in Programmes \union {0} : \A l \in Programmes \union {0} : h <= l
  /\ Override \subseteq Nat
  /\ Linear \in [Level -> Nat]
  /\ \A a, b \in Level : a < b => Linear[a] < Linear[b]
  /\ Threshold \in Nat \ {0}

VARIABLES
  load,        (* the programme's headroom at base_mult                     *)
  headroom,    (* headroom_db of the smoothed power                         *)
  configured,  (* _channels is not empty                                    *)
  override,    (* the active override, 0 for none                           *)
  current,     (* current_mult                                              *)
  cachedId,    (* _convolver_node_id                                        *)
  tick         (* the coroutine of _enforce_loop                            *)

limiterVars ==
  <<load, headroom, configured, override, current, cachedId, tick>>

(* Headroom is told apart from Hottest up to Cool, and NoReading before   *)
(* the first sample.                                                       *)
Hottest == CHOOSE h \in Programmes \union {0} : \A l \in Programmes \union {0} : h <= l
Cool == Knee + 1
NoReading == Cool + 1

(* `mine` is false once the channel has been configured anew meanwhile.    *)
Asleep == [at |-> "asleep", target |-> Full, id |-> NoId, mine |-> TRUE]

TickState ==
  [at : {"asleep", "dump", "found", "set"}, target : Level, id : Id \union {NoId}, mine : BOOLEAN]

LimiterOK ==
  /\ load \in Programmes
  /\ headroom \in Hottest..NoReading
  /\ configured \in BOOLEAN
  /\ override \in Override \union {0}
  /\ current \in Level
  /\ cachedId \in Id \union {NoId}
  /\ tick \in TickState

LimiterInit ==
  /\ ChainInit
  /\ load \in Programmes
  /\ headroom = NoReading
  /\ configured = FALSE
  /\ override = 0
  /\ current = Full
  /\ cachedId = NoId
  /\ tick = Asleep

-----------------------------------------------------------------------------
(* compute_reduction, in decibels, from the headroom with the override.    *)

Lower(a, b)  == IF a < b THEN a ELSE b
Higher(a, b) == IF a < b THEN b ELSE a

(* A slip: a jump at the ceiling, where the knee is left out.              *)
WithoutKnee(h) ==
  IF h > Knee THEN 0 ELSE IF h > 0 THEN h - Knee ELSE Higher(h, -Floor)

Reduction(h) ==
  IF h > Knee THEN 0
  ELSE IF h > 0 THEN h - Knee
  ELSE Higher(Lower(h, -Knee), -Floor)

Target == Full + Reduction(headroom + override)

(* What is less apart is a tiny correction, which is not sent.  The        *)
(* threshold is on the factors, so it is more decibels the lower the       *)
(* profile's own gain is.                                                  *)
Far(a, b) == Linear[Lower(a, b)] + Threshold <= Linear[Higher(a, b)]

-----------------------------------------------------------------------------
(* ThermalMonitor                                                          *)

(* Where the headroom settles at the present level. *)
Settled ==
  IF convolver = NoId \/ mult[Channel] = 0
    THEN Cool
    ELSE Higher(Hottest, Lower(Cool, load + Full - mult[Channel]))

(* The first sample is taken as it is; after that the power is smoothed    *)
(* and follows without overshooting.                                       *)
Sample ==
  /\ configured
  /\ headroom # Settled
  /\ headroom' = IF headroom = NoReading THEN Settled
                 ELSE headroom + (IF headroom < Settled THEN 1 ELSE -1)
  /\ UNCHANGED <<chain, load, configured, override, current, cachedId, tick>>

(* The music changes. *)
Programme ==
  /\ load' \in Programmes \ {load}
  /\ UNCHANGED <<chain, headroom, configured, override, current, cachedId, tick>>

-----------------------------------------------------------------------------
(* _enforce_tick; when there is nothing to send, or too little, it goes    *)
(* back to sleep.                                                          *)

Wake ==
  /\ tick.at = "asleep"
  /\ configured
  /\ Far(Target, current)
  /\ tick' = [Asleep EXCEPT !.at = IF cachedId = NoId THEN "dump" ELSE "set",
                            !.target = Target, !.id = cachedId]
  /\ UNCHANGED <<chain, load, headroom, configured, override, current, cachedId>>

(* pw-dump has run in its thread. *)
Dump ==
  /\ tick.at = "dump"
  /\ \/ convolver # NoId /\ tick' = [tick EXCEPT !.at = "found", !.id = convolver]
     \/ (convolver = NoId \/ MayFail) /\ tick' = Asleep
  /\ UNCHANGED <<chain, load, headroom, configured, override, current, cachedId>>

Cache ==
  /\ tick.at = "found"
  /\ cachedId' = tick.id
  /\ tick' = [tick EXCEPT !.at = "set"]
  /\ UNCHANGED <<chain, load, headroom, configured, override, current>>

Apply ==
  /\ tick.at = "set"
  /\ \E ok \in BOOLEAN :
       /\ SetMult(tick.id, Channel, tick.target, ok)
       /\ current' = IF ok /\ tick.mine THEN tick.target ELSE current
  /\ tick' = Asleep
  /\ UNCHANGED <<load, headroom, configured, override, cachedId>>

-----------------------------------------------------------------------------
(* A profile is activated: monitor and limiter start over.                 *)
ConfigureChannels ==
  /\ configured' = TRUE
  /\ headroom' = NoReading
  /\ override' = 0
  /\ current' = Full
  /\ cachedId' = NoId
  /\ tick' = [tick EXCEPT !.mine = tick.at = "asleep"]
  /\ UNCHANGED load

SetOverride ==
  /\ configured
  /\ override' \in Override
  /\ UNCHANGED <<chain, load, headroom, configured, current, cachedId, tick>>

(* By the operator, or because its time is over. *)
ClearOverride ==
  /\ override # 0
  /\ override' = 0
  /\ UNCHANGED <<chain, load, headroom, configured, current, cachedId, tick>>

(* The web UI's process starts anew, unconfigured until the next profile. *)
LimiterRestart ==
  /\ configured' = FALSE
  /\ headroom' = NoReading
  /\ override' = 0
  /\ current' = Full
  /\ cachedId' = NoId
  /\ tick' = Asleep
  /\ UNCHANGED load

Enforce == Wake \/ Dump \/ Cache \/ Apply

LimiterNext ==
  \/ Sample
  \/ Programme
  \/ Enforce
  \/ ConfigureChannels /\ UNCHANGED chain
  \/ SetOverride
  \/ ClearOverride

(* Nobody but the limiter touches the gains; both loops go on. *)
LimiterFairness ==
  /\ WF_<<chain, limiterVars>>(Sample)
  /\ WF_<<chain, limiterVars>>(Enforce)

LimiterSpec == LimiterInit /\ [][LimiterNext]_<<chain, limiterVars>> /\ LimiterFairness

-----------------------------------------------------------------------------
LimiterTypeOK == ChainOK /\ LimiterOK

(* The soft knee asks for less than the profile's own gain, and for so     *)
(* much less that the limiter sends it.                                    *)
Hot ==
  LET h == headroom + override
  IN  /\ configured /\ convolver # NoId
      /\ h < Knee
      /\ Far(Full - Knee + Higher(0, h), Full)

(* A channel that stays so far within the soft knee of its ceiling plays   *)
(* below its profile's gain, whatever overrides and profile activations    *)
(* came before and in whichever await they came.                           *)
HotIsReduced == <>[]Hot => <>[](mult[Channel] < Full)

=============================================================================
