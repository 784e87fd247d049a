----------------------------- MODULE GainWriters -----------------------------
(***************************************************************************)
(* Everybody who writes the convolver's gains, together: the requests to   *)
(* the web UI, its thermal limiter, GraphManager, and the filter-chain     *)
(* process that forgets them.  The web UI's coroutines share one event     *)
(* loop; the activation of a profile (speaker_routes.py) mutes, writes the *)
(* new configuration and starts monitor and limiter over.                  *)
(***************************************************************************)
EXTENDS AudioMute, ThermalLimiter

CONSTANTS
  Profile,   (* speaker profiles                                            *)
  NoProfile

ASSUME ProfileAssumption == NoProfile \notin Profile

VARIABLES
  active,  (* the active-profile marker on disk                             *)
  wanted   (* the profile that a request activates, NoProfile for others    *)

activationVars == <<active, wanted>>
writerVars == <<chain, muteVars, limiterVars, activationVars>>

ActivationOK ==
  /\ active \in Profile \union {NoProfile}
  /\ wanted \in [Request -> Profile \union {NoProfile}]

WritersInit ==
  /\ MuteInit
  /\ LimiterInit
  /\ active = NoProfile
  /\ wanted = [r \in Request |-> NoProfile]

-----------------------------------------------------------------------------
(* Without the profile's thermal data, monitor and limiter stay as they    *)
(* are.                                                                    *)
ConfigureThermalProtection == ConfigureChannels \/ UNCHANGED limiterVars

(* The configuration is generated and written, which may fail; then comes  *)
(* the marker, which may fail too, and the protection.                     *)
Deploy(p) ==
  /\ active' \in {active, p}
  /\ ConfigureThermalProtection

(* With is_muted set there is nothing to await. *)
ActivateMuted(p) ==
  /\ isMuted
  /\ Deploy(p)
  /\ UNCHANGED <<chain, muteVars, wanted>>

Activate(r, p) ==
  /\ Mute(r)
  /\ wanted' = [wanted EXCEPT ![r] = p]
  /\ UNCHANGED <<limiterVars, active>>

(* The mute that this request awaits succeeds. *)
Deploys(r) == (At(r, "mute") \/ At(r, "zero")) /\ Last(r)

RequestStep(r) ==
  /\ Step(r)
  /\ IF wanted[r] # NoProfile /\ Deploys(r)
       THEN Deploy(wanted[r])
       ELSE UNCHANGED <<limiterVars, active>>
  /\ wanted' = IF request'[r] = Idle THEN [wanted EXCEPT ![r] = NoProfile] ELSE wanted

LimiterStep ==
  /\ Sample \/ Programme \/ Enforce \/ SetOverride \/ ClearOverride
  /\ UNCHANGED <<muteVars, activationVars>>

WebRestart ==
  /\ MuteRestart
  /\ LimiterRestart
  /\ wanted' = [r \in Request |-> NoProfile]
  /\ UNCHANGED <<chain, active>>

Elsewhere ==
  /\ ChainExit \/ ChainStart \/ GateWrite
  /\ UNCHANGED <<muteVars, limiterVars, activationVars>>

WritersNext ==
  \/ \E r \in Request : RequestStep(r)
  \/ \E r \in Request, p \in Profile : Activate(r, p)
  \/ \E p \in Profile : ActivateMuted(p)
  \/ LimiterStep
  \/ WebRestart
  \/ Elsewhere

WritersSpec == WritersInit /\ [][WritersNext]_writerVars

-----------------------------------------------------------------------------
WritersTypeOK == MuteTypeOK /\ LimiterTypeOK /\ ActivationOK

(* However a request, failures, restarts and GraphManager's own writes     *)
(* fall between each other's awaits, no gain comes out of the web UI       *)
(* louder than some venue has it, and the limited one not above its        *)
(* profile's.                                                              *)
NothingLouder ==
  \A p \in Param : mult[p] \in {0} \union {v[p] : v \in Venue}
                     \union (IF p = Channel THEN 1..Full ELSE {})

=============================================================================
