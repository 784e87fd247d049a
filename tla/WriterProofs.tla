----------------------------- MODULE WriterProofs -----------------------------
(***************************************************************************)
(* What the writers of the gains keep to, for every number of requests,    *)
(* gains and venues, and however they interleave: their state is well      *)
(* typed, and no gain comes out louder than a venue or the profile has it. *)
(***************************************************************************)
EXTENDS GainWriters, TLAPS

USE ChainAssumption

-----------------------------------------------------------------------------
(* Helpers of the limiter.                                                 *)

LEMMA HottestIsInt == Hottest \in Int /\ Hottest <= 0
<1>1. \E h \in Programmes \union {0} : \A l \in Programmes \union {0} : h <= l
  BY LimiterAssumption
<1>2. /\ Hottest \in Programmes \union {0}
      /\ \A l \in Programmes \union {0} : Hottest <= l
  BY <1>1 DEF Hottest
<1> QED
  BY <1>2, LimiterAssumption

(* compute_reduction: at most the floor is taken off, and nothing added. *)
LEMMA ReductionIsBounded ==
  ASSUME NEW h \in Int
  PROVE  Full + Reduction(h) \in Level
  BY LimiterAssumption DEF Reduction, Higher, Lower, Level

LEMMA TargetIsALevel ==
  ASSUME LimiterOK
  PROVE  Target \in Level
<1>1. headroom + override \in Int
  BY HottestIsInt, LimiterAssumption DEF LimiterOK, NoReading, Cool
<1> QED
  BY <1>1, ReductionIsBounded DEF Target

LEMMA SettledIsInRange ==
  ASSUME ChainOK, LimiterOK
  PROVE  Settled \in Hottest..Cool
<1>1. Knee \in Nat /\ Channel \in Param /\ load \in Int
  BY LimiterAssumption DEF LimiterOK, Param
<1>2. mult[Channel] \in Int
  BY <1>1 DEF ChainOK, Level
<1> QED
  BY <1>1, <1>2, HottestIsInt DEF Settled, Higher, Lower, Cool

-----------------------------------------------------------------------------
(* The induction.  What a coroutine has read it may write back much later, *)
(* so the levels on their way are kept to the same bound as the gains.     *)

Allowed(p) == {0} \union {v[p] : v \in Venue}
                \union (IF p = Channel THEN 1..Full ELSE {})

Kept == {g \in [Param -> Level] : \A p \in Param : g[p] \in Allowed(p)}

Holding == {"read", "zero", "mute", "unmute"}

KeptState ==
  {q \in RequestState : /\ q.gains \in Kept \union {NoGains}
                        /\ q.at \in Holding => q.gains \in Kept}

ChainKept == ChainOK /\ mult \in Kept

MuteKept ==
  /\ isMuted \in BOOLEAN
  /\ stored \in Kept \union {NoGains}
  /\ request \in [Request -> KeptState]

WriterInv == ChainKept /\ MuteKept /\ LimiterOK /\ ActivationOK

LEMMA SilenceIsKept == Silence \in Kept
  BY DEF Silence, Level, Kept, Allowed

LEMMA VenuesAreKept == Venue \subseteq Kept
  BY DEF Param, Level, Kept, Allowed

LEMMA IdleIsKept == Idle \in KeptState
  BY DEF Idle, RequestState, Param, NoGains, KeptState, Holding

LEMMA InvImplies ==
  ASSUME WriterInv
  PROVE  WritersTypeOK /\ NothingLouder
<1>1. ChainOK /\ LimiterOK /\ ActivationOK
  BY DEF WriterInv, ChainKept
<1>2. MuteOK
  BY DEF WriterInv, MuteKept, MuteOK, Kept, KeptState
<1>3. NothingLouder
  BY DEF WriterInv, ChainKept, Kept, Allowed, NothingLouder
<1> QED
  BY <1>1, <1>2, <1>3 DEF WritersTypeOK, MuteTypeOK, LimiterTypeOK

LEMMA SetMultKeeps ==
  ASSUME ChainKept, NEW id, NEW p \in Param, NEW level \in Level, NEW ok,
         level \in Allowed(p), SetMult(id, p, level, ok)
  PROVE  ChainKept'
<1>1. ASSUME mult' = [mult EXCEPT ![p] = level]
      PROVE  mult' \in Kept
  BY <1>1 DEF ChainKept, Kept
<1>2. mult' \in Kept
  BY <1>1 DEF SetMult, ChainKept
<1> QED
  BY <1>2 DEF ChainKept, ChainOK, SetMult, Kept

LEMMA ElsewhereKeeps ==
  ASSUME ChainKept, ChainExit \/ ChainStart \/ GateWrite
  PROVE  ChainKept'
<1>1. mult' \in Kept
  BY SilenceIsKept, VenuesAreKept DEF ChainExit, ChainStart, GateWrite
<1> QED
  BY <1>1 DEF ChainKept, ChainOK, ChainExit, ChainStart, GateWrite, Kept

-----------------------------------------------------------------------------
(* mute and unmute, await by await.                                        *)

LEMMA StepKeeps ==
  ASSUME ChainKept, MuteKept, NEW r \in Request, Step(r)
  PROVE  ChainKept' /\ MuteKept'
<1> DEFINE q == request[r]
<1>1. /\ request \in [Request -> KeptState]
      /\ q \in KeptState /\ q \in RequestState /\ q.next \in Param
      /\ q.at \in Holding => q.gains \in Kept
  BY DEF MuteKept, KeptState, RequestState
<1>2. q.next # Gains => q.next + 1 \in Param
  BY <1>1 DEF Param
<1>3. ASSUME NEW state \in KeptState, Goes(r, state)
      PROVE  request' \in [Request -> KeptState]
  BY <1>1, <1>3 DEF Goes
<1>4. ASSUME UNCHANGED chain
      PROVE  ChainKept'
  BY <1>4 DEF ChainKept, ChainOK, chain
<1>5. CASE Mute(r)
  <2>1. [Idle EXCEPT !.at = "mute_dump"] \in KeptState
    BY DEF Idle, KeptState, RequestState, Holding, Param
  <2> QED
    BY <1>3, <1>4, <1>5, <2>1 DEF Mute, MuteKept
<1>6. CASE MuteDump(r)
  <2>1. ASSUME NEW found \in {"mute", "read"}
        PROVE  [at |-> found, next |-> 1, id |-> convolver,
                gains |-> IF found = "mute" THEN mult ELSE Silence] \in KeptState
    BY SilenceIsKept DEF ChainKept, ChainOK, Kept, KeptState, RequestState, Param
  <2> QED
    BY <1>3, <1>4, <1>6, <2>1, IdleIsKept DEF MuteDump, GivesUp, MuteKept
<1>7. CASE MuteRead(r)
  <2>1. PICK level \in ZeroIfUnread(r) :
          Goes(r, [q EXCEPT !.at = "zero", !.gains[q.next] = level])
    BY <1>7 DEF MuteRead
  <2>2. level \in Level /\ level \in Allowed(q.next) /\ q.gains \in Kept
    BY <1>1, <1>7, <2>1
       DEF ZeroIfUnread, ChainKept, Kept, Allowed, Level, MuteRead, At, Holding
  <2>3. [q.gains EXCEPT ![q.next] = level] \in Kept
    BY <1>1, <2>2 DEF Kept
  <2>4. [q EXCEPT !.at = "zero", !.gains[q.next] = level] \in KeptState
    BY <1>1, <2>3 DEF KeptState, RequestState, Kept
  <2> QED
    BY <1>3, <1>4, <1>7, <2>1, <2>4 DEF MuteRead, MuteKept
<1>8. CASE MuteSet(r)
  <2>1. ChainKept'
    <3>1. 0 \in Level /\ 0 \in Allowed(q.next)
      BY DEF Level, Allowed
    <3>2. PICK ok \in BOOLEAN : SetMult(q.id, q.next, 0, ok)
      BY <1>8 DEF MuteSet
    <3> QED
      BY <1>1, <3>1, <3>2, SetMultKeeps
  <2>2. q.gains \in Kept
    BY <1>1, <1>8 DEF MuteSet, At, Holding
  <2>3. ~Last(r) => [q EXCEPT !.next = @ + 1,
                              !.at = IF @ = "zero" THEN "read" ELSE @] \in KeptState
    BY <1>1, <1>2, <2>2 DEF Last, KeptState, RequestState
  <2> QED
    BY <1>3, <1>8, <2>1, <2>2, <2>3, IdleIsKept DEF MuteSet, MuteKept
<1>9. CASE Unmute(r)
  <2>1. [Idle EXCEPT !.at = "unmute_dump"] \in KeptState
    BY DEF Idle, KeptState, RequestState, Holding, Param
  <2> QED
    BY <1>3, <1>4, <1>9, <2>1 DEF Unmute, MuteKept
<1>10. CASE UnmuteDump(r)
  <2>1. stored # NoGains =>
          [at |-> "unmute", next |-> 1, id |-> convolver, gains |-> stored] \in KeptState
    BY DEF MuteKept, ChainKept, ChainOK, Kept, KeptState, RequestState, Param
  <2> QED
    BY <1>3, <1>4, <1>10, <2>1, IdleIsKept DEF UnmuteDump, GivesUp, Unmuted, MuteKept
<1>11. CASE UnmuteSet(r)
  <2>1. q.gains \in Kept
    BY <1>1, <1>11 DEF UnmuteSet, At, Holding
  <2>2. ChainKept'
    BY <1>1, <1>11, <2>1, SetMultKeeps DEF UnmuteSet, Kept
  <2>3. ~Last(r) => [q EXCEPT !.next = @ + 1] \in KeptState
    BY <1>1, <1>2 DEF Last, KeptState, RequestState
  <2> QED
    BY <1>3, <1>11, <2>2, <2>3, IdleIsKept DEF UnmuteSet, Unmuted, MuteKept
<1> QED
  BY <1>5, <1>6, <1>7, <1>8, <1>9, <1>10, <1>11 DEF Step

-----------------------------------------------------------------------------
(* The limiter: what it sends is a level of its own channel.               *)

LEMMA AsleepIsTyped == Full \in Level /\ Asleep \in TickState
<1>1. Full \in Level
  BY DEF Level
<1> QED
  BY <1>1 DEF Asleep, TickState

LEMMA NoReadingIsTyped == NoReading \in Hottest..NoReading
  BY HottestIsInt, LimiterAssumption DEF NoReading, Cool

LEMMA EnforceKeeps ==
  ASSUME ChainKept, LimiterOK, Enforce
  PROVE  ChainKept' /\ LimiterOK'
<1>1. tick \in TickState /\ Target \in Level
  BY TargetIsALevel DEF LimiterOK
<1>2. ASSUME UNCHANGED chain
      PROVE  ChainKept'
  BY <1>2 DEF ChainKept, ChainOK, chain
<1>3. CASE Wake
  <2>1. tick' \in TickState
    BY <1>1, <1>3 DEF Wake, Asleep, TickState, LimiterOK
  <2> QED
    BY <1>2, <1>3, <2>1 DEF Wake, LimiterOK
<1>4. CASE Dump
  <2>1. tick' \in TickState
    <3>1. CASE tick' = Asleep
      BY <3>1, AsleepIsTyped
    <3>2. CASE tick' = [tick EXCEPT !.at = "found", !.id = convolver]
      BY <1>1, <3>2 DEF TickState, ChainKept, ChainOK
    <3> QED
      BY <1>4, <3>1, <3>2 DEF Dump
  <2> QED
    BY <1>2, <1>4, <2>1 DEF Dump, LimiterOK
<1>5. CASE Cache
  <2>1. tick' \in TickState /\ cachedId' \in Id \union {NoId}
    BY <1>1, <1>5 DEF Cache, TickState
  <2> QED
    BY <1>2, <1>5, <2>1 DEF Cache, LimiterOK
<1>6. CASE Apply
  <2>1. tick.target \in Level /\ tick.target \in Allowed(Channel) /\ Channel \in Param
    BY <1>1, LimiterAssumption DEF TickState, Allowed, Level, Param
  <2>2. ChainKept'
    BY <1>6, <2>1, SetMultKeeps DEF Apply
  <2>3. tick' \in TickState /\ current' \in Level
    BY <1>6, <2>1, AsleepIsTyped DEF Apply, LimiterOK
  <2> QED
    BY <1>6, <2>2, <2>3 DEF Apply, LimiterOK
<1> QED
  BY <1>3, <1>4, <1>5, <1>6 DEF Enforce

LEMMA ReadingKeeps ==
  ASSUME ChainKept, LimiterOK, Sample
  PROVE  ChainKept' /\ LimiterOK'
<1>1. Settled \in Hottest..Cool /\ headroom \in Hottest..NoReading
  BY SettledIsInRange DEF ChainKept, LimiterOK
<1>2. headroom' \in Hottest..NoReading
  BY <1>1, HottestIsInt, LimiterAssumption DEF Sample, Cool, NoReading
<1> QED
  BY <1>2 DEF Sample, LimiterOK, ChainKept, ChainOK, chain

LEMMA LimiterStepKeeps ==
  ASSUME ChainKept, LimiterOK,
         Sample \/ Programme \/ Enforce \/ SetOverride \/ ClearOverride
  PROVE  ChainKept' /\ LimiterOK'
<1>1. CASE Programme \/ SetOverride \/ ClearOverride
  BY <1>1 DEF Programme, SetOverride, ClearOverride, LimiterOK, ChainKept, ChainOK, chain
<1> QED
  BY <1>1, EnforceKeeps, ReadingKeeps

LEMMA StartingOverKeeps ==
  ASSUME LimiterOK, ConfigureChannels \/ LimiterRestart
  PROVE  LimiterOK'
<1>1. tick' \in TickState
  BY AsleepIsTyped DEF ConfigureChannels, LimiterRestart, TickState, LimiterOK
<1> QED
  BY <1>1, AsleepIsTyped, NoReadingIsTyped DEF ConfigureChannels, LimiterRestart, LimiterOK

LEMMA DeployKeeps ==
  ASSUME LimiterOK, active \in Profile \union {NoProfile}, NEW p \in Profile, Deploy(p)
  PROVE  LimiterOK' /\ active' \in Profile \union {NoProfile}
<1>1. CASE ConfigureChannels
  BY <1>1, StartingOverKeeps DEF Deploy, ConfigureThermalProtection
<1>2. CASE UNCHANGED limiterVars
  BY <1>2 DEF Deploy, ConfigureThermalProtection, limiterVars, LimiterOK
<1> QED
  BY <1>1, <1>2 DEF Deploy, ConfigureThermalProtection

-----------------------------------------------------------------------------
(* The induction over the steps of all writers.                            *)

LEMMA WritersStart == WritersInit => WriterInv
<1> SUFFICES ASSUME WritersInit
             PROVE  WriterInv
  OBVIOUS
<1>1. ChainKept
  BY VenuesAreKept DEF WritersInit, MuteInit, ChainInit, ChainKept, ChainOK, Kept
<1>2. MuteKept
  BY IdleIsKept DEF WritersInit, MuteInit, MuteKept
<1>3. LimiterOK
  BY AsleepIsTyped, NoReadingIsTyped DEF WritersInit, LimiterInit, LimiterOK
<1>4. ActivationOK
  BY DEF WritersInit, ActivationOK
<1> QED
  BY <1>1, <1>2, <1>3, <1>4 DEF WriterInv

LEMMA WritersStep == WriterInv /\ [WritersNext]_writerVars => WriterInv'
<1> SUFFICES ASSUME WriterInv, [WritersNext]_writerVars
             PROVE  WriterInv'
  OBVIOUS
<1> USE DEF WriterInv
<1>1. ASSUME NEW r \in Request, RequestStep(r)
      PROVE  WriterInv'
  <2>1. ChainKept' /\ MuteKept'
    BY <1>1, StepKeeps DEF RequestStep
  <2>2. wanted[r] \in Profile \union {NoProfile}
    BY DEF ActivationOK
  <2>3. LimiterOK' /\ active' \in Profile \union {NoProfile}
    <3>1. CASE wanted[r] # NoProfile /\ Deploys(r)
      BY <1>1, <2>2, <3>1, DeployKeeps DEF RequestStep, ActivationOK
    <3>2. CASE ~(wanted[r] # NoProfile /\ Deploys(r))
      BY <1>1, <3>2 DEF RequestStep, ActivationOK, limiterVars, LimiterOK
    <3> QED
      BY <3>1, <3>2
  <2>4. wanted' \in [Request -> Profile \union {NoProfile}]
    BY <1>1 DEF RequestStep, ActivationOK
  <2> QED
    BY <2>1, <2>3, <2>4 DEF ActivationOK
<1>2. ASSUME NEW r \in Request, NEW p \in Profile, Activate(r, p)
      PROVE  WriterInv'
  <2>1. ChainKept' /\ MuteKept'
    BY <1>2, StepKeeps DEF Activate, Step
  <2> QED
    BY <1>2, <2>1 DEF Activate, ActivationOK, limiterVars, LimiterOK
<1>3. ASSUME NEW p \in Profile, ActivateMuted(p)
      PROVE  WriterInv'
  <2>1. LimiterOK' /\ active' \in Profile \union {NoProfile}
    BY <1>3, DeployKeeps DEF ActivateMuted, ActivationOK
  <2> QED
    BY <1>3, <2>1 DEF ActivateMuted, ActivationOK, ChainKept, ChainOK, chain, MuteKept, muteVars
<1>4. CASE LimiterStep
  BY <1>4, LimiterStepKeeps DEF LimiterStep, MuteKept, muteVars, ActivationOK, activationVars
<1>5. CASE WebRestart
  BY <1>5, StartingOverKeeps, IdleIsKept
     DEF WebRestart, MuteRestart, MuteKept, ActivationOK, ChainKept, ChainOK, chain
<1>6. CASE Elsewhere
  BY <1>6, ElsewhereKeeps
     DEF Elsewhere, MuteKept, muteVars, ActivationOK, activationVars, LimiterOK, limiterVars
<1>7. CASE UNCHANGED writerVars
  BY <1>7 DEF writerVars, ChainKept, ChainOK, chain, MuteKept, muteVars, LimiterOK,
              limiterVars, ActivationOK, activationVars
<1> QED
  BY <1>1, <1>2, <1>3, <1>4, <1>5, <1>6, <1>7 DEF WritersNext

(* The web UI's mute, limiter and activation keep to their types. *)
THEOREM WritersTypeCorrect == WritersSpec => []WritersTypeOK
<1> QED
  BY WritersStart, WritersStep, InvImplies, PTL DEF WritersSpec

(* However requests, failures, restarts and GraphManager's own writes fall *)
(* between each other's awaits, no gain of the convolver is ever louder    *)
(* than a venue has it, and the limited one not louder than its profile.   *)
THEOREM NothingLouderHolds == WritersSpec => []NothingLouder
<1> QED
  BY WritersStart, WritersStep, InvImplies, PTL DEF WritersSpec

(* The limiter on its own, which touches only its own gain, keeps to its   *)
(* types: what it sends is never below its floor nor above the profile's.  *)
THEOREM LimiterTypeCorrect == LimiterSpec => []LimiterTypeOK
<1> DEFINE Inv == ChainKept /\ LimiterOK
<1>1. LimiterInit => Inv
  <2> SUFFICES ASSUME LimiterInit PROVE Inv
    OBVIOUS
  <2>1. ChainKept
    BY VenuesAreKept DEF LimiterInit, ChainInit, ChainKept, ChainOK, Kept
  <2>2. LimiterOK
    BY AsleepIsTyped, NoReadingIsTyped DEF LimiterInit, LimiterOK
  <2> QED BY <2>1, <2>2
<1>2. Inv /\ [LimiterNext]_<<chain, limiterVars>> => Inv'
  <2> SUFFICES ASSUME Inv, [LimiterNext]_<<chain, limiterVars>> PROVE Inv'
    OBVIOUS
  <2>1. CASE ConfigureChannels /\ UNCHANGED chain
    BY <2>1, StartingOverKeeps DEF ChainKept, ChainOK, chain
  <2>2. CASE UNCHANGED <<chain, limiterVars>>
    BY <2>2 DEF ChainKept, ChainOK, chain, LimiterOK, limiterVars
  <2> QED BY <2>1, <2>2, LimiterStepKeeps DEF LimiterNext
<1>3. Inv => LimiterTypeOK
  BY DEF ChainKept, LimiterTypeOK
<1> QED BY <1>1, <1>2, <1>3, PTL DEF LimiterSpec

================================================================================
