------------------------------ MODULE AudioMute ------------------------------
(***************************************************************************)
(* AudioMuteManager of the web UI (audio_mute.py).  Every request to mute  *)
(* or unmute is a coroutine of its own; between two awaits it runs alone,  *)
(* at each await any other may run.  So there is one step per awaited      *)
(* command, which ends just before the next await; a request that is       *)
(* answered without an await and changes nothing is no step.               *)
(***************************************************************************)
EXTENDS FilterChain

CONSTANT Request  (* requests that may be under way at the same time        *)

VARIABLES
  isMuted,  (* is_muted                                                     *)
  stored,   (* _pre_mute_gains, NoGains when empty                          *)
  request   (* the coroutine of each request                                *)

muteVars == <<isMuted, stored, request>>

NoGains == << >>

(* `at` is what the coroutine awaits, for gain `next` of those on its      *)
(* list, and `gains` is pre_mute, or the values that unmute writes back.   *)
Idle == [at |-> "idle", next |-> 1, id |-> NoId, gains |-> NoGains]

RequestState ==
  [at    : {"idle", "mute_dump", "read", "zero", "mute",
            "unmute_dump", "unmute"},
   next  : Param,
   id    : Id \union {NoId},
   gains : [Param -> Level] \union {NoGains}]

MuteOK ==
  /\ isMuted \in BOOLEAN
  /\ stored \in [Param -> Level] \union {NoGains}
  /\ request \in [Request -> RequestState]

MuteInit ==
  /\ ChainInit
  /\ isMuted = FALSE
  /\ stored = NoGains
  /\ request = [r \in Request |-> Idle]

At(r, place) == request[r].at = place

Goes(r, state) == request' = [request EXCEPT ![r] = state]

(* The request is answered with an error and has changed nothing. *)
GivesUp(r) == Goes(r, Idle) /\ UNCHANGED <<isMuted, stored>>

-----------------------------------------------------------------------------
Mute(r) ==
  /\ At(r, "idle")
  /\ ~isMuted
  /\ Goes(r, [Idle EXCEPT !.at = "mute_dump"])
  /\ UNCHANGED <<chain, isMuted, stored>>

(* pw-dump may fail, find no convolver, or leave out the gains, which are  *)
(* then read one by one (F-057).                                           *)
MuteDump(r) ==
  /\ At(r, "mute_dump")
  /\ \/ GivesUp(r)
     \/ /\ convolver # NoId
        /\ \E found \in {"mute", "read"} :
             Goes(r, [at |-> found, next |-> 1, id |-> convolver,
                      gains |-> IF found = "mute" THEN mult ELSE Silence])
        /\ UNCHANGED <<isMuted, stored>>
  /\ UNCHANGED chain

(* A slip: a gain that cannot be read is taken to be at unity. *)
FullIfUnread(r) == {IF convolver = request[r].id THEN mult[request[r].next] ELSE Full}
                     \union (IF MayFail THEN {Full} ELSE {})

(* A gain that cannot be read is taken to be zero. *)
ZeroIfUnread(r) == {IF convolver = request[r].id THEN mult[request[r].next] ELSE 0}
                     \union (IF MayFail THEN {0} ELSE {})

MuteRead(r) ==
  /\ At(r, "read")
  /\ \E level \in ZeroIfUnread(r) :
       Goes(r, [request[r] EXCEPT !.at = "zero", !.gains[request[r].next] = level])
  /\ UNCHANGED <<chain, isMuted, stored>>

Last(r) == request[r].next = Gains

(* A gain that pw-cli fails to set is only logged. *)
MuteSet(r) ==
  /\ At(r, "mute") \/ At(r, "zero")
  /\ \E ok \in BOOLEAN : SetMult(request[r].id, request[r].next, 0, ok)
  /\ IF Last(r)
       THEN /\ stored' = request[r].gains
            /\ isMuted' = TRUE
            /\ Goes(r, Idle)
       ELSE /\ Goes(r, [request[r] EXCEPT !.next = @ + 1,
                                         !.at = IF @ = "zero" THEN "read" ELSE @])
            /\ UNCHANGED <<isMuted, stored>>

-----------------------------------------------------------------------------
(* Without stored gains the mute is called off and an error returned. *)
Unmute(r) ==
  /\ At(r, "idle")
  /\ isMuted
  /\ IF stored = NoGains
       THEN isMuted' = FALSE /\ UNCHANGED request
       ELSE Goes(r, [Idle EXCEPT !.at = "unmute_dump"]) /\ UNCHANGED isMuted
  /\ UNCHANGED <<chain, stored>>

Unmuted(r) ==
  /\ isMuted' = FALSE
  /\ stored' = NoGains
  /\ Goes(r, Idle)

(* The gains are those stored by now.  Without a convolver all of them are *)
(* skipped, and forgotten.                                                 *)
UnmuteDump(r) ==
  /\ At(r, "unmute_dump")
  /\ \/ GivesUp(r)
     \/ (convolver = NoId \/ stored = NoGains) /\ Unmuted(r)
     \/ /\ convolver # NoId
        /\ stored # NoGains
        /\ Goes(r, [at |-> "unmute", next |-> 1, id |-> convolver, gains |-> stored])
        /\ UNCHANGED <<isMuted, stored>>
  /\ UNCHANGED chain

UnmuteSet(r) ==
  /\ At(r, "unmute")
  /\ LET n == request[r].next IN
       \E ok \in BOOLEAN : SetMult(request[r].id, n, request[r].gains[n], ok)
  /\ IF Last(r)
       THEN Unmuted(r)
       ELSE /\ Goes(r, [request[r] EXCEPT !.next = @ + 1])
            /\ UNCHANGED <<isMuted, stored>>

-----------------------------------------------------------------------------
Step(r) ==
  \/ Mute(r)
  \/ MuteDump(r)
  \/ MuteRead(r)
  \/ MuteSet(r)
  \/ Unmute(r)
  \/ UnmuteDump(r)
  \/ UnmuteSet(r)

(* The web UI's process starts anew and has forgotten it all. *)
MuteRestart ==
  /\ isMuted' = FALSE
  /\ stored' = NoGains
  /\ request' = [r \in Request |-> Idle]

-----------------------------------------------------------------------------
MuteTypeOK == ChainOK /\ MuteOK

=============================================================================
