----------------------------- MODULE GateContract -----------------------------
(***************************************************************************)
(* What the audio gate (D-063) and the watchdog together promise, seen     *)
(* from outside GraphManager: whether the gate is open, whether the safety *)
(* mute is latched and whether any gain is above zero.  Sound comes on     *)
(* only by a command; closing an open gate and the mute always silence.    *)
(***************************************************************************)

VARIABLES open, latched, loud

contract == <<open, latched, loud>>

Init == open = FALSE /\ latched = FALSE /\ loud = FALSE

(* open_gate; nothing is heard if the venue is silent or the convolver gone. *)
Open ==
  /\ ~open
  /\ open' = TRUE
  /\ loud' \in BOOLEAN
  /\ UNCHANGED latched

(* set_venue with the gate open: another venue's gains. *)
Switch ==
  /\ open
  /\ loud' \in BOOLEAN
  /\ UNCHANGED <<open, latched>>

(* close_gate, standby: an open gate never closes on a sounding system.    *)
Close ==
  /\ open' = FALSE
  /\ loud' => loud /\ ~open
  /\ UNCHANGED latched

(* The watchdog latches: the gate closes and the sound stops in one step.  *)
Mute ==
  /\ ~latched
  /\ latched' = TRUE
  /\ open' = FALSE
  /\ loud' = FALSE

(* watchdog_unlatch may bring sound back without the gate. *)
Unlatch ==
  /\ latched
  /\ latched' = FALSE
  /\ loud' \in BOOLEAN
  /\ UNCHANGED open

(* The convolver goes away, or comes back, with its gains at zero. *)
Lose ==
  /\ loud' = FALSE
  /\ UNCHANGED <<open, latched>>

(* GraphManager forgets; whatever sounds goes on sounding. *)
Restart ==
  /\ open' = FALSE
  /\ latched' = FALSE
  /\ UNCHANGED loud

Next == Open \/ Switch \/ Close \/ Mute \/ Unlatch \/ Lose \/ Restart

Spec == Init /\ [][Next]_contract

=============================================================================
