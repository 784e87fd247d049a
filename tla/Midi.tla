---------------------------------- MODULE Midi ----------------------------------
(***************************************************************************)
(* The pad controller (midi/midi-system-controller.py), one loop between   *)
(* the hardware and Reaper: the pads are Reaper's, or after the shift      *)
(* button the system's, of which the destructive ones must be pressed      *)
(* twice.                                                                  *)
(*                                                                         *)
(* Timers are only looked at when no message waits, so that a press can    *)
(* come after its deadline; a step here may come at any time.  What an     *)
(* action runs, and whether that succeeds, is left out: the loop goes on   *)
(* in the same way.  The lights and what Reaper sends are left out, too.   *)
(***************************************************************************)
CONSTANTS
  Pad,
  NoPad,
  Mapped,       (* system_map                                               *)
  Destructive,  (* those with confirm                                       *)
  Known         (* those whose action is in ACTION_DISPATCH                 *)

ASSUME MidiAssumption ==
  /\ Destructive \subseteq Mapped /\ Mapped \subseteq Pad /\ Known \subseteq Mapped
  /\ NoPad \notin Pad

VARIABLES
  grid,         (* grid_mode                                                *)
  pending,      (* pending_note, whose action is pending_action             *)
  before,       (* history: the last press that the system took, unless an  *)
                (* action, a timer, the shift button or a new start followed *)
  ran           (* the pad whose action the last step ran, and that pressed *)

midiVars == <<grid, pending, before, ran>>

Nothing == [action |-> NoPad, press |-> NoPad]

MidiInit == grid = "reaper" /\ pending = NoPad /\ before = NoPad /\ ran = Nothing

--------------------------------------------------------------------------------
EnterReaperMode == grid' = "reaper" /\ pending' = NoPad

EnterSystemMode == grid' = "system" /\ pending' = NoPad

Unpressed == before' = NoPad /\ ran' = Nothing

(* In confirming, too, it leads to Reaper. *)
Shift ==
  /\ IF grid = "reaper" THEN EnterSystemMode ELSE EnterReaperMode
  /\ Unpressed

(* execute_action of the pad q, with the press of p: an action that there  *)
(* is not leaves everything as it is.                                      *)
Execute(q, p, from) ==
  /\ before' = NoPad
  /\ IF q \in Known
       THEN ran' = [action |-> q, press |-> p] /\ EnterSystemMode
       ELSE ran' = Nothing /\ grid' = from /\ UNCHANGED pending

EnterConfirming(p) ==
  /\ grid' = "confirming" /\ pending' = p
  /\ before' = p /\ ran' = Nothing

(* handle_system_button, also for a pad that calls a confirmation off.     *)
SystemButton(p) ==
  \/ p \notin Mapped /\ grid' = "system" /\ before' = p /\ ran' = Nothing /\ UNCHANGED pending
  \/ p \in Destructive /\ EnterConfirming(p)
  \/ p \in Mapped \ Destructive /\ Execute(p, p, "system")

(* Slip: any pad confirms. *)
AnyPadConfirms(p) == Execute(pending, p, "confirming")

(* handle_confirm_button *)
ConfirmButton(p) ==
  IF p = pending THEN Execute(pending, p, "confirming") ELSE SystemButton(p)

(* handle_hw_message for a pad; in Reaper's mode Reaper gets it. *)
Press(p) ==
  \/ grid = "reaper"     /\ ran' = Nothing /\ UNCHANGED <<grid, pending, before>>
  \/ grid = "system"     /\ SystemButton(p)
  \/ grid = "confirming" /\ ConfirmButton(p)

--------------------------------------------------------------------------------
(* check_timeouts *)

SystemTimeout == grid = "system" /\ EnterReaperMode /\ Unpressed

ConfirmationTimeout == grid = "confirming" /\ EnterSystemMode /\ Unpressed

(* main: after an error a new controller. *)
MidiRestarts == EnterReaperMode /\ Unpressed

MidiNext ==
  \/ Shift \/ SystemTimeout \/ ConfirmationTimeout \/ MidiRestarts
  \/ \E p \in Pad : Press(p)

MidiSpec == MidiInit /\ [][MidiNext]_midiVars

--------------------------------------------------------------------------------
(* "destructive action awaiting 2nd press": it runs only when the system   *)
(* took two presses of its pad one after the other, with no other press,   *)
(* action, timer, shift button or new start in between, however often a    *)
(* confirmation was begun and called off.                                  *)
ConfirmedTwice ==
  [][ran'.action \in Destructive => before = ran'.action /\ ran'.press = ran'.action]_midiVars

================================================================================
