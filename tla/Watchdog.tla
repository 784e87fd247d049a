------------------------------- MODULE Watchdog -------------------------------
(***************************************************************************)
(* The safety watchdog's pure state machine, watchdog.rs: a record and the *)
(* operators that GraphManager applies to it after every graph mutation    *)
(* and on the watchdog_unlatch command.                                    *)
(***************************************************************************)

CONSTANTS
  Monitored,   (* MONITORED_NODES: the names whose loss triggers the mute   *)
  Convolver    (* CONVOLVER_NODE_NAME: the node that carries the gains      *)

ASSUME MonitoredAssumption == Convolver \in Monitored

(* `stored` says that pre_mute_gains is not empty; what is stored there is *)
(* always the same table of production defaults.                           *)
WatchdogState ==
  [armed : BOOLEAN, latched : BOOLEAN, missing : SUBSET Monitored, stored : BOOLEAN]

WatchdogNew ==
  [armed |-> FALSE, latched |-> FALSE, missing |-> {}, stored |-> FALSE]

Missing(present) == Monitored \ present

(* This check latches the mute: armed, not latched yet, a node is missing. *)
Latches(wd, present) == wd.armed /\ ~wd.latched /\ Missing(present) # {}

(* Primary mute: the convolver is still there and takes Mult = 0.0. *)
MutesGains(wd, present) == Latches(wd, present) /\ Convolver \in present

(* Fallback mute: the convolver is gone, so the USBStreamer is unlinked. *)
MutesLinks(wd, present) == Latches(wd, present) /\ Convolver \notin present

Checked(wd, present) ==
  [wd EXCEPT
    !.armed   = @ \/ (~wd.latched /\ Missing(present) = {}),
    !.latched = @ \/ Latches(wd, present),
    !.missing = IF Latches(wd, present) THEN Missing(present) ELSE @,
    !.stored  = @ \/ MutesGains(wd, present)]

Unlatched(wd) == [wd EXCEPT !.latched = FALSE, !.missing = {}, !.stored = FALSE]

=============================================================================
