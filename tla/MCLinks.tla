------------------------------- MODULE MCLinks -------------------------------
(***************************************************************************)
(* GraphManager on a small instance about the links: the application, the  *)
(* convolver, the USBStreamer and a stream client come and go, other       *)
(* clients make links, and the operator changes modes.                     *)
(***************************************************************************)
EXTENDS GraphManager

MCName == {"reaper", "convolver", "convolver-out", "usb", "player"}

(* The application and the stream client "player", which the table does    *)
(* not name, in one process; what the system always runs in another.       *)
MCMixedTwo == {{"reaper", "player"}, {"convolver", "convolver-out", "usb"}}

MCNoUsb == {{"reaper"}, {"convolver", "convolver-out"}}

(* Both modes have the same quantum. *)
MCTable ==
  [m \in {"standby", "live"} |->
     {<<"convolver-out", "usb">>}
       \union (IF m = "live" THEN {<<"reaper", "convolver">>} ELSE {})]

(* A link the table wants in one mode only. *)
MCForeignPair == {<<"reaper", "convolver">>}

(* The stream client plays past the convolver and records from it. *)
MCStreamPair == {<<"player", "usb">>, <<"convolver-out", "player">>}

MCUsbPair == {<<"convolver-out", "usb">>}

(* One gain, at unity; with no venue the gains stay out of a run. *)
MCRestore == [p \in {"main"} |-> 1]

MCProfile == [v \in {} |-> MCRestore]

MCProfileOne == [v \in {"hall"} |-> MCRestore]

(* States that differ only in the epoch numbers are explored once: no      *)
(* guard but the bound's compares them with anything but each other.       *)
MCView ==
  <<up, links, mult, newNodes, newLinks, running, graph, proxies, mode,
    watchdog, gateOpen, settledEpoch = reconcileEpoch>>

=============================================================================
