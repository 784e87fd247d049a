--------------------------------- MODULE TfMode ---------------------------------
(***************************************************************************)
(* The start and the stop of a transfer function measurement               *)
(* (web-ui/app/transfer_function_mode.py): measurement mode while it lasts *)
(* and the mode of before after it.  Each request opens a connection to    *)
(* GraphManager for each step and reads one line: the answer, or an event  *)
(* that GraphManager sends to whoever is connected.                        *)
(*                                                                         *)
(* The choice between design and verify, which is only stored and shown,   *)
(* is left out.                                                            *)
(***************************************************************************)
EXTENDS GmConnections

CONSTANTS
  MaxTfAsked    (* bound: starts, stops and modes that others set           *)

TfRoute == {"start", "stop"}

ASSUME TfAssumption ==
  /\ TfRoute \subseteq Client
  /\ None \notin {"unknown", "active", "error", "restored", "inactive"}
  /\ MaxTfAsked \in Nat

VARIABLES
  tf,           (* _state                                                   *)
  tfRequest,    (* one start and one stop                                   *)
  tfAsked,      (* how many came, and how often others set the mode         *)
  disturbed     (* whether they overlapped, a call of theirs raised an      *)
                (* error, other than the refusal of a mode that there is    *)
                (* not, or somebody else changed the mode                   *)

tfVars == <<tf, tfRequest, tfAsked, disturbed>>

(* What a request makes of a line that is not the answer. *)
Misread == [mode |-> "unknown", ok |-> FALSE]

TfInit ==
  /\ tf = [active |-> FALSE, previous |-> None]
  /\ tfRequest = [r \in TfRoute |-> [at |-> "off", target |-> "measurement", told |-> None]]
  /\ tfAsked = 0
  /\ disturbed = FALSE

(* A start that the operator has confirmed, and a stop. *)
TfArrives(r) ==
  /\ tfRequest[r].at = "off"
  /\ tfAsked < MaxTfAsked /\ tfAsked' = tfAsked + 1
  /\ tfRequest' =
       CASE r = "start" -> [tfRequest EXCEPT !.start.at = "get_state", !.start.told = None,
                                             !.stop.told = None]
         [] r = "stop" /\ tf.active -> [tfRequest EXCEPT !.stop =
              [at |-> "get_state", told |-> None,
               target |-> IF tf.previous = None THEN "standby" ELSE tf.previous]]
         [] OTHER -> [tfRequest EXCEPT !.stop.told = "inactive"]
  /\ disturbed' = (disturbed \/ \E q \in TfRoute : tfRequest[q].at # "off")
  /\ late' = Disowned(r)
  /\ UNCHANGED <<tf, gmUp, mode, gateOpen, venue, conn, others, crashes>>

(* _gm_rpc, which a thread runs, as far as it waits for a line. *)
TfAsk(r) ==
  LET q == IF tfRequest[r].at = "set_mode"
             THEN [cmd |-> "set_mode", mode |-> tfRequest[r].target]
             ELSE [cmd |-> "get_state"]
  IN
  /\ tfRequest[r].at # "off" /\ Free(r) /\ gmUp
  /\ conn' = [conn EXCEPT ![r] = [Closed EXCEPT !.open = TRUE, !.sent = <<q>>, !.call = q.cmd]]
  /\ UNCHANGED <<tfVars, gmUp, mode, gateOpen, venue, late, others, crashes>>

(* The end of a request, whether a stop has set the mode or not. *)
TfEnds(r, told) ==
  /\ tfRequest' = [tfRequest EXCEPT ![r].at = "off", ![r].told = told]
  /\ tf' = CASE r = "stop"      -> [active |-> FALSE, previous |-> None]
             [] told = "active" -> [tf EXCEPT !.active = TRUE]
             [] OTHER           -> tf

TfSets(r) == tfRequest' = [tfRequest EXCEPT ![r].at = "set_mode"]

(* Slip: a measurement that is active has set the mode already. *)
StartFollowsIfInactive(reply) ==
  CASE tfRequest["start"].at = "get_state" /\ reply.mode # "measurement" /\ ~tf.active ->
         TfSets("start") /\ tf' = [tf EXCEPT !.previous = reply.mode]
    [] tfRequest["start"].at = "set_mode" /\ ~reply.ok -> TfEnds("start", "error")
    [] OTHER -> TfEnds("start", "active")

StartFollows(reply) ==
  CASE tfRequest["start"].at = "get_state" /\ reply.mode # "measurement" ->
         TfSets("start") /\ tf' = [tf EXCEPT !.previous = reply.mode]
    [] tfRequest["start"].at = "set_mode" /\ ~reply.ok -> TfEnds("start", "error")
    [] OTHER -> TfEnds("start", "active")

StopFollows(reply) ==
  IF tfRequest["stop"].at = "get_state" /\ reply.mode = "measurement"
    THEN TfSets("stop") /\ UNCHANGED tf
    ELSE TfEnds("stop", "restored")

TfFollows(r, reply) == IF r = "start" THEN StartFollows(reply) ELSE StopFollows(reply)

TfTakesAnswer(r) ==
  /\ ~Free(r) /\ Answered(r)
  /\ TfFollows(r, [mode |-> Answer(r).mode, ok |-> tfRequest[r].target \in Mode])
  /\ conn' = [conn EXCEPT ![r] = Closed]
  /\ UNCHANGED <<tfAsked, disturbed, gmUp, mode, gateOpen, venue, late, others, crashes>>

(* An event has no mode, which is taken for "unknown", and no ok, which    *)
(* for set_mode is an error.  What the closed connection leaves behind is  *)
(* nobody's.                                                               *)
TfTakesEvent(r) ==
  /\ ~Free(r) /\ conn[r].open
  /\ TfFollows(r, Misread)
  /\ disturbed' = (disturbed \/ tfRequest[r].at = "set_mode")
  /\ conn' = [conn EXCEPT ![r] = Closed]
  /\ late' = {IF s.by = r THEN [s EXCEPT !.by = None] ELSE s : s \in Left(r)}
  /\ UNCHANGED <<tfAsked, gmUp, mode, gateOpen, venue, others, crashes>>

(* No connection or no line in time, or two lines at once: a 502, and for  *)
(* a stop a warning in the log.                                            *)
TfFails(r) ==
  /\ tfRequest[r].at # "off" /\ (~Free(r) \/ ~gmUp)
  /\ TfEnds(r, IF r = "stop" THEN "restored" ELSE "error")
  /\ conn' = [conn EXCEPT ![r] = Closed]
  /\ late' = Left(r)
  /\ disturbed' = TRUE
  /\ UNCHANGED <<tfAsked, gmUp, mode, gateOpen, venue, others, crashes>>

(* Any other client of GraphManager. *)
OthersSet(m) ==
  /\ gmUp /\ mode # m /\ tfAsked < MaxTfAsked /\ tfAsked' = tfAsked + 1
  /\ mode' = m
  /\ gateOpen' \in {gateOpen /\ m # "standby"}
  /\ others' = [c \in Client |-> TRUE]
  /\ disturbed' = TRUE
  /\ UNCHANGED <<tf, tfRequest, gmUp, venue, conn, late, crashes>>

TfNext ==
  \/ \E r \in TfRoute :
       TfArrives(r) \/ TfAsk(r) \/ TfTakesAnswer(r) \/ TfTakesEvent(r) \/ TfFails(r)
  \/ \E m \in Mode : OthersSet(m)
  \/ GmStep /\ UNCHANGED <<tf, tfRequest, tfAsked>> /\ disturbed' = (disturbed \/ gmUp' # gmUp)

TfModeSpec == GmInit /\ TfInit /\ [][TfNext]_<<gmVars, tfVars>>

--------------------------------------------------------------------------------
(* A start that answers that the measurement is active has GraphManager in *)
(* measurement mode, unless another request or client changed the mode     *)
(* after the start had seen it: whatever is misread, late or restarted     *)
(* (start_tf_measurement, "Switches GM to measurement mode").              *)
StartsInMeasurementMode ==
  tfRequest["start"].told = "active" => mode = "measurement" \/ others["start"]

(* The module's doc: "POST /api/v1/tf/stop  Stop TF measurement (restore   *)
(* previous GM mode)".  After a stop, GraphManager, which was not in       *)
(* measurement mode before the first start, is not in it any more, unless  *)
(* requests overlapped, a call of theirs raised an error, or somebody else *)
(* set the mode.                                                           *)
StopRestores ==
  tfRequest["stop"].told # None /\ tfRequest["start"].at = "off" /\ ~disturbed
    => mode # "measurement"

================================================================================
