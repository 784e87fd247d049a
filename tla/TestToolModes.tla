---------------------------- MODULE TestToolModes ----------------------------
(***************************************************************************)
(* What the test page asks of GraphManager (web-ui/app/test_tool/routes.py *)
(* from _gm_client on): measurement mode with an open gate before it plays *)
(* tones, and the mode of before when it is left.  Each request runs in    *)
(* threads and opens a connection for every step.                          *)
(*                                                                         *)
(* The tones themselves, the calibration files and the cache that shows    *)
(* the mode are left out.                                                  *)
(***************************************************************************)
EXTENDS GmConnections

CONSTANTS
  Targets,      (* modes that restore-mode is asked for                     *)
  MaxAsked      (* bound: how many requests come                            *)

(* ensure-measurement-mode and restore-mode.                               *)
Route == {"ensure", "restore"}

ASSUME TestToolAssumption ==
  /\ Route \subseteq Client
  /\ Targets \subseteq Mode \ {"measurement"}

VARIABLES
  tool,         (* the two requests                                         *)
  asked         (* how many came                                            *)

toolVars == <<tool, asked>>

NoRequest == [at |-> "off", target |-> "measurement", ok |-> FALSE, open |-> FALSE]

ToolInit ==
  /\ tool = [r \in Route |-> NoRequest]
  /\ asked = 0

ToolStart(r) ==
  /\ tool[r].at = "off"
  /\ asked < MaxAsked
  /\ asked' = asked + 1
  /\ \E m \in IF r = "ensure" THEN {"measurement"} ELSE Targets :
       tool' = [tool EXCEPT ![r] =
                  [NoRequest EXCEPT !.at = "get_state", !.target = m]]
  /\ late' = Disowned(r)
  /\ UNCHANGED <<gmUp, mode, gateOpen, venue, conn, others, crashes>>

(* _gm_client: connections are opened for get_state, set_mode and get_gate *)
(* and used by what follows these.                                         *)
Opens == {"get_state", "set_mode", "get_gate"}

ToolAsk(r) ==
  LET q == IF tool[r].at = "set_mode"
             THEN [cmd |-> "set_mode", mode |-> tool[r].target]
             ELSE [cmd |-> tool[r].at]
  IN
  /\ tool[r].at # "off"
  /\ Free(r)
  /\ gmUp \/ tool[r].at \notin Opens
  /\ conn' = IF tool[r].at \in Opens
               THEN [conn EXCEPT ![r] = [Closed EXCEPT !.open = TRUE,
                                                       !.sent = <<q>>,
                                                       !.call = q.cmd]]
               ELSE Asking(r, q)
  /\ UNCHANGED <<toolVars, gmUp, mode, gateOpen, venue, late, others, crashes>>

(* What follows an answer, once the mode need not be set.  Whether the     *)
(* links settled is not looked at.                                         *)
Following(r, reply) ==
  CASE tool[r].at = "set_mode" -> "await_settled"
    [] tool[r].at \in {"get_state", "await_settled"} ->
         IF r = "ensure" THEN "get_gate" ELSE "off"
    [] tool[r].at = "get_gate" /\ reply.venue /\ ~reply.open -> "open_gate"
    [] OTHER -> "off"

(* A slip: outside measurement mode there is nothing to restore. *)
NextIfMeasuring(r, reply) ==
  IF tool[r].at = "get_state" /\ reply.mode # tool[r].target
       /\ (r = "restore" => reply.mode = "measurement")
    THEN "set_mode" ELSE Following(r, reply)

(* A mode that is there already is not set.                                *)
NextStep(r, reply) ==
  IF tool[r].at = "get_state" /\ reply.mode # tool[r].target
    THEN "set_mode" ELSE Following(r, reply)

ToolTakesAnswer(r) ==
  LET next == NextStep(r, Answer(r)) IN
  /\ ~Free(r)
  /\ Answered(r)
  /\ tool' = [tool EXCEPT ![r] =
                [@ EXCEPT !.at = next,
                          !.ok = next = "off",
                          !.open = r = "ensure" /\ next = "off" /\ Answer(r).open]]
  /\ IF next \in {"await_settled", "open_gate"}
       THEN conn' = Taken(r)
       ELSE conn' = [conn EXCEPT ![r] = Closed]
  /\ UNCHANGED <<asked, gmUp, mode, gateOpen, venue, late, others, crashes>>

(* No connection, no answer in time, or an error: a 502, except that a     *)
(* gate that cannot be opened is only told.                                *)
ToolGivesUp(r) ==
  /\ tool[r].at # "off"
  /\ ~Free(r) \/ (~gmUp /\ tool[r].at \in Opens)
  /\ tool' = [tool EXCEPT ![r] =
                [@ EXCEPT !.at = "off", !.ok = tool[r].at \in {"get_gate", "open_gate"}]]
  /\ conn' = [conn EXCEPT ![r] = Closed]
  /\ late' = Left(r)
  /\ UNCHANGED <<asked, gmUp, mode, gateOpen, venue, others, crashes>>

ToolStep ==
  \E r \in Route : ToolStart(r) \/ ToolAsk(r) \/ ToolTakesAnswer(r) \/ ToolGivesUp(r)

-----------------------------------------------------------------------------

(* A request that is answered without an error has the mode it was for,    *)
(* and the gate it tells to be open is open, unless others changed the     *)
(* mode after the request had seen it (routes.py, ensure_measurement_mode  *)
(* and restore_mode).                                                      *)
AnswersAreTrue ==
  \A r \in Route :
    tool[r].at = "off" /\ tool[r].ok =>
      \/ mode = tool[r].target /\ (tool[r].open => gateOpen)
      \/ others[r]

================================================================================
