---------------------------- MODULE GmConnections ----------------------------
(***************************************************************************)
(* Clients of GraphManager's RPC port (measurement/graph_manager_client.py *)
(* and, of GraphManager, what its answers depend on): each client has a    *)
(* connection, asks one thing after the other, and gives up on an answer   *)
(* after a while.  What it asked is then still under way, and its answer   *)
(* may be taken for that of a later request of the same name.              *)
(*                                                                         *)
(* Events are discarded by this client and left out.                       *)
(***************************************************************************)
EXTENDS Naturals, Sequences

CONSTANTS
  Client,
  None,
  MaxCrashes    (* bound: how often GraphManager ends                       *)

Mode == {"standby", "dj", "live", "measurement"}

Command == {"get_state", "set_mode", "await_settled", "get_gate", "open_gate"}

ASSUME GmAssumption == None \notin Client \union Mode \union Command

VARIABLES
  gmUp,         (* whether GraphManager runs                                *)
  mode,         (* its mode                                                 *)
  gateOpen,     (* its audio gate                                           *)
  venue,        (* whether it has a venue                                   *)
  conn,         (* the clients' connections                                 *)
  late,         (* requests that closed connections left behind, and whose  *)
  others,       (* whether others changed the mode since a client saw it    *)
  crashes       (* how often GraphManager ended                             *)

gmVars == <<gmUp, mode, gateOpen, venue, conn, late, others, crashes>>

Closed == [open |-> FALSE, sent |-> <<>>, got |-> <<>>, call |-> None]

GmInit ==
  /\ gmUp = TRUE
  /\ mode = "dj"
  /\ venue \in BOOLEAN
  /\ gateOpen \in {FALSE, venue}
  /\ conn = [c \in Client |-> Closed]
  /\ late = {}
  /\ others = [c \in Client |-> FALSE]
  /\ crashes = 0

-----------------------------------------------------------------------------
(* The client's side.                                                      *)

Connected(c) == [conn EXCEPT ![c] = [Closed EXCEPT !.open = TRUE]]

(* Closing does not take back what was sent.                               *)
Left(c) ==
  IF conn[c].sent = <<>> THEN late
  ELSE late \union {[by |-> c, sent |-> conn[c].sent]}

(* What c left behind is no longer its own once it starts over.            *)
Disowned(c) == {IF s.by = c THEN [s EXCEPT !.by = None] ELSE s : s \in late}

(* _send_cmd: the first half.                                              *)
Asking(c, q) ==
  [conn EXCEPT ![c].call = q.cmd,
               ![c].sent = IF conn[c].open THEN Append(@, q) ELSE @]

Free(c) == conn[c].call = None

(* _read_response: answers to other commands are passed over.              *)
Answered(c) == conn[c].got # <<>> /\ Head(conn[c].got).cmd = conn[c].call
Answer(c) == Head(conn[c].got)
Taken(c) == [conn EXCEPT ![c].call = None, ![c].got = Tail(@)]

PassOver(c) ==
  /\ ~Free(c)
  /\ conn[c].got # <<>>
  /\ ~Answered(c)
  /\ conn' = [conn EXCEPT ![c].got = Tail(@)]
  /\ UNCHANGED <<gmUp, mode, gateOpen, venue, late, others, crashes>>

(* A timeout, a closed connection, or an interrupt.                        *)
GivenUp(c) == [conn EXCEPT ![c].call = None]

-----------------------------------------------------------------------------
(* GraphManager's side.                                                    *)

(* A mode that there is not is refused; set_mode to standby closes the     *)
(* gate; open_gate wants a venue and the convolver.                        *)
Executed(q) ==
  /\ mode' = IF q.cmd = "set_mode" /\ q.mode \in Mode THEN q.mode ELSE mode
  /\ gateOpen' \in
       CASE q.cmd = "set_mode" /\ q.mode = "standby" /\ mode # "standby" -> {FALSE}
         [] q.cmd = "open_gate" /\ venue -> {gateOpen, TRUE}
         [] OTHER -> {gateOpen}

(* Whoever reads or sets the mode sees it.                                 *)
Seen(c, q) ==
  others' = [d \in Client |->
               IF d = c /\ q.cmd \in {"get_state", "set_mode"} THEN FALSE
               ELSE others[d] \/ mode' # mode]

Reply(q) ==
  [cmd |-> q.cmd, mode |-> mode, venue |-> venue, open |-> gateOpen']

Serve(c) ==
  LET q == Head(conn[c].sent) IN
  /\ gmUp
  /\ conn[c].sent # <<>>
  /\ Executed(q)
  /\ Seen(c, q)
  /\ conn' = [conn EXCEPT ![c].sent = Tail(@), ![c].got = Append(@, Reply(q))]
  /\ UNCHANGED <<gmUp, venue, late, crashes>>

ServeLate ==
  \E s \in late :
    /\ gmUp
    /\ Executed(Head(s.sent))
    /\ Seen(s.by, Head(s.sent))
    /\ late' = (late \ {s}) \union
                 (IF Len(s.sent) = 1 THEN {} ELSE {[s EXCEPT !.sent = Tail(@)]})
    /\ UNCHANGED <<gmUp, venue, conn, crashes>>

GmEnds ==
  /\ gmUp
  /\ crashes < MaxCrashes
  /\ crashes' = crashes + 1
  /\ gmUp' = FALSE
  /\ conn' = [c \in Client |-> [conn[c] EXCEPT !.open = FALSE, !.sent = <<>>]]
  /\ late' = {}
  /\ UNCHANGED <<mode, gateOpen, venue, others>>

(* As its unit starts it; the venue comes back from disk, the gate closed. *)
GmStarts ==
  /\ ~gmUp
  /\ gmUp' = TRUE
  /\ mode' = "dj"
  /\ gateOpen' = FALSE
  /\ others' = [c \in Client |-> TRUE]
  /\ UNCHANGED <<venue, conn, late, crashes>>

GmStep ==
  \/ \E c \in Client : PassOver(c) \/ Serve(c)
  \/ ServeLate
  \/ GmEnds
  \/ GmStarts

================================================================================
