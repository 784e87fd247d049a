------------------------------- MODULE RpcServer -------------------------------
(***************************************************************************)
(* GraphManager's RPC server (graph-manager/src/rpc.rs) between its        *)
(* clients and the main loop (dispatch_rpc_command in main.rs).            *)
(*                                                                         *)
(* One thread accepts connections, one broadcasts events to all clients,   *)
(* and one per connection reads a request, hands it to the main loop,      *)
(* waits for the reply and writes the answer.  The handler and the         *)
(* broadcast write to the same socket, and the broadcast keeps the list of *)
(* clients locked while it writes.  A write_all that does not find room    *)
(* for its line puts what fits and waits, so a line has two halves here.   *)
(* Routing and sound are GraphManager's (see there); of the state that     *)
(* commands touch, this module keeps the mode and, step by step, the       *)
(* persisted venue.                                                        *)
(***************************************************************************)
EXTENDS VenueStore, Sequences

CONSTANTS
  Client,       (* connections                                              *)
  Mode,
  InitialMode,
  Request,      (* what each client may send                                *)
  NoOne,        (* no client, no answer, no event                           *)
  Dropped,      (* the main loop went away without an answer                *)
  Room,         (* half lines that a socket holds                           *)
  MaxAsked,     (* bound: requests on one connection                        *)
  MaxStarts     (* bound: starts of GraphManager                            *)

Operations == {"open_gate", "close_gate", "watchdog_unlatch"}

(* What the main loop answers.                                             *)
Answer ==
  ({"ack", "error"} \X (Operations \union {"set_mode", "set_venue", "await_settled"}))
    \union ({"state"} \X Mode \X (Venue \union {NoVenue}))

ASSUME RpcAssumption ==
  /\ InitialMode \in Mode
  /\ NoOne \notin Client \union Answer \union {Dropped}
  /\ \A c \in Client : \A r \in Request[c] : r[1] = "set_mode" => r[2] \in Mode
  /\ Room \in Nat \ {0}
  /\ MaxAsked \in Nat
  /\ MaxStarts \in Nat

VARIABLES
  loop,       (* the main loop: "up", "stopping", "gone", "down"            *)
  mode,       (* current_mode                                               *)
  stored,     (* stored_mode                                                *)
  commands,   (* clients whose command waits in cmd_rx                      *)
  setting,    (* the client whose set_venue the main loop is persisting     *)
  waiters,    (* pending_waiters                                            *)
  events,     (* event_rx                                                   *)
  accepted,   (* the connection accepted and not yet listed                 *)
  listed,     (* ClientList                                                 *)
  cast,       (* the event thread: event, clients left, a line half written *)
  thread,     (* each connection's handle_client                            *)
  conn,       (* each connection, as its client sees it                     *)
  sent,       (* requests on their way to the server                        *)
  wire,       (* half lines on their way to each client                     *)
  asked,      (* requests each client has sent                              *)
  starts

loopVars == <<loop, mode, commands, setting, waiters>>
netVars  == <<conn, sent, asked>>
castVars == <<events, cast>>
rpcVars  == <<storeVars, loopVars, stored, castVars, accepted, listed, thread,
              netVars, wire, starts>>

Idle == [event |-> NoOne, left |-> << >>, half |-> FALSE]

Thread(at) == [at |-> at, request |-> NoOne, answer |-> NoOne, half |-> FALSE]

RpcInit ==
  /\ StoreInit
  /\ loop = "down"
  /\ mode = InitialMode
  /\ stored = InitialMode
  /\ commands = << >>
  /\ setting = NoOne
  /\ waiters = {}
  /\ events = << >>
  /\ accepted = NoOne
  /\ listed = << >>
  /\ cast = Idle
  /\ thread = [c \in Client |-> Thread("none")]
  /\ conn = [c \in Client |-> "none"]
  /\ sent = [c \in Client |-> << >>]
  /\ wire = [c \in Client |-> << >>]
  /\ asked = [c \in Client |-> 0]
  /\ starts = 0

-----------------------------------------------------------------------------
(* Clients.                                                                *)

Connect(c) ==
  /\ conn[c] = "none"
  /\ loop # "down"
  /\ conn' = [conn EXCEPT ![c] = "pending"]
  /\ UNCHANGED <<storeVars, loopVars, stored, castVars, accepted, listed,
                 thread, sent, asked, wire, starts>>

Ask(c) ==
  /\ conn[c] = "open"
  /\ asked[c] < MaxAsked
  /\ asked' = [asked EXCEPT ![c] = @ + 1]
  /\ \E r \in Request[c] : sent' = [sent EXCEPT ![c] = Append(@, r)]
  /\ UNCHANGED <<storeVars, loopVars, stored, castVars, accepted, listed,
                 thread, conn, wire, starts>>

ReadWire(c) ==
  /\ conn[c] = "open"
  /\ wire[c] # << >>
  /\ wire' = [wire EXCEPT ![c] = Tail(@)]
  /\ UNCHANGED <<storeVars, loopVars, stored, castVars, accepted, listed,
                 thread, netVars, starts>>

Disconnect(c) ==
  /\ conn[c] = "open"
  /\ conn' = [conn EXCEPT ![c] = "closed"]
  /\ wire' = [wire EXCEPT ![c] = << >>]
  /\ UNCHANGED <<storeVars, loopVars, stored, castVars, accepted, listed,
                 thread, sent, asked, starts>>

-----------------------------------------------------------------------------
(* The threads of the server.                                              *)

(* run_rpc_server takes a connection unless it was told to shut down, ...  *)
Accept(c) ==
  /\ conn[c] = "pending"
  /\ loop = "up"
  /\ accepted = NoOne
  /\ accepted' = c
  /\ conn' = [conn EXCEPT ![c] = "open"]
  /\ UNCHANGED <<storeVars, loopVars, stored, castVars, listed, thread, sent,
                 asked, wire, starts>>

(* ... and lists it as soon as no broadcast has the list.                  *)
Serve ==
  /\ accepted # NoOne
  /\ cast.left = << >>
  /\ listed' = Append(listed, accepted)
  /\ thread' = [thread EXCEPT ![accepted] = Thread("reading")]
  /\ accepted' = NoOne
  /\ UNCHANGED <<storeVars, loopVars, stored, castVars, netVars, wire, starts>>

(* What is left of a line of which a half may be written.                  *)
Rest(line, half) == IF half THEN <<<<line, "end">>>> ELSE <<<<line, "start">>, <<line, "end">>>>

(* write_all puts all that is left of the line, ...                        *)
PutRest(c, line, half) ==
  /\ Len(wire[c]) + Len(Rest(line, half)) <= Room
  /\ wire' = [wire EXCEPT ![c] = @ \o Rest(line, half)]

(* ... or what there is room for.                                          *)
PutStart(c, line, half) ==
  /\ ~half
  /\ Len(wire[c]) + 1 = Room
  /\ wire' = [wire EXCEPT ![c] = Append(@, <<line, "start">>)]

(* The event thread takes the next event, and with it the list, ...        *)
Announce ==
  /\ cast.left = << >>
  /\ events # << >>
  /\ events' = Tail(events)
  /\ cast' = IF listed = << >> THEN Idle
             ELSE [event |-> Head(events), left |-> listed, half |-> FALSE]
  /\ UNCHANGED <<storeVars, loopVars, stored, accepted, listed, thread,
                 netVars, wire, starts>>

Told == IF Len(cast.left) = 1 THEN Idle
        ELSE [cast EXCEPT !.left = Tail(@), !.half = FALSE]

(* ... and writes to one client after the other; a client whose socket is  *)
(* closed is dropped from the list.                                        *)
Broadcast ==
  /\ cast.left # << >>
  /\ LET c == Head(cast.left)
     IN \/ /\ conn[c] = "open"
           /\ UNCHANGED listed
           /\ \/ PutRest(c, <<"event", cast.event>>, cast.half) /\ cast' = Told
              \/ /\ PutStart(c, <<"event", cast.event>>, cast.half)
                 /\ cast' = [cast EXCEPT !.half = TRUE]
        \/ /\ conn[c] # "open"
           /\ cast' = Told
           /\ listed' = SelectSeq(listed, LAMBDA other : other # c)
           /\ UNCHANGED wire
  /\ UNCHANGED <<storeVars, loopVars, stored, events, accepted, thread,
                 netVars, starts>>

(* Commands whose answer, when the main loop is gone, is made up from      *)
(* defaults and the stored mode; all others are errors then.               *)
Queries ==
  {"get_state", "get_devices", "get_links", "watchdog_status",
   "gain_integrity_status", "get_graph_info", "list_venues", "get_venue", "get_gate"}

WhenGone(r) ==
  IF r[1] \in Queries THEN <<"state", stored, NoVenue>> ELSE <<"error", r[1]>>

(* Back at the top of handle_client's loop. *)
Ready == Thread(IF loop = "up" THEN "reading" ELSE "none")

Answering(r, answer) ==
  [at |-> "writing", request |-> r, answer |-> answer, half |-> FALSE]

(* handle_request, and parse_line before it: what a thread does with a     *)
(* line.  What needs nothing from the main loop is answered at once.       *)
Handled(r) ==
  CASE r[1] = "blank" -> Ready
    [] r[1] = "ping" -> Answering(r, <<"ack", "ping">>)
    [] r[1] = "bad" -> Answering(r, <<"error", "">>)
    [] OTHER -> IF loop = "gone" THEN Answering(r, WhenGone(r))
                ELSE [Thread("waiting") EXCEPT !.request = r]

ReadLine(c) ==
  /\ thread[c].at = "reading"
  /\ sent[c] # << >>
  /\ sent' = [sent EXCEPT ![c] = Tail(@)]
  /\ thread' = [thread EXCEPT ![c] = Handled(Head(sent[c]))]
  /\ commands' = IF thread'[c].at = "waiting" THEN Append(commands, c) ELSE commands
  /\ UNCHANGED <<storeVars, loop, mode, setting, waiters, stored, castVars,
                 accepted, listed, conn, asked, wire, starts>>

EndOfFile(c) ==
  /\ thread[c].at = "reading"
  /\ sent[c] = << >>
  /\ conn[c] = "closed"
  /\ thread' = [thread EXCEPT ![c] = Thread("none")]
  /\ UNCHANGED <<storeVars, loopVars, stored, castVars, accepted, listed,
                 netVars, wire, starts>>

(* recv on the reply channel; set_mode's thread stores the mode.           *)
Receive(c) ==
  /\ thread[c].at = "waiting"
  /\ thread[c].answer # NoOne
  /\ LET r == thread[c].request
         answer == thread[c].answer
     IN /\ thread' = [thread EXCEPT ![c] =
                        Answering(r, IF answer = Dropped THEN WhenGone(r) ELSE answer)]
        /\ stored' = IF answer = <<"ack", "set_mode">> THEN r[2] ELSE stored
  /\ UNCHANGED <<storeVars, loopVars, castVars, accepted, listed, netVars,
                 wire, starts>>

WriteAnswer(c) ==
  /\ thread[c].at = "writing"
  /\ \/ /\ conn[c] = "open"
        /\ \/ /\ PutRest(c, thread[c].answer, thread[c].half)
              /\ thread' = [thread EXCEPT ![c] = Ready]
           \/ /\ PutStart(c, thread[c].answer, thread[c].half)
              /\ thread' = [thread EXCEPT ![c].half = TRUE]
     \/ /\ conn[c] = "closed"
        /\ thread' = [thread EXCEPT ![c] = Thread("none")]
        /\ UNCHANGED wire
  /\ UNCHANGED <<storeVars, loopVars, stored, castVars, accepted, listed,
                 netVars, starts>>

-----------------------------------------------------------------------------
(* The main loop, which persists a venue inside a command's handler.       *)

Free == loop \in {"up", "stopping"} /\ setting = NoOne /\ store \notin Busy

Answered(c, answer) == [thread EXCEPT ![c].answer = answer]

(* A mode that is in force already is acknowledged and not announced.      *)
SetMode(c, m) ==
  /\ mode' = m
  /\ events' = IF m = mode THEN events ELSE Append(events, m)
  /\ thread' = Answered(c, <<"ack", "set_mode">>)
  /\ UNCHANGED <<storeVars, setting, waiters>>

Query(c) ==
  /\ thread' = Answered(c, <<"state", mode, active>>)
  /\ UNCHANGED <<storeVars, mode, events, setting, waiters>>

SetVenue(c, v) ==
  /\ IF v \in Profile
       THEN /\ ChooseVenue(v)
            /\ setting' = c
            /\ UNCHANGED thread
       ELSE /\ thread' = Answered(c, <<"error", "set_venue">>)
            /\ UNCHANGED <<storeVars, setting>>
  /\ UNCHANGED <<mode, events, waiters>>

(* Gate and watchdog, whose state is GraphManager's: done and announced, or *)
(* refused; a gate can always be closed.                                   *)
Operate(c, what) ==
  /\ \/ /\ thread' = Answered(c, <<"ack", what>>)
        /\ events' = Append(events, what)
     \/ /\ what # "close_gate"
        /\ thread' = Answered(c, <<"error", what>>)
        /\ UNCHANGED events
  /\ UNCHANGED <<storeVars, mode, setting, waiters>>

(* Settled already, or to wait until it is. *)
AwaitSettled(c) ==
  /\ \/ /\ thread' = Answered(c, <<"ack", "await_settled">>)
        /\ UNCHANGED waiters
     \/ /\ waiters' = waiters \union {c}
        /\ UNCHANGED thread
  /\ UNCHANGED <<storeVars, mode, events, setting>>

Dispatch ==
  /\ Free
  /\ commands # << >>
  /\ commands' = Tail(commands)
  /\ LET c == Head(commands)
         r == thread[c].request
     IN CASE r[1] = "set_mode" -> SetMode(c, r[2])
          [] r[1] \in Queries -> Query(c)
          [] r[1] \in Operations -> Operate(c, r[1])
          [] r[1] = "set_venue" -> SetVenue(c, r[2])
          [] OTHER -> AwaitSettled(c)
  /\ UNCHANGED <<loop, stored, cast, accepted, listed, netVars, wire, starts>>

Persist ==
  /\ PersistStep
  /\ IF setting # NoOne /\ store' \notin Busy
       THEN thread' = Answered(setting, <<"ack", "set_venue">>) /\ setting' = NoOne
       ELSE UNCHANGED <<thread, setting>>
  /\ UNCHANGED <<loop, mode, commands, waiters, stored, castVars, accepted,
                 listed, netVars, wire, starts>>

(* A slip: a waiter is answered only once the graph has settled. *)
AnswerIfSettled(c) ==
  /\ Free
  /\ c \in waiters
  /\ mode = InitialMode
  /\ waiters' = waiters \ {c}
  /\ thread' = Answered(c, <<"ack", "await_settled">>)
  /\ UNCHANGED <<storeVars, loop, mode, commands, setting, stored, castVars,
                 accepted, listed, netVars, wire, starts>>

(* check_pending_waiters: settled, or past its deadline. *)
AnswerWaiter(c) ==
  /\ Free
  /\ c \in waiters
  /\ waiters' = waiters \ {c}
  /\ thread' \in {Answered(c, <<answer, "await_settled">>) : answer \in {"ack", "error"}}
  /\ UNCHANGED <<storeVars, loop, mode, commands, setting, stored, castVars,
                 accepted, listed, netVars, wire, starts>>

-----------------------------------------------------------------------------
(* Start and end.                                                          *)

(* The threads start before the main loop, which restores the venue first. *)
(* A server that cannot bind its address gives up, and that is all.        *)
Start ==
  /\ loop = "down"
  /\ starts < MaxStarts
  /\ starts' = starts + 1
  /\ StoreStart
  /\ loop' = "up"
  /\ mode' = InitialMode
  /\ stored' = InitialMode
  /\ conn' \in {conn, [c \in Client |-> "refused"]}
  /\ UNCHANGED <<commands, setting, waiters, castVars, accepted, listed,
                 thread, sent, asked, wire>>

Signal ==
  /\ loop = "up"
  /\ loop' = "stopping"
  /\ UNCHANGED <<storeVars, mode, commands, setting, waiters, stored, castVars,
                 accepted, listed, thread, netVars, wire, starts>>

(* A slip: those who wait for settlement are answered and kept. *)
QuitWithWaiters ==
  /\ loop = "stopping"
  /\ Free
  /\ loop' = "gone"
  /\ commands' = << >>
  /\ thread' = [c \in Client |->
                  IF thread[c].at = "waiting" /\ thread[c].answer = NoOne
                    THEN [thread[c] EXCEPT !.answer = Dropped] ELSE thread[c]]
  /\ UNCHANGED <<storeVars, mode, setting, waiters, stored, castVars, accepted,
                 listed, netVars, wire, starts>>

(* The receiver of commands is dropped, with all that waits for replies.   *)
Quit ==
  /\ loop = "stopping"
  /\ Free
  /\ loop' = "gone"
  /\ commands' = << >>
  /\ waiters' = {}
  /\ thread' = [c \in Client |->
                  IF thread[c].at = "waiting" /\ thread[c].answer = NoOne
                    THEN [thread[c] EXCEPT !.answer = Dropped] ELSE thread[c]]
  /\ UNCHANGED <<storeVars, mode, setting, stored, castVars, accepted, listed,
                 netVars, wire, starts>>

(* main returns and ends every thread, or the process is killed, or the    *)
(* power fails.                                                            *)
End ==
  /\ loop # "down"
  /\ StoreStop \/ PowerFailure
  /\ loop' = "down"
  /\ commands' = << >>
  /\ setting' = NoOne
  /\ waiters' = {}
  /\ events' = << >>
  /\ accepted' = NoOne
  /\ listed' = << >>
  /\ cast' = Idle
  /\ thread' = [c \in Client |-> Thread("none")]
  /\ conn' = [c \in Client |-> "none"]
  /\ sent' = [c \in Client |-> << >>]
  /\ wire' = [c \in Client |-> << >>]
  /\ UNCHANGED <<mode, stored, asked, starts>>

FileSystem ==
  /\ WriteBack
  /\ UNCHANGED <<loopVars, stored, castVars, accepted, listed, thread, netVars,
                 wire, starts>>

ServerStep ==
  \/ \E c \in Client : Accept(c)
  \/ Serve
  \/ Announce
  \/ Broadcast
  \/ \E c \in Client :
       ReadLine(c) \/ EndOfFile(c) \/ Receive(c) \/ WriteAnswer(c)

MainLoopStep ==
  \/ Dispatch
  \/ Persist
  \/ \E c \in Client : AnswerWaiter(c)

RpcNext ==
  \/ \E c \in Client : Connect(c) \/ Ask(c) \/ ReadWire(c) \/ Disconnect(c)
  \/ ServerStep
  \/ MainLoopStep
  \/ Start \/ Signal \/ Quit \/ End
  \/ FileSystem

(* Threads run, the main loop is never blocked for good, and clients read  *)
(* what they are sent.                                                     *)
RpcFairness ==
  /\ WF_rpcVars(Serve) /\ WF_rpcVars(Announce) /\ WF_rpcVars(Broadcast)
  /\ WF_rpcVars(Dispatch) /\ WF_rpcVars(Persist)
  /\ \A c \in Client :
       /\ WF_rpcVars(Accept(c))
       /\ WF_rpcVars(ReadLine(c)) /\ WF_rpcVars(EndOfFile(c))
       /\ WF_rpcVars(Receive(c)) /\ WF_rpcVars(WriteAnswer(c))
       /\ WF_rpcVars(AnswerWaiter(c))
       /\ WF_rpcVars(ReadWire(c))

RpcSpec == RpcInit /\ [][RpcNext]_rpcVars /\ RpcFairness

-----------------------------------------------------------------------------
(* The main loop answers each command once, and the client that sent it:   *)
(* a thread that waits has its command queued, being persisted, awaiting   *)
(* settlement, or answered, and in one of these places only.               *)
OnePlaceEach ==
  \A c \in Client :
    LET queued == {<<"commands", i>> : i \in {i \in DOMAIN commands : commands[i] = c}}
        places == queued
          \union {<<"setting", 0>> : x \in {setting} \intersect {c}}
          \union {<<"waiters", 0>> : x \in waiters \intersect {c}}
    IN IF thread[c].at = "waiting" /\ thread[c].answer = NoOne
         THEN \E p \in places : places = {p}
         ELSE places = {}

(* handle_client answers: whatever other clients, events, a failing disk   *)
(* or the end of the process do, a request that was sent is answered or    *)
(* its connection ends, and a new connection is taken although the list of *)
(* clients is locked while events are written, as long as clients read.    *)
RequestsAnswered ==
  \A c \in Client :
    /\ thread[c].at # "none" /\ sent[c] # << >>
         ~> sent[c] = << >> /\ thread[c].at \in {"none", "reading"}
    /\ conn[c] = "pending" ~> thread[c].at # "none" \/ loop # "up"

================================================================================
