------------------------------ MODULE SigGenClient ------------------------------
(***************************************************************************)
(* The library with which Python programs drive the signal generator       *)
(* (measurement/signal_gen_client.py).  Answers, events and updates of the *)
(* state come over one connection; whoever waits for one kind keeps the    *)
(* others.  The generator serves one connection at a time, so that what is *)
(* asked may stay unread for as long as another client is connected.       *)
(*                                                                         *)
(* Signals, levels and recordings are left out.                            *)
(***************************************************************************)
EXTENDS Naturals, Sequences

CONSTANTS
  NoCall,
  Command_,     (* commands besides those that playrec sends                *)
  MaxAttempts,  (* of reconnect                                             *)
  MaxMessages,  (* bound: commands, events and updates                      *)
  MaxConnects   (* bound: connections opened                                *)

ASSUME SigGenAssumption ==
  MaxAttempts \in Nat \ {0} /\ MaxMessages \in Nat /\ MaxConnects \in Nat

Event == {"playback_complete", "playrec_complete"}

VARIABLES
  lib,          (* the object: its socket, its buffers and what it does     *)
  link,         (* the connection: commands and messages under way          *)
  count,        (* messages and connections so far                          *)
  given         (* history: the events of this connection and those given   *)
                (* out                                                      *)

libVars == <<lib, link, count, given>>

NoLink == [up |-> FALSE, asked |-> <<>>, lines |-> <<>>]

NothingGiven == [pushed |-> <<>>, events |-> <<>>]

LibInit ==
  /\ lib = [open |-> FALSE, does |-> "idle", call |-> NoCall, events |-> <<>>, states |-> <<>>, left |-> 0]
  /\ link = NoLink
  /\ count = [messages |-> 0, connects |-> 0]
  /\ given = NothingGiven

--------------------------------------------------------------------------------
(* connect, close and reconnect. *)

Opened ==
  /\ count.connects < MaxConnects
  /\ count' = [count EXCEPT !.connects = @ + 1]
  /\ link' = [NoLink EXCEPT !.up = TRUE]
  /\ given' = NothingGiven

LibConnect ==
  /\ lib.does = "idle"
  /\ Opened
  /\ lib' = [lib EXCEPT !.open = TRUE, !.events = <<>>, !.states = <<>>]

LibClose ==
  /\ lib.does = "idle" /\ lib.open
  /\ lib' = [lib EXCEPT !.open = FALSE]
  /\ link' = NoLink
  /\ UNCHANGED <<count, given>>

Reconnect ==
  /\ lib.does = "idle"
  /\ lib' = [lib EXCEPT !.open = FALSE, !.does = "reconnect", !.left = MaxAttempts]
  /\ link' = NoLink
  /\ UNCHANGED <<count, given>>

(* An attempt that gets no connection, and one that is tried with status.  *)
Attempt ==
  /\ lib.does = "reconnect" /\ lib.call = NoCall /\ lib.left > 0
  /\ \/ lib' = [lib EXCEPT !.left = @ - 1] /\ UNCHANGED <<link, count, given>>
     \/ /\ Opened
        /\ lib' = [lib EXCEPT !.open = TRUE, !.events = <<>>, !.states = <<>>,
                              !.does = "trying", !.left = @ - 1]

AttemptsOver ==
  /\ lib.does = "reconnect" /\ lib.left = 0
  /\ lib' = [lib EXCEPT !.does = "idle"]
  /\ UNCHANGED <<link, count, given>>

--------------------------------------------------------------------------------
(* _send_cmd up to the first line that it reads.                           *)

Asks(cmd) ==
  /\ lib.call = NoCall /\ lib.open /\ count.messages < MaxMessages
  /\ count' = [count EXCEPT !.messages = @ + 1]
  /\ link' = [link EXCEPT !.asked = IF link.up THEN Append(@, cmd) ELSE @]
  /\ UNCHANGED given

Calls(cmd, does) ==
  /\ Asks(cmd)
  /\ lib' = [lib EXCEPT !.call = [cmd |-> cmd], !.does = does]

LibCommand ==
  \/ lib.does = "idle" /\ \E cmd \in Command_ \union {"status"} : Calls(cmd, "command")
  \/ lib.does = "idle" /\ Calls("playrec", "playrec")
  \/ lib.does = "polling" /\ Calls("status", "polling")
  \/ lib.does = "fetching" /\ Calls("get_recording", "fetching")
  \/ lib.does = "trying" /\ Calls("status", "trying")

(* What follows an answer: playrec asks for the status until the generator *)
(* neither plays nor records, for as long as the signal and five seconds.  *)
AfterAnswer(answer) ==
  CASE lib.does = "playrec" -> {IF answer.ok THEN "polling" ELSE "idle"}
    [] lib.does = "polling" -> {IF answer.busy THEN "polling" ELSE "fetching", "idle"}
    [] OTHER -> {"idle"}

IsAnswer(m) == m.type = "ack" /\ "cmd" \in DOMAIN lib.call /\ m.cmd = lib.call.cmd

IsAwaited(m) ==
  \/ m.type = "event" /\ "event" \in DOMAIN lib.call /\ m.event = lib.call.event
  \/ m.type = "state" /\ "busy" \in DOMAIN lib.call /\ m.busy = lib.call.busy

(* Slip: who waits for one event throws the others away. *)
KeptForCommands(m) ==
  CASE m.type = "event" /\ lib.does # "waiting" -> [lib EXCEPT !.events = Append(@, m)]
    [] m.type = "state" -> [lib EXCEPT !.states = Append(@, m)]
    [] OTHER            -> lib

Kept(m) ==
  CASE m.type = "event" -> [lib EXCEPT !.events = Append(@, m)]
    [] m.type = "state" -> [lib EXCEPT !.states = Append(@, m)]
    [] OTHER            -> lib

(* _read_ack, wait_for_event, wait_for_state: one line. *)
TakeLine ==
  LET m == Head(link.lines) IN
  /\ lib.call # NoCall /\ link.lines # <<>>
  /\ link' = [link EXCEPT !.lines = Tail(@)]
  /\ \/ /\ IsAnswer(m)
        /\ \E does \in AfterAnswer(m) : lib' = [lib EXCEPT !.call = NoCall, !.does = does]
        /\ UNCHANGED given
     \/ /\ IsAwaited(m)
        /\ lib' = [lib EXCEPT !.call = NoCall, !.does = "idle"]
        /\ given' = IF m.type = "event" THEN [given EXCEPT !.events = Append(@, m)] ELSE given
     \/ ~IsAnswer(m) /\ ~IsAwaited(m) /\ lib' = Kept(m) /\ UNCHANGED given
  /\ UNCHANGED count

(* No line in time: an error, which ends whatever called, except that the  *)
(* next attempt of reconnect follows.                                      *)
Raises == [lib EXCEPT !.call = NoCall, !.does = IF @ = "trying" THEN "reconnect" ELSE "idle"]

CallTimesOut ==
  /\ lib.call # NoCall
  /\ lib' = Raises
  /\ UNCHANGED <<link, count, given>>

(* The generator is gone, which is seen once all lines are read. *)
ConnectionLost ==
  /\ lib.call # NoCall /\ ~link.up /\ link.lines = <<>>
  /\ lib' = [Raises EXCEPT !.open = FALSE]
  /\ UNCHANGED <<link, count, given>>

--------------------------------------------------------------------------------
(* wait_for_event, wait and wait_for_state look into what was kept first.  *)

FirstKept(hits) == {i \in hits : \A j \in hits : i <= j}

Without(buffer, i) == SubSeq(buffer, 1, i - 1) \o SubSeq(buffer, i + 1, Len(buffer))

AwaitEvent(names, name) ==
  LET hits == {i \in DOMAIN lib.events : lib.events[i].event \in names} IN
  /\ lib.does = "idle"
  /\ \/ \E i \in FirstKept(hits) :
          /\ lib' = [lib EXCEPT !.events = Without(@, i)]
          /\ given' = [given EXCEPT !.events = Append(@, lib.events[i])]
     \/ /\ hits = {} /\ lib.open
        /\ lib' = [lib EXCEPT !.call = [event |-> name], !.does = "waiting"]
        /\ UNCHANGED given
  /\ UNCHANGED <<link, count>>

WaitForEvent == \E name \in Event : AwaitEvent({name}, name)

Wait == AwaitEvent(Event, "playback_complete")

WaitForState(busy) ==
  LET hits == {i \in DOMAIN lib.states : lib.states[i].busy = busy} IN
  /\ lib.does = "idle"
  /\ \/ \E i \in FirstKept(hits) : lib' = [lib EXCEPT !.states = Without(@, i)]
     \/ /\ hits = {} /\ lib.open
        /\ lib' = [lib EXCEPT !.call = [busy |-> busy], !.does = "waiting"]
  /\ UNCHANGED <<link, count, given>>

DrainEvents ==
  /\ lib.does = "idle"
  /\ lib' = [lib EXCEPT !.events = <<>>]
  /\ given' = [given EXCEPT !.events = @ \o lib.events]
  /\ UNCHANGED <<link, count>>

DrainStates ==
  /\ lib.does = "idle"
  /\ lib' = [lib EXCEPT !.states = <<>>]
  /\ UNCHANGED <<link, count, given>>

--------------------------------------------------------------------------------
(* The generator, once it serves this connection.  Only of playrec it      *)
(* matters whether it is refused, and of status whether it is busy.  The   *)
(* events are those that the library waits for, as its server for tests    *)
(* sends them; signal-gen itself has updates of the state and events about *)
(* devices, and refuses playrec.                                           *)

GeneratorAnswers(ok, busy) ==
  LET cmd == Head(link.asked) IN
  /\ link.up /\ link.asked # <<>>
  /\ (cmd # "playrec" => ok) /\ (cmd # "status" => ~busy)
  /\ link' = [link EXCEPT !.asked = Tail(@),
                          !.lines = Append(@, [type |-> "ack", cmd |-> cmd, ok |-> ok, busy |-> busy])]
  /\ UNCHANGED <<lib, count, given>>

Pushes(m) ==
  /\ link.up /\ count.messages < MaxMessages
  /\ count' = [count EXCEPT !.messages = @ + 1]
  /\ link' = [link EXCEPT !.lines = Append(@, m)]
  /\ given' = IF m.type = "event" THEN [given EXCEPT !.pushed = Append(@, m)] ELSE given
  /\ UNCHANGED lib

GeneratorPushes ==
  \/ \E name \in Event : Pushes([type |-> "event", event |-> name, n |-> Len(given.pushed) + 1])
  \/ \E busy \in BOOLEAN : Pushes([type |-> "state", busy |-> busy])

GeneratorGone ==
  /\ link.up
  /\ link' = [link EXCEPT !.up = FALSE, !.asked = <<>>]
  /\ UNCHANGED <<lib, count, given>>

LibNext ==
  \/ LibConnect \/ LibClose \/ Reconnect \/ Attempt \/ AttemptsOver
  \/ LibCommand \/ TakeLine \/ CallTimesOut \/ ConnectionLost
  \/ WaitForEvent \/ Wait \/ DrainEvents \/ DrainStates
  \/ \E busy \in BOOLEAN : WaitForState(busy) \/ \E ok \in BOOLEAN : GeneratorAnswers(ok, busy)
  \/ GeneratorPushes \/ GeneratorGone

LibSpec == LibInit /\ [][LibNext]_libVars

--------------------------------------------------------------------------------
(* Where events are: given out, kept, or unread, in this order.            *)
Places ==
  ({1} \X DOMAIN given.events) \union ({2} \X DOMAIN lib.events)
    \union {<<3, i>> : i \in {j \in DOMAIN link.lines : link.lines[j].type = "event"}}

EventAt(p) ==
  CASE p[1] = 1 -> given.events[p[2]]
    [] p[1] = 2 -> lib.events[p[2]]
    [] p[1] = 3 -> link.lines[p[2]]

Before(p, q) == p[1] < q[1] \/ (p[1] = q[1] /\ p[2] < q[2])

(* "consumes and buffers non-ack messages so they are not lost": as long   *)
(* as a connection lasts, every event that came over it is given out       *)
(* once, those of a name in their order, or is still kept or unread,       *)
(* however commands, waits and timeouts are mixed.                         *)
EventsOnce ==
  lib.open =>
    /\ {EventAt(p) : p \in Places} = {given.pushed[n] : n \in DOMAIN given.pushed}
    /\ \A p, q \in Places :
         EventAt(p).event = EventAt(q).event /\ Before(p, q) => EventAt(p).n < EventAt(q).n

================================================================================
