--------------------------- MODULE FilterChainStatus ---------------------------
(***************************************************************************)
(* What the web UI shows of GraphManager                                   *)
(* (web-ui/app/collectors/filterchain_collector.py): four questions twice  *)
(* a second over one connection that also carries events.  An answer is    *)
(* known only by its place.                                                *)
(*                                                                         *)
(* Of the links, the model has the mode and whether some are missing.      *)
(***************************************************************************)
EXTENDS Naturals, Sequences

CONSTANTS
  NoData,
  ShownMode,    (* modes                                                    *)
  Grace,        (* _DEGRADED_GRACE_S                                        *)
  MaxLines      (* bound: lines that the connection holds                   *)

ASSUME StatusAssumption == Grace \in Nat \ {0} /\ MaxLines \in Nat \ {0}

Polled == <<"get_links", "get_state", "watchdog_status", "gain_integrity_status">>

VARIABLES
  wire,         (* the connection: questions and lines under way            *)
  polling,      (* the place in Polled, or 0 between polls                  *)
  awaiting,     (* whether its question was sent                            *)
  section,      (* _links, _state, _watchdog, _gain_integrity               *)
  degraded      (* _degraded_since as an age, and _prev_state               *)

statusVars == <<wire, polling, awaiting, section, degraded>>

Line ==
  [to : {"get_links"}, ok : BOOLEAN, mode : ShownMode, missing : BOOLEAN]
    \union [to : {Polled[2], Polled[3], Polled[4], "event"}, ok : BOOLEAN]

NoWire == [up |-> FALSE, broken |-> FALSE, asked |-> <<>>, lines |-> <<>>]

StatusInit ==
  /\ wire = NoWire
  /\ polling = 0 /\ awaiting = FALSE
  /\ section = [q \in {Polled[i] : i \in DOMAIN Polled} |-> NoData]
  /\ degraded = [age |-> NoData, prev |-> "Idle"]

--------------------------------------------------------------------------------
EnsureConnected == wire' = IF wire.up THEN wire ELSE [NoWire EXCEPT !.up = TRUE]

(* _poll_loop: without a connection there is no poll. *)
Poll ==
  /\ polling = 0
  /\ EnsureConnected
  /\ polling' = 1
  /\ UNCHANGED <<awaiting, section, degraded>>

NextQuestion == polling' = (polling + 1) % (Len(Polled) + 1) /\ awaiting' = FALSE

(* _send_command, which asks nothing without a connection. *)
Question ==
  /\ polling # 0 /\ ~awaiting
  /\ IF wire.up
       THEN /\ awaiting' = TRUE /\ UNCHANGED polling
            /\ wire' = [wire EXCEPT !.asked = IF wire.broken THEN @ ELSE Append(@, Polled[polling])]
       ELSE NextQuestion /\ UNCHANGED wire
  /\ UNCHANGED <<section, degraded>>

(* Slip: after a timeout the connection is kept. *)
ConnectionKept == UNCHANGED wire

Dropped == wire' = NoWire

(* Two seconds without a line; an end or a line that is no JSON.           *)
NoAnswer ==
  /\ awaiting
  /\ Dropped
  /\ NextQuestion
  /\ UNCHANGED <<section, degraded>>

ReadLine ==
  LET line == Head(wire.lines) IN
  /\ awaiting /\ wire.lines # <<>>
  /\ wire' = [wire EXCEPT !.lines = Tail(@)]
  /\ \/ line.to = "event" /\ UNCHANGED <<polling, awaiting, section>>
     \/ /\ line.to # "event"
        /\ NextQuestion
        /\ section' = IF line.ok THEN [section EXCEPT ![Polled[polling]] = line] ELSE section
  /\ UNCHANGED degraded

--------------------------------------------------------------------------------
(* GraphManager answers one question after the other, and pushes events.   *)

Sends(line) == wire.up /\ ~wire.broken /\ Len(wire.lines) < MaxLines

GmAnswers(line) ==
  /\ Sends(line) /\ wire.asked # <<>> /\ line.to = Head(wire.asked)
  /\ wire' = [wire EXCEPT !.asked = Tail(@), !.lines = Append(@, line)]
  /\ UNCHANGED <<polling, awaiting, section, degraded>>

GmPushes(line) ==
  /\ Sends(line) /\ line.to = "event" /\ line.ok
  /\ wire' = [wire EXCEPT !.lines = Append(@, line)]
  /\ UNCHANGED <<polling, awaiting, section, degraded>>

(* What was sent can still be read. *)
GmGone ==
  /\ wire.up /\ ~wire.broken
  /\ wire' = [wire EXCEPT !.broken = TRUE, !.asked = <<>>]
  /\ UNCHANGED <<polling, awaiting, section, degraded>>

--------------------------------------------------------------------------------
(* notify_mode_change: the test page has set the mode. *)
NotifyModeChange(m) ==
  /\ section' = [section EXCEPT
       !["get_links"] = IF @ = NoData THEN NoData ELSE [@ EXCEPT !.mode = m],
       !["get_state"] = IF @ = NoData THEN [to |-> "get_state", ok |-> TRUE] ELSE @]
  /\ UNCHANGED <<wire, polling, awaiting, degraded>>

(* _build_dsp_status, which whoever looks at the state carries on. *)
DspState ==
  LET links == section["get_links"] IN
  CASE ~wire.up \/ links = NoData                  -> "Disconnected"
    [] wire.up /\ links # NoData ->
         IF links.mode = "standby" THEN "Idle"
         ELSE IF ~links.missing THEN "Running"
         ELSE IF degraded.age = Grace THEN "Degraded"
         ELSE degraded.prev

LookAtStatus ==
  LET missing == section["get_links"].mode # "standby" /\ section["get_links"].missing IN
  /\ DspState # "Disconnected"
  /\ degraded' = [prev |-> DspState,
                  age |-> IF ~missing THEN NoData ELSE IF degraded.age = NoData THEN 0 ELSE degraded.age]
  /\ UNCHANGED <<wire, polling, awaiting, section>>

StatusTick ==
  /\ degraded.age # NoData /\ degraded.age # Grace
  /\ degraded' = [degraded EXCEPT !.age = @ + 1]
  /\ UNCHANGED <<wire, polling, awaiting, section>>

StatusNext ==
  \/ Poll \/ Question \/ NoAnswer \/ ReadLine \/ GmGone \/ LookAtStatus \/ StatusTick
  \/ \E line \in Line : GmAnswers(line) \/ GmPushes(line)
  \/ \E m \in ShownMode : NotifyModeChange(m)

StatusSpec == StatusInit /\ [][StatusNext]_statusVars

--------------------------------------------------------------------------------
(* Each section of what is shown answers its own question, whatever comes  *)
(* late, is refused or is pushed in between (_send_command, F-233, and     *)
(* _poll_loop, which takes the first answer for its own).                  *)
OwnAnswers ==
  \A q \in DOMAIN section : section[q] # NoData => section[q].to = q

================================================================================
