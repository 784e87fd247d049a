------------------------------- MODULE LastVenue -------------------------------
(***************************************************************************)
(* What the last-venue file is for: a register that outlives GraphManager. *)
(* A restart takes up the venue saved last.  A power failure may lose what *)
(* was saved since the disk was last brought up to date, and nothing else: *)
(* the register then holds a venue it held before, never a part of a name. *)
(***************************************************************************)

CONSTANTS Venue, DefaultVenue, NoVenue

VARIABLES
  on,           (* whether GraphManager runs                                *)
  venue,        (* the venue it has active                                  *)
  saved,        (* the venue a restart would take up, or NoVenue            *)
  recoverable   (* what a power failure may leave of `saved`                *)

register == <<on, venue, saved, recoverable>>

Init ==
  /\ on = FALSE
  /\ venue = NoVenue
  /\ saved = NoVenue
  /\ recoverable = {NoVenue}

Start ==
  /\ ~on
  /\ on' = TRUE
  /\ venue' \in IF saved = NoVenue THEN {DefaultVenue, NoVenue} ELSE {saved}
  /\ UNCHANGED <<saved, recoverable>>

Choose ==
  /\ on
  /\ venue' \in Venue
  /\ UNCHANGED <<on, saved, recoverable>>

Save ==
  /\ on
  /\ venue # NoVenue
  /\ saved' = venue
  /\ recoverable' = recoverable \union {venue}
  /\ UNCHANGED <<on, venue>>

BringUpToDate ==
  /\ recoverable' = {saved}
  /\ UNCHANGED <<on, venue, saved>>

Stop ==
  /\ on' = FALSE
  /\ venue' = NoVenue
  /\ UNCHANGED <<saved, recoverable>>

FailPower ==
  /\ on' = FALSE
  /\ venue' = NoVenue
  /\ saved' \in recoverable
  /\ recoverable' = {saved'}

Next == Start \/ Choose \/ Save \/ BringUpToDate \/ Stop \/ FailPower

Spec == Init /\ [][Next]_register

================================================================================
