----------------------------- MODULE FilterChain -----------------------------
(***************************************************************************)
(* The convolver's gain builtins as the web UI sees them: the id of the    *)
(* convolver node and the level of each gain, read and written through the *)
(* commands of pw_helpers.py, which run in a thread while the event loop   *)
(* goes on.  Levels are decibels above silence, which is 0.                *)
(***************************************************************************)
EXTENDS Integers, FiniteSets

CONSTANTS
  Gains,   (* number of gain builtins; numbered as sorted by name           *)
  Full,    (* level of the profile's own gain, base_mult                    *)
  Id,      (* ids that the convolver node may get                           *)
  NoId,    (* no convolver node                                             *)
  Venue,   (* gains that GraphManager may have set                          *)
  MayFail  (* whether pw-cli may fail or time out                           *)

ASSUME ChainAssumption ==
  /\ Gains \in Nat \ {0}
  /\ Full \in Nat \ {0}
  /\ NoId \notin Id
  /\ Venue \subseteq [1..Gains -> 0..Full]
  /\ MayFail \in BOOLEAN

VARIABLES
  convolver,  (* id of the live convolver node                              *)
  mult        (* its gains                                                  *)

chain == <<convolver, mult>>

Param   == 1..Gains
Level   == 0..Full
Silence == [p \in Param |-> 0]

ChainOK ==
  /\ convolver \in Id \union {NoId}
  /\ mult \in [Param -> Level]

ChainInit == convolver \in Id /\ mult \in Venue

(* set_mult: pw-cli may fail, or time out and work nevertheless; what it   *)
(* answers about a node that is gone is not fixed.                         *)
SetMult(id, p, level, ok) ==
  /\ UNCHANGED convolver
  /\ \/ convolver = id /\ (ok \/ MayFail) /\ mult' = [mult EXCEPT ![p] = level]
     \/ convolver = id /\ ~ok /\ MayFail /\ UNCHANGED mult
     \/ convolver # id /\ UNCHANGED mult

-----------------------------------------------------------------------------
(* The filter-chain process.                                               *)

ChainExit ==
  /\ convolver # NoId
  /\ convolver' = NoId
  /\ mult' = Silence

(* A new convolver starts with the configured gains. *)
ChainStart ==
  /\ convolver = NoId
  /\ convolver' \in Id
  /\ mult' = Silence

-----------------------------------------------------------------------------
(* GraphManager opens or closes the gate, mutes or switches the venue.     *)
GateWrite ==
  /\ convolver # NoId
  /\ mult' \in Venue \union {Silence}
  /\ UNCHANGED convolver

=============================================================================
