---------------------------- MODULE MCGainWriters ----------------------------
(***************************************************************************)
(* GainWriters with two gains, the second of which is limited.             *)
(***************************************************************************)
EXTENDS GainWriters

MCVenue == {<<1, 2>>}

(* One programme above the ceiling, one far below it. *)
MCProgrammes == {-1, 3}

(* Every level is far from every other. *)
MCLinear == [l \in 0..2 |-> l]

=============================================================================
