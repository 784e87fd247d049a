------------------------------- MODULE MCSession -------------------------------
(***************************************************************************)
(* MeasurementSession with short ramps on a coarse scale.                  *)
(***************************************************************************)
EXTENDS MeasurementSession

(* The ramp starts below what is played at least, and the two channels     *)
(* have different ceilings.                                                *)
MCStart == -3
MCFloor == -2
MCSnr == -1
MCCeiling == <<2, 0>>
(* Far below and near the target, at it, above it, at the hard limit. *)
MCSpl == {1, 4, 6, 8, 9}

================================================================================
