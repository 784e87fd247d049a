------------------------------ MODULE BoundedFifo ------------------------------
(***************************************************************************)
(* What the command queue promises its two threads: at most Capacity items *)
(* wait, each is taken once, in the order they were put.                   *)
(***************************************************************************)
EXTENDS Naturals, Sequences

CONSTANTS
  Item,      (* what the queue carries                                      *)
  Capacity   (* how many may wait                                           *)

VARIABLES
  waiting,   (* the items put and not taken yet                             *)
  taken      (* the item taken last                                         *)

fifo == <<waiting, taken>>

Init == waiting = << >> /\ taken \in Item

Put ==
  /\ Len(waiting) < Capacity
  /\ \E item \in Item : waiting' = Append(waiting, item)
  /\ UNCHANGED taken

Take ==
  /\ waiting # << >>
  /\ waiting' = Tail(waiting)
  /\ taken' = Head(waiting)

Next == Put \/ Take

Spec == Init /\ [][Next]_fifo

================================================================================
