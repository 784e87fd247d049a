------------------------------- MODULE SpscQueue -------------------------------
(***************************************************************************)
(* The lock-free queue between an RPC thread and a real-time callback      *)
(* (audio-common, spsc_queue.rs), one step per shared access.  A release   *)
(* store and the acquire load that reads it order the slot between them,   *)
(* so the steps interleave.                                                *)
(***************************************************************************)
EXTENDS Naturals, Sequences

CONSTANTS
  Item,  (* what the queue carries; Copy in the code                        *)
  N      (* slots, one of which stays free                                  *)

ASSUME QueueAssumption == N \in Nat /\ N >= 2 /\ Item # {}

VARIABLES
  buffer,   (* the slots                                                    *)
  head,     (* next slot to write                                           *)
  tail,     (* next slot to read                                            *)
  pushing,  (* where the producer is in push                                *)
  popping,  (* where the consumer is in pop                                 *)
  item,     (* what the producer pushes                                     *)
  popped    (* what the consumer read last                                  *)

queueVars == <<buffer, head, tail, pushing, popping, item, popped>>

Slot == 0..(N - 1)
Steps == {"idle", "access", "publish"}

(* The slot after s. *)
After(s) == (s + 1) % N

QueueInit ==
  /\ buffer \in [Slot -> Item]
  /\ \A s, t \in Slot : buffer[s] = buffer[t]
  /\ head = 0 /\ tail = 0
  /\ pushing = "idle" /\ popping = "idle"
  /\ item = buffer[0] /\ popped = buffer[0]

(* Slip: the slot is given back while it is being read. *)
IsFullUnlessReading == After(head) = tail /\ popping = "idle"

IsFull == After(head) = tail
IsEmpty == tail = head

(* push: the loads and the test; when IsFull it gives the item back. *)
PushBegin(new) ==
  /\ pushing = "idle"
  /\ ~IsFull
  /\ pushing' = "access"
  /\ item' = new
  /\ UNCHANGED <<buffer, head, tail, popping, popped>>

PushWrite ==
  /\ pushing = "access"
  /\ buffer' = [buffer EXCEPT ![head] = item]
  /\ pushing' = "publish"
  /\ UNCHANGED <<head, tail, popping, item, popped>>

PushPublish ==
  /\ pushing = "publish"
  /\ head' = After(head)
  /\ pushing' = "idle"
  /\ UNCHANGED <<buffer, tail, popping, item, popped>>

(* pop: the loads and the test; when IsEmpty it returns None. *)
PopBegin ==
  /\ popping = "idle"
  /\ ~IsEmpty
  /\ popping' = "access"
  /\ UNCHANGED <<buffer, head, tail, pushing, item, popped>>

PopRead ==
  /\ popping = "access"
  /\ popped' = buffer[tail]
  /\ popping' = "publish"
  /\ UNCHANGED <<buffer, head, tail, pushing, item>>

PopPublish ==
  /\ popping = "publish"
  /\ tail' = After(tail)
  /\ popping' = "idle"
  /\ UNCHANGED <<buffer, head, pushing, item, popped>>

QueueNext ==
  \/ \E new \in Item : PushBegin(new)
  \/ PushWrite \/ PushPublish
  \/ PopBegin \/ PopRead \/ PopPublish

QueueSpec == QueueInit /\ [][QueueNext]_queueVars

--------------------------------------------------------------------------------

(* The refinement: what waits are the slots up to head, in ring order; an   *)
(* item is taken when it is read, before its slot is given back.           *)
From == IF popping = "publish" THEN After(tail) ELSE tail
Used == IF head >= From THEN head - From ELSE head + N - From
At(i) == IF From + i - 1 < N THEN From + i - 1 ELSE From + i - 1 - N
Waiting == [i \in 1..Used |-> buffer[At(i)]]

Fifo == INSTANCE BoundedFifo
          WITH Capacity <- N - 1, waiting <- Waiting, taken <- popped

================================================================================
