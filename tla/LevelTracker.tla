------------------------------ MODULE LevelTracker ------------------------------
(***************************************************************************)
(* The level tracker of level-bridge (audio-common, level_tracker.rs): the *)
(* PipeWire callback adds the frames of a quantum to the active one of two *)
(* buffers, and the levels server flips them, reads the one it took away   *)
(* and clears it.  One step per shared access and one channel, the         *)
(* channels being accumulated alike; position and nsec are one stamp, the  *)
(* number of the quantum, and a frame adds one to the sum of squares, so   *)
(* that the mean is right when sum and count agree.                        *)
(***************************************************************************)
EXTENDS Integers

CONSTANTS
  Level,     (* the amplitudes of frames                                    *)
  Frames,    (* frames of a quantum                                         *)
  MaxQuanta  (* bound: callbacks                                            *)

ASSUME TrackerAssumption ==
  Level \subseteq Nat \ {0} /\ Frames \in Nat \ {0} /\ MaxQuanta \in Nat

VARIABLES
  active,   (* the index                                                    *)
  peak,     (* of each buffer                                               *)
  sum,
  count,
  clock,
  writer,   (* what the callback does next                                  *)
  idx,      (* the buffer it chose                                          *)
  frame,    (* frames it has added                                          *)
  loud,     (* the level of its quantum                                     *)
  prev,     (* the count it loaded                                          *)
  quanta,   (* callbacks so far                                             *)
  reader,   (* what take_snapshot does next                                 *)
  old,      (* old_idx                                                      *)
  snap,     (* the snapshot                                                 *)
  due,      (* what a snapshot of each buffer should be                     *)
  crossed,  (* a callback used the buffer while it was being taken          *)
  spoilt    (* one did so the last time it was taken                        *)

buffers == <<peak, sum, count, clock>>
callbackVars == <<writer, idx, frame, loud, prev, quanta>>
snapshotVars == <<active, reader, old, snap>>
ghosts == <<due, crossed, spoilt>>
trackerVars == <<buffers, callbackVars, snapshotVars, ghosts>>

Buffer == {0, 1}
Nothing == [peak |-> 0, sum |-> 0, count |-> 0, clock |-> 0]
Larger(a, b) == IF a >= b THEN a ELSE b

(* What the buffer becomes when the quantum is added to it as a whole. *)
Added(window, level, n) ==
  [peak |-> Larger(window.peak, level), sum |-> window.sum + Frames,
   count |-> window.count + Frames, clock |-> n]

TrackerInit ==
  /\ peak = [b \in Buffer |-> 0] /\ sum = [b \in Buffer |-> 0]
  /\ count = [b \in Buffer |-> 0] /\ clock = [b \in Buffer |-> 0]
  /\ active = 0
  /\ writer = "idle" /\ idx = 0 /\ frame = 0 /\ loud = 0 /\ prev = 0 /\ quanta = 0
  /\ reader = "idle" /\ old = 1 /\ snap = Nothing
  /\ due = [b \in Buffer |-> Nothing]
  /\ crossed = [b \in Buffer |-> FALSE] /\ spoilt = [b \in Buffer |-> FALSE]

--------------------------------------------------------------------------------
(* process *)

Process(level) ==
  /\ writer = "idle" /\ quanta < MaxQuanta
  /\ writer' = "peak"
  /\ idx' = active
  /\ frame' = 0 /\ loud' = level
  /\ quanta' = quanta + 1
  /\ due' = [due EXCEPT ![active] = Added(@, level, quanta + 1)]
  /\ UNCHANGED <<prev, buffers, snapshotVars, crossed, spoilt>>

(* The two loops of compare and exchange end in one change each. *)
AddPeak ==
  /\ writer = "peak"
  /\ peak' = [peak EXCEPT ![idx] = Larger(@, loud)]
  /\ writer' = "sum"
  /\ UNCHANGED <<sum, count, clock, idx, frame, loud, prev, quanta, snapshotVars, ghosts>>

AddSum ==
  /\ writer = "sum"
  /\ sum' = [sum EXCEPT ![idx] = @ + 1]
  /\ frame' = frame + 1
  /\ writer' = IF frame + 1 < Frames THEN "peak" ELSE "load"
  /\ UNCHANGED <<peak, count, clock, idx, loud, prev, quanta, snapshotVars, ghosts>>

LoadCount ==
  /\ writer = "load"
  /\ prev' = count[idx]
  /\ writer' = "store"
  /\ UNCHANGED <<buffers, idx, frame, loud, quanta, snapshotVars, ghosts>>

StoreCount ==
  /\ writer = "store"
  /\ count' = [count EXCEPT ![idx] = prev + Frames]
  /\ writer' = "stamp"
  /\ UNCHANGED <<peak, sum, clock, idx, frame, loud, prev, quanta, snapshotVars, ghosts>>

StampClock ==
  /\ writer = "stamp"
  /\ clock' = [clock EXCEPT ![idx] = quanta]
  /\ writer' = "idle"
  /\ UNCHANGED <<peak, sum, count, idx, frame, loud, prev, quanta, snapshotVars, ghosts>>

--------------------------------------------------------------------------------
(* take_snapshot *)

(* Slip: the buffer the writer goes on with is taken. *)
FlipToOther ==
  /\ reader = "idle"
  /\ active' = 1 - active /\ old' = 1 - active
  /\ snap' = Nothing
  /\ crossed' = [crossed EXCEPT ![1 - active] = writer # "idle" /\ idx = 1 - active]
  /\ reader' = "count"
  /\ UNCHANGED <<buffers, callbackVars, due, spoilt>>

Flip ==
  /\ reader = "idle"
  /\ active' = 1 - active /\ old' = active
  /\ snap' = Nothing
  /\ crossed' = [crossed EXCEPT ![active] = writer # "idle" /\ idx = active]
  /\ reader' = "count"
  /\ UNCHANGED <<buffers, callbackVars, due, spoilt>>

ReadCount ==
  /\ reader = "count"
  /\ snap' = [snap EXCEPT !.count = count[old]]
  /\ reader' = "peak"
  /\ UNCHANGED <<buffers, callbackVars, active, old, ghosts>>

ReadPeak ==
  /\ reader = "peak"
  /\ snap' = [snap EXCEPT !.peak = peak[old]]
  /\ reader' = "sum"
  /\ UNCHANGED <<buffers, callbackVars, active, old, ghosts>>

ReadSum ==
  /\ reader = "sum"
  /\ snap' = [snap EXCEPT !.sum = sum[old]]
  /\ reader' = "clock"
  /\ UNCHANGED <<buffers, callbackVars, active, old, ghosts>>

ReadClock ==
  /\ reader = "clock"
  /\ snap' = [snap EXCEPT !.clock = clock[old]]
  /\ reader' = "clearCount"
  /\ UNCHANGED <<buffers, callbackVars, active, old, ghosts>>

ClearCount ==
  /\ reader = "clearCount"
  /\ count' = [count EXCEPT ![old] = 0]
  /\ reader' = "clearClock"
  /\ UNCHANGED <<peak, sum, clock, callbackVars, active, old, snap, ghosts>>

ClearClock ==
  /\ reader = "clearClock"
  /\ clock' = [clock EXCEPT ![old] = 0]
  /\ reader' = "clearPeak"
  /\ UNCHANGED <<peak, sum, count, callbackVars, active, old, snap, ghosts>>

ClearPeak ==
  /\ reader = "clearPeak"
  /\ peak' = [peak EXCEPT ![old] = 0]
  /\ reader' = "clearSum"
  /\ UNCHANGED <<sum, count, clock, callbackVars, active, old, snap, ghosts>>

(* The last store of reset, and the snapshot is returned. *)
ClearSum ==
  /\ reader = "clearSum"
  /\ sum' = [sum EXCEPT ![old] = 0]
  /\ reader' = "idle"
  /\ due' = [due EXCEPT ![old] = Nothing]
  /\ spoilt' = [spoilt EXCEPT ![old] = crossed[old]]
  /\ crossed' = [crossed EXCEPT ![old] = FALSE]
  /\ UNCHANGED <<peak, count, clock, callbackVars, active, old, snap>>

ProcessStep == AddPeak \/ AddSum \/ LoadCount \/ StoreCount \/ StampClock

TakeSnapshot ==
  \/ Flip \/ ReadCount \/ ReadPeak \/ ReadSum \/ ReadClock
  \/ ClearCount \/ ClearClock \/ ClearPeak \/ ClearSum

TrackerNext ==
  \/ \E level \in Level : Process(level)
  \/ ProcessStep
  \/ TakeSnapshot

TrackerSpec == TrackerInit /\ [][TrackerNext]_trackerVars

--------------------------------------------------------------------------------

Reading == {"count", "peak", "sum", "clock", "clearCount"}
Clearing == {"clearClock", "clearPeak", "clearSum"}

TrackerTypeOK ==
  /\ active \in Buffer /\ idx \in Buffer /\ old \in Buffer
  /\ \A f \in {peak, sum, count, clock} : f \in [Buffer -> Nat]
  /\ writer \in {"idle", "peak", "sum", "load", "store", "stamp"}
  /\ reader \in {"idle"} \union Reading \union Clearing
  /\ frame \in 0..Frames /\ loud \in Level \union {0} /\ prev \in Nat
  /\ quanta \in 0..MaxQuanta
  /\ snap \in [peak : Nat, sum : Nat, count : Nat, clock : Nat]
  /\ due \in [Buffer -> [peak : Nat, sum : Nat, count : Nat, clock : Nat]]
  /\ crossed \in [Buffer -> BOOLEAN] /\ spoilt \in [Buffer -> BOOLEAN]

Taken == reader = "clearCount"

(* A snapshot reports the quanta whose callbacks chose its buffer since it  *)
(* was last taken, and nothing else, unless a callback ran across the flip *)
(* now or the last time: such an error does not last.                      *)
ExactUnlessCrossed ==
  Taken /\ ~crossed[old] /\ ~spoilt[old] => snap = due[old]

================================================================================
