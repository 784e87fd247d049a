-------------------------------- MODULE PcmRing --------------------------------
(***************************************************************************)
(* The ring of audio frames between a PipeWire callback, which writes, and *)
(* a server thread, which reads (audio-common, ring_buffer.rs).  A frame   *)
(* is the position it was written for.  Either copy moves its frames in    *)
(* any order, one by one, and the other thread sees each as it is then:    *)
(* nothing in the code orders a copy with the other thread's.  The ring of *)
(* clock stamps is as long as the ring of frames and only its last entry   *)
(* is read, so that entry stands for it.                                   *)
(***************************************************************************)
EXTENDS Integers

CONSTANTS
  Capacity,    (* capacity, in frames                                       *)
  Quantum,     (* frames the reader asks for                                *)
  WriteSizes,  (* frames of a PipeWire quantum                              *)
  MaxFrames    (* bound: frames written                                     *)

ASSUME RingAssumption ==
  /\ Capacity \in Nat \ {0} /\ Quantum \in 1..Capacity
  /\ WriteSizes \subseteq 1..Capacity /\ MaxFrames \in Nat

VARIABLES
  cells,     (* data                                                        *)
  writePos,  (* write_pos                                                   *)
  meta,      (* the position in the last stamp, None before the first       *)
  writing,   (* where the writer is in write_interleaved                    *)
  ahead,     (* where the chunk being written ends                          *)
  toWrite,   (* its positions not yet copied                                *)
  reading,   (* where the reader is in read_interleaved                     *)
  readPos,   (* the position it asked for                                   *)
  toRead,    (* offsets not yet copied                                      *)
  out        (* what it has copied                                          *)

writerVars == <<cells, writePos, meta, writing, ahead, toWrite>>
readerVars == <<reading, readPos, toRead, out>>
ringVars == <<writerVars, readerVars>>

None == -1
Offset == 0..(Quantum - 1)

(* pos & mask *)
Cell(pos) == pos % Capacity

RingInit ==
  /\ cells = [c \in 0..(Capacity - 1) |-> None]
  /\ writePos = 0 /\ ahead = 0 /\ toWrite = {} /\ meta = None
  /\ writing = "idle" /\ reading = "idle"
  /\ readPos = 0 /\ toRead = {} /\ out = [i \in Offset |-> None]

--------------------------------------------------------------------------------
(* write_interleaved *)

(* Slip: the position is published before the frames are there. *)
PublishAtOnce(n) ==
  /\ writing = "idle"
  /\ writePos + n <= MaxFrames
  /\ ahead' = writePos + n
  /\ writePos' = writePos + n
  /\ toWrite' = writePos..(writePos + n - 1)
  /\ writing' = "copy"
  /\ UNCHANGED <<cells, meta, readerVars>>

WriteBegin(n) ==
  /\ writing = "idle"
  /\ writePos + n <= MaxFrames
  /\ ahead' = writePos + n
  /\ toWrite' = writePos..(writePos + n - 1)
  /\ writing' = "copy"
  /\ UNCHANGED <<cells, writePos, meta, readerVars>>

CopyIn(pos) ==
  /\ writing = "copy" /\ pos \in toWrite
  /\ cells' = [cells EXCEPT ![Cell(pos)] = pos]
  /\ toWrite' = toWrite \ {pos}
  /\ UNCHANGED <<writePos, meta, writing, ahead, readerVars>>

(* The clock's position is that of the chunk's first frame. *)
Stamp ==
  /\ writing = "copy" /\ toWrite = {}
  /\ meta' = writePos
  /\ writing' = "publish"
  /\ UNCHANGED <<cells, writePos, ahead, toWrite, readerVars>>

Publish ==
  /\ writing = "publish"
  /\ writePos' = ahead
  /\ writing' = "idle"
  /\ UNCHANGED <<cells, meta, ahead, toWrite, readerVars>>

--------------------------------------------------------------------------------
(* read_interleaved *)

Written(pos) == pos + Quantum <= writePos

Lapped(pos) == writePos > pos + Capacity

(* None when it is not Written or is Lapped. *)
ReadBegin(pos) ==
  /\ reading = "idle"
  /\ Written(pos) /\ ~Lapped(pos)
  /\ reading' = "copy"
  /\ readPos' = pos
  /\ toRead' = Offset
  /\ out' = [i \in Offset |-> None]
  /\ UNCHANGED writerVars

CopyOut(i) ==
  /\ reading = "copy" /\ i \in toRead
  /\ out' = [out EXCEPT ![i] = cells[Cell(readPos + i)]]
  /\ toRead' = toRead \ {i}
  /\ UNCHANGED <<reading, readPos, writerVars>>

ReadEnd ==
  /\ reading = "copy" /\ toRead = {}
  /\ reading' = "idle"
  /\ readPos' = 0
  /\ out' = [i \in Offset |-> None]
  /\ UNCHANGED <<toRead, writerVars>>

RingNext ==
  \/ \E n \in WriteSizes : WriteBegin(n)
  \/ \E pos \in toWrite : CopyIn(pos)
  \/ Stamp
  \/ Publish
  \/ \E pos \in Nat : ReadBegin(pos)
  \/ \E i \in toRead : CopyOut(i)
  \/ ReadEnd

RingSpec == RingInit /\ [][RingNext]_ringVars

--------------------------------------------------------------------------------

Whole == \A i \in Offset : out[i] = readPos + i

(* A copy that has ended is what was written for its positions, unless the *)
(* writer, by then, had begun to write more than Capacity frames past its  *)
(* first: the test before the copy is enough for a reader that is not      *)
(* overtaken while it copies.                                              *)
WholeUnlessOvertaken ==
  reading = "copy" /\ toRead = {} /\ ahead <= readPos + Capacity => Whole

================================================================================
