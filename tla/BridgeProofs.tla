----------------------------- MODULE BridgeProofs -----------------------------
(***************************************************************************)
(* What the readers of the two bridges get from the callbacks, for every   *)
(* size of ring, chunk and quantum and every number of clients.            *)
(***************************************************************************)
EXTENDS PcmBridge, LevelTracker, TLAPS

LEMMA CellInRing ==
  ASSUME NEW p \in Nat
  PROVE  Cell(p) \in 0..(Capacity - 1)
  BY RingAssumption DEF Cell

(* Two positions less than the ring apart have cells of their own. *)
LEMMA CellsDiffer ==
  ASSUME NEW p \in Nat, NEW q \in Nat, p < q, q < p + Capacity
  PROVE  Cell(p) # Cell(q)
<1>1. Capacity \in Nat \ {0}
  BY RingAssumption
<1>2. \A n \in Nat : n = Capacity * (n \div Capacity) + (n % Capacity)
                       /\ n \div Capacity \in Int
  BY <1>1
<1> DEFINE a == p \div Capacity
           b == q \div Capacity
<1> SUFFICES ASSUME p % Capacity = q % Capacity PROVE FALSE
  BY DEF Cell
<1>3. a \in Int /\ b \in Int /\ q - p = Capacity * b - Capacity * a
  BY <1>1, <1>2
<1>4. q - p = Capacity * (b - a)
  BY <1>1, <1>3
<1> HIDE DEF a, b
<1>5. b - a \in Int /\ b - a > 0
  BY <1>1, <1>3, <1>4
<1>6. Capacity * (b - a) >= Capacity
  BY <1>1, <1>5
<1> QED BY <1>1, <1>4, <1>6

(* What is published, or copied already, is in its cell until the writer   *)
(* has begun to write Capacity frames past it.                             *)
Kept(p) == cells[Cell(p)] = p

RingInv ==
  /\ cells \in [0..(Capacity - 1) -> Nat \union {None}]
  /\ writePos \in Nat /\ ahead \in writePos..(writePos + Capacity)
  /\ toWrite \subseteq writePos..(ahead - 1)
  /\ writing \in {"idle", "copy", "publish"}
  /\ writing = "idle" => ahead = writePos
  /\ writing # "copy" => toWrite = {}
  /\ \A p \in 0..(writePos - 1) : ahead <= p + Capacity => Kept(p)
  /\ \A p \in (writePos..(ahead - 1)) \ toWrite : Kept(p)
  /\ readPos \in Nat /\ toRead \subseteq Offset
  /\ out \in [Offset -> Nat \union {None}]
  /\ reading = "copy" => readPos + Quantum <= writePos
  /\ reading = "copy" /\ ahead <= readPos + Capacity
       => \A i \in Offset \ toRead : out[i] = readPos + i

LEMMA RingInit_Inv == RingInit => RingInv
  BY RingAssumption DEF RingInit, RingInv, Offset, None

LEMMA WriteBegin_Inv ==
  ASSUME RingInv, NEW n \in WriteSizes, WriteBegin(n)
  PROVE  RingInv'
<1>1. n \in 1..Capacity
  BY RingAssumption
<1>2. /\ ahead = writePos /\ ahead' = writePos + n /\ writePos' = writePos
      /\ toWrite' = writePos..(writePos + n - 1) /\ cells' = cells
      /\ UNCHANGED <<reading, readPos, toRead, out>> /\ writing' = "copy"
  BY DEF WriteBegin, RingInv, readerVars
<1>3. \A p \in 0..(writePos' - 1) : ahead' <= p + Capacity => Kept(p)'
  <2>1. \A p : Kept(p)' <=> Kept(p)
    BY <1>2 DEF Kept, Cell
  <2> QED BY <2>1, <1>1, <1>2, RingAssumption DEF RingInv
<1>4. reading' = "copy" /\ ahead' <= readPos' + Capacity
        => \A i \in Offset \ toRead' : out'[i] = readPos' + i
  BY <1>1, <1>2, RingAssumption DEF RingInv
<1> QED BY <1>1, <1>2, <1>3, <1>4, RingAssumption DEF RingInv

LEMMA CopyIn_Inv ==
  ASSUME RingInv, NEW q \in toWrite, CopyIn(q)
  PROVE  RingInv'
<1>1. /\ q \in writePos..(ahead - 1) /\ q \in Nat
      /\ cells' = [cells EXCEPT ![Cell(q)] = q] /\ toWrite' = toWrite \ {q}
      /\ UNCHANGED <<writePos, writing, ahead, reading, readPos, toRead, out>>
  BY DEF CopyIn, RingInv, readerVars
<1>2. Cell(q) \in 0..(Capacity - 1)
  BY <1>1, CellInRing
<1>3. Kept(q)'
  BY <1>1, <1>2 DEF Kept, RingInv, Cell
<1>4. \A p \in 0..(writePos - 1) : ahead <= p + Capacity => Kept(p)'
  <2> SUFFICES ASSUME NEW p \in 0..(writePos - 1), ahead <= p + Capacity
               PROVE  Kept(p)'
    OBVIOUS
  <2>1. Cell(p) # Cell(q)
    <3>1. p \in Nat /\ p < q /\ q < p + Capacity
      BY <1>1, RingAssumption DEF RingInv
    <3> QED BY <3>1, <1>1, CellsDiffer
  <2>2. Kept(p)
    BY DEF RingInv
  <2> QED BY <2>1, <2>2, <1>1 DEF Kept, RingInv, Cell
<1>5. \A p \in (writePos..(ahead - 1)) \ toWrite' : Kept(p)'
  <2> SUFFICES ASSUME NEW p \in (writePos..(ahead - 1)) \ toWrite, p # q
               PROVE  Kept(p)'
    BY <1>1, <1>3
  <2>1. Cell(p) # Cell(q)
    <3>1. p \in Nat /\ p < q + Capacity /\ q < p + Capacity
      BY <1>1, RingAssumption DEF RingInv
    <3>2. CASE p < q
      BY <3>1, <3>2, <1>1, CellsDiffer
    <3>3. CASE q < p
      BY <3>1, <3>3, <1>1, CellsDiffer
    <3> QED BY <3>1, <3>2, <3>3, <1>1
  <2>2. Kept(p)
    BY DEF RingInv
  <2> QED BY <2>1, <2>2, <1>1 DEF Kept, RingInv, Cell
<1>6. cells' \in [0..(Capacity - 1) -> Nat \union {None}]
  BY <1>1, <1>2 DEF RingInv
<1>7. writing' # "copy" => toWrite' = {}
  BY DEF CopyIn
<1> QED BY <1>1, <1>4, <1>5, <1>6, <1>7 DEF RingInv

LEMMA Publish_Inv == RingInv /\ Publish => RingInv'
<1> SUFFICES ASSUME RingInv, Publish PROVE RingInv'
  OBVIOUS
<1>1. /\ writePos' = ahead /\ ahead' = ahead /\ toWrite' = toWrite /\ toWrite = {}
      /\ writing' = "idle"
      /\ UNCHANGED <<cells, reading, readPos, toRead, out>>
  BY DEF Publish, RingInv, readerVars
<1>2. \A p \in Nat : Kept(p)' <=> Kept(p)
  BY <1>1 DEF Kept, Cell
<1>3. \A p \in 0..(writePos' - 1) : ahead' <= p + Capacity => Kept(p)'
  BY <1>1, <1>2, RingAssumption DEF RingInv
<1> QED BY <1>1, <1>3, RingAssumption DEF RingInv

LEMMA CopyOut_Inv ==
  ASSUME RingInv, NEW i \in toRead, CopyOut(i)
  PROVE  RingInv'
<1>1. /\ i \in Offset /\ i \in Nat /\ i < Quantum /\ reading = "copy"
      /\ out' = [out EXCEPT ![i] = cells[Cell(readPos + i)]]
      /\ toRead' = toRead \ {i}
      /\ UNCHANGED <<reading, readPos>>
      /\ UNCHANGED <<cells, writePos, writing, ahead, toWrite>>
  BY RingAssumption DEF CopyOut, RingInv, writerVars, Offset
<1>2. readPos + i \in Nat /\ Cell(readPos + i) \in 0..(Capacity - 1)
  <2>1. readPos + i \in Nat
    BY <1>1 DEF RingInv
  <2> QED BY <2>1, CellInRing
<1>3. ahead <= readPos + Capacity => cells[Cell(readPos + i)] = readPos + i
  BY <1>1, <1>2, RingAssumption DEF RingInv, Kept
<1>4. out' \in [Offset -> Nat \union {None}]
  BY <1>1, <1>2 DEF RingInv
<1>5. ahead' <= readPos' + Capacity
        => \A j \in Offset \ toRead' : out'[j] = readPos' + j
  BY <1>1, <1>3 DEF RingInv
<1> QED BY <1>1, <1>4, <1>5 DEF RingInv, Kept, Cell

LEMMA RingNext_Inv == RingInv /\ [RingNext]_ringVars => RingInv'
<1> SUFFICES ASSUME RingInv, [RingNext]_ringVars PROVE RingInv'
  OBVIOUS
<1>1. CASE \E n \in WriteSizes : WriteBegin(n)
  BY <1>1, WriteBegin_Inv
<1>2. CASE \E q \in toWrite : CopyIn(q)
  BY <1>2, CopyIn_Inv
<1>3. CASE Stamp
  BY <1>3 DEF Stamp, RingInv, readerVars, Kept, Cell
<1>4. CASE Publish
  BY <1>4, Publish_Inv
<1>5. ASSUME NEW p \in Nat, ReadBegin(p) PROVE RingInv'
  BY <1>5, RingAssumption
     DEF ReadBegin, Written, RingInv, writerVars, Kept, Cell, Offset, None
<1>6. CASE \E i \in toRead : CopyOut(i)
  BY <1>6, CopyOut_Inv
<1>7. CASE ReadEnd
  BY <1>7 DEF ReadEnd, RingInv, writerVars, Kept, Cell, Offset, None
<1>8. CASE UNCHANGED ringVars
  BY <1>8 DEF ringVars, writerVars, readerVars, RingInv, Kept, Cell
<1> QED BY <1>1, <1>2, <1>3, <1>4, <1>5, <1>6, <1>7, <1>8 DEF RingNext

(* A chunk is what was written for its positions, unless the writer passed *)
(* it by the whole ring before the copy had ended.                         *)
THEOREM RingIsWhole == RingSpec => []WholeUnlessOvertaken
<1>1. RingInv => WholeUnlessOvertaken
  BY DEF RingInv, WholeUnlessOvertaken, Whole
<1> QED BY <1>1, RingInit_Inv, RingNext_Inv, PTL DEF RingSpec

--------------------------------------------------------------------------------
(* pcm-bridge. *)

BridgeInv ==
  /\ PcmTypeOK
  /\ server = "send" => reading = "copy"
  /\ server = "read" => minRead + Quantum <= wp

LEMMA BridgeInit_Inv == BridgeInit => BridgeInv /\ RingInv
<1> SUFFICES ASSUME BridgeInit PROVE BridgeInv
  BY RingInit_Inv DEF BridgeInit
<1>1. 0 \in 0..MaxFrames /\ 0 \in 0..PruneInterval /\ 0 \in 0..0
  BY RingAssumption, BridgeAssumption
<1>2. /\ writePos = 0 /\ ahead = 0 /\ toWrite = {} /\ meta = None
      /\ writing = "idle" /\ reading = "idle" /\ readPos = 0 /\ toRead = {}
      /\ cells \in [0..(Capacity - 1) -> 0..MaxFrames \union {None}]
  BY DEF BridgeInit, RingInit
<1>3. ahead \in writePos..MaxFrames
  BY <1>1, <1>2
<1> QED BY <1>1, <1>2, <1>3 DEF BridgeInit, BridgeInv, PcmTypeOK, clients, Connection,
                                Accepted, Serving

(* Every step of the bridge is one of the ring, or leaves it alone. *)
LEMMA BridgeNext_Ring ==
  ASSUME BridgeInv, [BridgeNext]_bridgeVars
  PROVE  [RingNext]_ringVars
<1>1. CASE callback
  BY <1>1 DEF callback, Write, WriteEnd, SetFlag, Wake, RingNext
<1>2. CASE serve
  <2>1. CASE Read
    <3>1. minRead \in Nat
      BY DEF BridgeInv, PcmTypeOK
    <3> QED BY <3>1, <2>1 DEF Read, RingNext
  <2>2. CASE ReadCopy
    BY <2>2 DEF ReadCopy, RingNext
  <2>3. CASE Done
    BY <2>3 DEF Done, RingNext
  <2>4. CASE \E c \in Client : Accept(c) \/ Send(c) \/ Reset(c) \/ Prune(c)
    BY <2>4 DEF Accept, Send, Reset, Prune, Visit
  <2>5. CASE Look \/ ReadMeta \/ ReadNone \/ Wait \/ Test \/ Sleep \/ Timeout \/ WaitEnd
    BY <2>5 DEF Look, ReadMeta, ReadNone, Wait, Test, Sleep, Timeout, WaitEnd
  <2> QED BY <1>2, <2>1, <2>2, <2>3, <2>4, <2>5 DEF serve
<1>3. CASE \E c \in Client : Connect(c) \/ Close(c)
  BY <1>3 DEF Connect, Close
<1>4. CASE UNCHANGED bridgeVars
  BY <1>4 DEF bridgeVars
<1> QED BY <1>1, <1>2, <1>3, <1>4 DEF BridgeNext

LEMMA Callback_Inv == BridgeInv /\ RingInv /\ callback => BridgeInv'
<1> SUFFICES ASSUME BridgeInv, RingInv, callback PROVE BridgeInv'
  OBVIOUS
<1>1. ASSUME NEW n \in WriteSizes, WriteBegin(n), UNCHANGED <<serverVars, flag, notify>>
      PROVE  BridgeInv'
  BY <1>1, RingAssumption
  DEF WriteBegin, readerVars, serverVars, RingInv, BridgeInv, PcmTypeOK, clients
<1>2. ASSUME NEW p \in toWrite, CopyIn(p), UNCHANGED <<serverVars, flag, notify>>
      PROVE  BridgeInv'
  <2>1. p \in 0..MaxFrames /\ Cell(p) \in 0..(Capacity - 1)
    <3>1. p \in 0..MaxFrames
      BY RingAssumption DEF BridgeInv, PcmTypeOK
    <3> QED BY <3>1, CellInRing
  <2>2. cells' \in [0..(Capacity - 1) -> 0..MaxFrames \union {None}]
    BY <1>2, <2>1 DEF CopyIn, BridgeInv, PcmTypeOK
  <2> QED BY <1>2, <2>2
      DEF CopyIn, readerVars, serverVars, BridgeInv, PcmTypeOK, clients
<1>3. CASE Stamp /\ UNCHANGED <<serverVars, flag, notify>>
  BY <1>3 DEF Stamp, readerVars, serverVars, BridgeInv, PcmTypeOK, clients
<1>4. CASE WriteEnd
  BY <1>4, RingAssumption
  DEF WriteEnd, Publish, readerVars, serverVars, RingInv, BridgeInv, PcmTypeOK, clients
<1>5. CASE SetFlag
  BY <1>5 DEF SetFlag, ringVars, writerVars, readerVars, serverVars, BridgeInv,
              PcmTypeOK, clients
<1>6. CASE Wake
  BY <1>6 DEF Wake, ringVars, writerVars, readerVars, BridgeInv, PcmTypeOK, clients,
              Serving
<1> QED BY <1>1, <1>2, <1>3, <1>4, <1>5, <1>6 DEF callback, Write

(* What retain_mut does to the client it visits. *)
LEMMA Visit_Inv ==
  ASSUME BridgeInv, NEW c \in Client, Visit(c), NEW state \in Connection,
         NEW next \in 0..MaxFrames,
         conn' = [conn EXCEPT ![c] = state], pos' = [pos EXCEPT ![c] = next]
  PROVE  BridgeInv'
BY DEF Visit, ringVars, writerVars, readerVars, BridgeInv, PcmTypeOK, clients

LEMMA Sent_Inv ==
  ASSUME BridgeInv, NEW c \in Client, Visit(c), NEW next \in 0..MaxFrames,
         Sent(c, next)
  PROVE  BridgeInv'
<1>1. PICK state \in AfterWrite(conn[c]) :
        /\ conn' = [conn EXCEPT ![c] = state]
        /\ pos' = IF state = "none" THEN [pos EXCEPT ![c] = 0]
                  ELSE [pos EXCEPT ![c] = next]
  BY DEF Sent
<1>2. state \in Connection /\ 0 \in 0..MaxFrames
  BY RingAssumption DEF AfterWrite, Connection
<1> QED BY <1>1, <1>2, Visit_Inv

LEMMA Serve_Inv == BridgeInv /\ RingInv /\ serve => BridgeInv'
<1> SUFFICES ASSUME BridgeInv, RingInv, serve PROVE BridgeInv'
  OBVIOUS
<1>0. writePos \in 0..MaxFrames /\ wp \in 0..MaxFrames
  BY RingAssumption DEF BridgeInv, PcmTypeOK
<1>1. ASSUME NEW c \in Client, Accept(c) PROVE BridgeInv'
  BY <1>0, <1>1 DEF Accept, ringVars, writerVars, readerVars, BridgeInv, PcmTypeOK,
                    clients, Connection, Accepted
<1>2. ASSUME NEW c \in Client, Send(c) PROVE BridgeInv'
  <2>1. Visit(c) /\ c \in Client /\ conn[c] \in Connection /\ pos[c] \in 0..MaxFrames
    BY <1>2 DEF Send, BridgeInv, PcmTypeOK
  <2>2. At(c) \in 0..MaxFrames
    BY <2>1, <1>0 DEF At
  <2>3. CASE pos' = [pos EXCEPT ![c] = At(c)] /\ conn' = conn
    <3>1. conn' = [conn EXCEPT ![c] = conn[c]]
      BY <2>3 DEF BridgeInv, PcmTypeOK
    <3> QED BY <2>1, <2>2, <2>3, <3>1, Visit_Inv
  <2>4. CASE At(c) <= readPos /\ Sent(c, At(c) + Quantum)
    <3>1. readPos + Quantum <= writePos /\ readPos \in Nat
      BY <1>2 DEF Send, BridgeInv, RingInv
    <3>2. At(c) + Quantum \in 0..MaxFrames
      BY <3>1, <2>2, <2>4, <1>0, RingAssumption
    <3> QED BY <2>1, <2>4, <3>2, Sent_Inv
  <2> QED BY <1>2, <2>3, <2>4 DEF Send
<1>3. ASSUME NEW c \in Client, Reset(c) PROVE BridgeInv'
  BY <1>0, <1>3, Sent_Inv DEF Reset
<1>4. ASSUME NEW c \in Client, Prune(c) PROVE BridgeInv'
  <2>1. pos[c] \in 0..MaxFrames
    BY DEF BridgeInv, PcmTypeOK
  <2> QED BY <2>1, <1>4, Sent_Inv DEF Prune
<1>5. CASE Look
  <2>1. CASE Enough /\ server' = "read"
    <3>1. PICK slowest \in clients :
            /\ \A c \in clients : pos[slowest] <= pos[c]
            /\ minRead' = pos[slowest]
      BY <1>5, <2>1 DEF Look
    <3>2. pos[slowest] \in Nat /\ pos[slowest] + Quantum <= writePos
      BY <2>1, <3>1, RingAssumption DEF Enough, Written, BridgeInv, PcmTypeOK, clients
    <3>3. minRead' \in 0..wp' /\ minRead' + Quantum <= wp' /\ wp' = writePos
      BY <1>5, <2>1, <3>1, <3>2, <1>0, RingAssumption DEF Look
    <3> QED BY <1>5, <2>1, <3>3, <1>0, BridgeAssumption
        DEF Look, ringVars, writerVars, readerVars, BridgeInv, PcmTypeOK, clients, Serving
  <2>2. CASE UNCHANGED <<wp, minRead>> /\ server' \in {"prune", "wait"}
    BY <1>5, <2>2, BridgeAssumption
    DEF Look, ringVars, writerVars, readerVars, BridgeInv, PcmTypeOK, clients, Serving
  <2> QED BY <1>5, <2>1, <2>2 DEF Look
<1>6. CASE Read
  BY <1>6 DEF Read, ReadBegin, writerVars, serverVars, BridgeInv, PcmTypeOK, clients
<1>7. CASE ReadCopy
  BY <1>7 DEF ReadCopy, CopyOut, writerVars, serverVars, BridgeInv, PcmTypeOK, clients
<1>8. CASE ReadMeta
  BY <1>8 DEF ReadMeta, ringVars, writerVars, readerVars, BridgeInv, PcmTypeOK,
              clients, Serving
<1>9. CASE ReadNone
  BY <1>9, <1>0 DEF ReadNone, ringVars, writerVars, readerVars, BridgeInv, PcmTypeOK,
                    clients, Serving
<1>10. CASE Done
  <2>1. /\ wp' = 0 /\ minRead' = 0 /\ stamp' = None /\ todo' = todo
        /\ UNCHANGED <<conn, pos, idle, flag, notify, writerVars, toRead>>
        /\ server' \in {"accept", "wait"} /\ reading' \in {reading, "idle"}
    BY <1>10 DEF Done, ReadEnd, ringVars, readerVars
  <2>2. 0 \in 0..writePos /\ 0 \in 0..0
    BY <1>0
  <2> QED BY <2>1, <2>2 DEF writerVars, BridgeInv, PcmTypeOK, clients, Serving
<1>11. CASE Wait \/ Test \/ Sleep \/ Timeout \/ WaitEnd
  BY <1>11 DEF Wait, Test, Sleep, Timeout, WaitEnd, ringVars, writerVars, readerVars,
               BridgeInv, PcmTypeOK, clients, Serving
<1> QED BY <1>1, <1>2, <1>3, <1>4, <1>5, <1>6, <1>7, <1>8, <1>9, <1>10, <1>11 DEF serve

LEMMA BridgeNext_Inv == BridgeInv /\ RingInv /\ [BridgeNext]_bridgeVars => BridgeInv'
<1> SUFFICES ASSUME BridgeInv, RingInv, [BridgeNext]_bridgeVars PROVE BridgeInv'
  OBVIOUS
<1>1. CASE \E c \in Client : Connect(c) \/ Close(c)
  BY <1>1 DEF Connect, Close, ringVars, writerVars, readerVars, BridgeInv, PcmTypeOK,
              clients, Connection, Accepted
<1>2. CASE UNCHANGED bridgeVars
  BY <1>2 DEF bridgeVars, ringVars, writerVars, readerVars, serverVars, BridgeInv,
              PcmTypeOK, clients
<1> QED BY <1>1, <1>2, Callback_Inv, Serve_Inv DEF BridgeNext

LEMMA BridgeSpec_Inv == BridgeSpec => [](BridgeInv /\ RingInv)
  BY BridgeInit_Inv, BridgeNext_Inv, BridgeNext_Ring, RingNext_Inv, PTL DEF BridgeSpec

(* No position runs past what was written, and no client is visited that   *)
(* is not served, whatever clients, callbacks and notifications do.        *)
THEOREM PcmType == BridgeSpec => []PcmTypeOK
  BY BridgeSpec_Inv, PTL DEF BridgeInv

(* What pcm-bridge sends is what was written for its positions, unless the *)
(* callback passed it by the whole ring while it was copied.               *)
THEOREM ChunksWholeUnlessOvertaken == BridgeSpec => []WholeUnlessOvertaken
<1>1. RingInv => WholeUnlessOvertaken
  BY DEF RingInv, WholeUnlessOvertaken, Whole
<1> QED BY <1>1, BridgeSpec_Inv, PTL

(* min_read is at most every position until the clients are visited, and   *)
(* they are reset only when it has been lapped.                            *)
SkipInv ==
  /\ server \in {"read", "send"} => \A c \in clients : minRead <= pos[c]
  /\ server = "reset" => minRead + Capacity < writePos

LEMMA Moves_Skip ==
  ASSUME BridgeInv, SkipInv, NEW c \in clients, Visit(c), UNCHANGED server,
         NEW next \in Nat, pos[c] <= next, Sent(c, next)
  PROVE  SkipInv'
<1>1. UNCHANGED <<writePos, minRead>> /\ \A d \in clients' : d \in clients
  BY DEF Visit, ringVars, writerVars, Sent, AfterWrite, clients, Accepted, BridgeInv,
         PcmTypeOK
<1>2. c \in clients' => pos'[c] = next
  BY DEF Sent, clients, Accepted, BridgeInv, PcmTypeOK
<1>3. \A d \in clients' : d # c => pos'[d] = pos[d]
  BY DEF Sent, clients, Accepted, BridgeInv, PcmTypeOK
<1>4. \A d \in clients : pos[d] \in Nat
  BY DEF BridgeInv, PcmTypeOK, clients
<1>5. minRead \in Nat
  BY DEF BridgeInv, PcmTypeOK
<1> QED BY <1>1, <1>2, <1>3, <1>4, <1>5 DEF SkipInv

LEMMA BridgeNext_Skip ==
  ASSUME BridgeInv, RingInv, SkipInv, [BridgeNext]_bridgeVars
  PROVE  SkipInv'
<1>0. writePos \in Nat /\ wp \in Nat /\ minRead \in Nat /\ wp <= writePos
      /\ \A c \in Client : pos[c] \in Nat
  BY RingAssumption DEF BridgeInv, PcmTypeOK
<1>1. CASE callback
  <2>1. writePos' \in Nat /\ writePos' >= writePos
    BY <1>1, <1>0 DEF callback, Write, WriteBegin, CopyIn, Stamp, WriteEnd, Publish,
                      SetFlag, Wake, ringVars, writerVars, RingInv
  <2>2. /\ UNCHANGED <<conn, pos, minRead>>
        /\ server' \in {"read", "send", "reset"} => server' = server
    BY <1>1 DEF callback, Write, WriteEnd, SetFlag, Wake, serverVars
  <2> QED BY <2>1, <2>2, <1>0, RingAssumption DEF SkipInv, clients
<1>2. ASSUME NEW c \in Client, Send(c) PROVE SkipInv'
  <2>0. c \in clients /\ server' = server /\ Visit(c)
    BY <1>2 DEF Send, Visit, BridgeInv, PcmTypeOK
  <2>1. At(c) \in Nat /\ pos[c] <= At(c)
    BY <1>0, RingAssumption DEF At
  <2>2. CASE pos' = [pos EXCEPT ![c] = At(c)] /\ conn' = conn
    <3>1. pos[c] >= minRead /\ server = "send" /\ UNCHANGED <<minRead, writePos>>
      BY <1>2, <2>0 DEF Send, SkipInv, Visit, ringVars, writerVars
    <3> QED BY <2>0, <2>1, <2>2, <3>1, <1>0 DEF SkipInv, clients, BridgeInv, PcmTypeOK
  <2>3. CASE Sent(c, At(c) + Quantum)
    <3>1. At(c) + Quantum \in Nat /\ pos[c] <= At(c) + Quantum
      BY <1>0, <2>1, RingAssumption
    <3> QED BY <2>0, <2>3, <3>1, Moves_Skip
  <2> QED BY <1>2, <2>2, <2>3 DEF Send
<1>3. ASSUME NEW c \in Client, Reset(c) PROVE SkipInv'
  BY <1>3, <1>0 DEF Reset, Visit, ringVars, writerVars, SkipInv
<1>4. CASE Look
  <2>1. CASE server' = "read"
    <3>1. PICK slowest \in clients :
            /\ \A c \in clients : pos[slowest] <= pos[c]
            /\ minRead' = pos[slowest]
      BY <1>4, <2>1 DEF Look
    <3> QED BY <1>4, <2>1, <3>1 DEF Look, SkipInv, clients
  <2>2. CASE server' \in {"prune", "wait"}
    BY <2>2 DEF SkipInv
  <2> QED BY <1>4, <2>1, <2>2 DEF Look
<1>5. CASE Read \/ ReadCopy \/ ReadMeta
  BY <1>5 DEF Read, ReadBegin, ReadCopy, CopyOut, ReadMeta, ringVars, writerVars,
              serverVars, SkipInv, clients
<1>6. CASE ReadNone
  <2>1. minRead + Quantum <= writePos
    BY <1>6, <1>0, RingAssumption DEF ReadNone, BridgeInv
  <2>2. minRead + Capacity < writePos
    BY <1>6, <2>1, <1>0, RingAssumption DEF ReadNone, Written, Lapped
  <2> QED BY <1>6, <2>2 DEF ReadNone, ringVars, writerVars, SkipInv
<1>7. CASE Done \/ Wait \/ Test \/ Sleep \/ Timeout \/ WaitEnd
  BY <1>7 DEF Done, Wait, Test, Sleep, Timeout, WaitEnd, SkipInv
<1>8. CASE \E c \in Client : Accept(c) \/ Prune(c)
  BY <1>8 DEF Accept, Prune, Visit, SkipInv
<1>9. CASE \E c \in Client : Connect(c) \/ Close(c)
  BY <1>9 DEF Connect, Close, ringVars, writerVars, SkipInv, clients, Accepted,
              BridgeInv, PcmTypeOK
<1>10. CASE UNCHANGED bridgeVars
  BY <1>10 DEF bridgeVars, ringVars, writerVars, serverVars, SkipInv, clients
<1> QED BY <1>1, <1>2, <1>3, <1>4, <1>5, <1>6, <1>7, <1>8, <1>9, <1>10
        DEF BridgeNext, serve

(* No client misses frames while none is more than the ring behind.        *)
THEOREM SkipsOnlyWhenLappedHolds == BridgeSpec => SkipsOnlyWhenLapped
<1>1. BridgeInit => SkipInv
  BY DEF BridgeInit, SkipInv
<1>2. BridgeInv /\ RingInv /\ SkipInv /\ [BridgeNext]_bridgeVars => SkipInv'
  BY BridgeNext_Skip
<1>3. ASSUME BridgeInv, SkipInv, BridgeNext, NEW c \in clients \intersect clients'
      PROVE  pos'[c] \in {pos[c], pos[c] + Quantum} \/ minRead + Capacity < writePos
  <2>0. /\ c \in Client /\ pos \in [Client -> 0..MaxFrames] /\ conn[c] # "none"
        /\ conn \in [Client -> Connection] /\ conn'[c] # "none"
        /\ conn[c] # "pending"
    BY <1>3 DEF BridgeInv, PcmTypeOK, clients, Accepted
  <2>1. CASE pos' = pos
    BY <2>1
  <2>2. ASSUME NEW d \in Client, Accept(d) PROVE pos'[c] = pos[c]
    BY <2>0, <2>2 DEF Accept
  <2>3. ASSUME NEW d \in Client, NEW next, Sent(d, next) PROVE pos'[c] = IF d = c THEN next ELSE pos[c]
    BY <2>0, <2>3 DEF Sent
  <2>4. ASSUME NEW d \in Client, Send(d)
        PROVE  pos'[c] \in {pos[c], pos[c] + Quantum} \/ minRead + Capacity < writePos
    <3>1. CASE d = c /\ At(c) # pos[c]
      <4>1. minRead <= pos[c] /\ wp > pos[c] + Capacity
        BY <1>3, <2>4, <3>1 DEF Send, At, SkipInv
      <4> QED BY <1>3, <2>0, <4>1, RingAssumption DEF BridgeInv, PcmTypeOK
    <3>2. CASE pos' = [pos EXCEPT ![d] = At(d)] /\ ~(d = c /\ At(c) # pos[c])
      BY <2>0, <3>2
    <3>3. CASE Sent(d, At(d) + Quantum) /\ ~(d = c /\ At(c) # pos[c])
      BY <2>3, <3>3
    <3> QED BY <2>4, <3>1, <3>2, <3>3 DEF Send
  <2>5. ASSUME NEW d \in Client, Reset(d) PROVE minRead + Capacity < writePos
    BY <1>3, <2>5 DEF Reset, SkipInv
  <2>6. ASSUME NEW d \in Client, Prune(d) PROVE pos'[c] = pos[c]
    BY <2>3, <2>6 DEF Prune
  <2>7. CASE callback \/ \E d \in Client : Connect(d) \/ Close(d)
    BY <2>1, <2>7 DEF callback, Write, WriteEnd, SetFlag, Wake, serverVars, Connect, Close
  <2>8. CASE Look \/ Read \/ ReadCopy \/ ReadMeta \/ ReadNone \/ Done
    BY <2>1, <2>8 DEF Look, Read, ReadCopy, ReadMeta, ReadNone, Done, serverVars
  <2>9. CASE Wait \/ Test \/ Sleep \/ Timeout \/ WaitEnd
    BY <2>1, <2>9 DEF Wait, Test, Sleep, Timeout, WaitEnd
  <2> QED BY <1>3, <2>2, <2>4, <2>5, <2>6, <2>7, <2>8, <2>9 DEF BridgeNext, serve
<1>4. BridgeInv /\ SkipInv /\ [BridgeNext]_bridgeVars
        => [\A c \in clients \intersect clients' :
              pos'[c] \in {pos[c], pos[c] + Quantum} \/ minRead + Capacity < writePos
           ]_bridgeVars
  BY <1>3
<1> QED BY <1>1, <1>2, <1>4, BridgeSpec_Inv, PTL DEF BridgeSpec, SkipsOnlyWhenLapped

--------------------------------------------------------------------------------
(* level-bridge. *)

Busy(b) == writer # "idle" /\ idx = b

(* A buffer has what is due, but for what the callback has still to add. *)
PeakMatches(b) ==
  IF Busy(b) /\ writer = "peak" /\ frame = 0
  THEN Larger(peak[b], loud) = due[b].peak
  ELSE peak[b] = due[b].peak /\ (Busy(b) => loud <= due[b].peak)

SumMatches(b) ==
  sum[b] = IF Busy(b) THEN due[b].sum - (Frames - frame) ELSE due[b].sum

CountMatches(b) ==
  count[b] = IF Busy(b) /\ writer # "stamp" THEN due[b].count - Frames
             ELSE due[b].count

ClockMatches(b) ==
  IF Busy(b) THEN due[b].clock = quanta ELSE clock[b] = due[b].clock

BufferMatches(b) ==
  PeakMatches(b) /\ SumMatches(b) /\ CountMatches(b) /\ ClockMatches(b)

(* What has been read and cleared of the buffer that is taken. *)
SnapMatches ==
  /\ reader \in {"peak", "sum", "clock", "clearCount"} => snap.count = due[old].count
  /\ reader \in {"sum", "clock", "clearCount"} => snap.peak = due[old].peak
  /\ reader \in {"clock", "clearCount"} => snap.sum = due[old].sum
  /\ reader = "clearCount" => snap.clock = due[old].clock

Cleared ==
  /\ reader \in {"clearClock", "clearPeak", "clearSum"} => count[old] = 0
  /\ reader \in {"clearPeak", "clearSum"} => clock[old] = 0
  /\ reader = "clearSum" => peak[old] = 0

TrackerInv ==
  /\ TrackerTypeOK
  /\ writer \in {"peak", "sum"} => frame < Frames
  /\ writer \in {"load", "store", "stamp"} => frame = Frames
  /\ writer = "sum" \/ frame > 0 \/ writer \in {"idle", "peak"}
  /\ reader # "idle" => old # active
  /\ \A b \in Buffer : Busy(b) /\ b # active
       => IF reader = "idle" THEN spoilt[b] ELSE crossed[b]
  /\ \A b \in Buffer : crossed[b] => reader # "idle" /\ old = b
  /\ \A b \in Buffer :
       ~crossed[b] /\ ~spoilt[b] /\ ~(reader \in Clearing /\ old = b)
         => BufferMatches(b)
  /\ writer = "store" /\ ~crossed[idx] /\ ~spoilt[idx] => prev = count[idx]
  /\ ~crossed[old] => Cleared
  /\ ~crossed[old] /\ ~spoilt[old] => SnapMatches

LEMMA TrackerInit_Inv == TrackerInit => TrackerInv
<1> SUFFICES ASSUME TrackerInit PROVE TrackerInv
  OBVIOUS
<1>1. TrackerTypeOK
  BY TrackerAssumption DEF TrackerInit, TrackerTypeOK, Buffer, Nothing
<1>2. \A b \in Buffer : BufferMatches(b)
  BY DEF TrackerInit, Nothing, BufferMatches, PeakMatches, SumMatches, CountMatches,
         ClockMatches, Busy
<1> QED BY <1>1, <1>2 DEF TrackerInit, TrackerInv, Busy, Cleared, SnapMatches, Clearing,
                          Buffer

LEMMA Tracker_TypeOK ==
  ASSUME TrackerTypeOK, [TrackerNext]_trackerVars,
         writer \in {"peak", "sum"} => frame < Frames
  PROVE  TrackerTypeOK'
<1>1. ASSUME NEW level \in Level, Process(level) PROVE TrackerTypeOK'
  <2>1. Added(due[active], level, quanta + 1)
          \in [peak : Nat, sum : Nat, count : Nat, clock : Nat]
    BY TrackerAssumption DEF TrackerTypeOK, Added, Larger
  <2> QED BY <1>1, <2>1, TrackerAssumption
      DEF Process, buffers, snapshotVars, TrackerTypeOK
<1>2. CASE ProcessStep
  BY <1>2, TrackerAssumption
  DEF ProcessStep, AddPeak, AddSum, LoadCount, StoreCount, StampClock, buffers,
      snapshotVars, ghosts, TrackerTypeOK, Larger, Buffer
<1>3. CASE Flip
  BY <1>3 DEF Flip, buffers, callbackVars, TrackerTypeOK, Buffer, Nothing, Reading
<1>4. CASE ReadCount \/ ReadPeak \/ ReadSum \/ ReadClock
  BY <1>4 DEF ReadCount, ReadPeak, ReadSum, ReadClock, buffers, callbackVars, ghosts,
              TrackerTypeOK, Reading
<1>5. CASE ClearCount \/ ClearClock \/ ClearPeak
  <2>1. CASE ClearCount
    BY <2>1 DEF ClearCount, callbackVars, ghosts, TrackerTypeOK, Clearing
  <2>2. CASE ClearClock
    BY <2>2 DEF ClearClock, callbackVars, ghosts, TrackerTypeOK, Clearing
  <2>3. CASE ClearPeak
    BY <2>3 DEF ClearPeak, callbackVars, ghosts, TrackerTypeOK, Clearing
  <2> QED BY <1>5, <2>1, <2>2, <2>3
<1>6. CASE ClearSum
  BY <1>6 DEF ClearSum, callbackVars, TrackerTypeOK, Nothing
<1>7. CASE UNCHANGED trackerVars
  BY <1>7 DEF trackerVars, buffers, callbackVars, snapshotVars, ghosts, TrackerTypeOK
<1> QED BY <1>1, <1>2, <1>3, <1>4, <1>5, <1>6, <1>7 DEF TrackerNext, TakeSnapshot

(* A quantum begins in the active buffer, which is not being taken. *)
LEMMA Process_Inv ==
  ASSUME TrackerInv, NEW level \in Level, Process(level), TrackerTypeOK'
  PROVE  TrackerInv'
<1>1. /\ writer = "idle" /\ writer' = "peak" /\ idx' = active /\ frame' = 0
      /\ loud' = level /\ quanta' = quanta + 1
      /\ UNCHANGED <<prev, peak, sum, count, clock, active, reader, old, snap>>
      /\ UNCHANGED <<crossed, spoilt>>
      /\ due' = [due EXCEPT ![active] = Added(due[active], level, quanta + 1)]
  BY DEF Process, buffers, snapshotVars
<1>2. \A b \in Buffer : b # active => due'[b] = due[b]
  BY <1>1 DEF TrackerInv, TrackerTypeOK
<1>3. due'[active] = Added(due[active], level, quanta + 1)
  BY <1>1 DEF TrackerInv, TrackerTypeOK
<1>4. ASSUME NEW b \in Buffer, BufferMatches(b)
      PROVE  BufferMatches(b)'
  <2>1. ~Busy(b)
    BY <1>1 DEF Busy
  <2>2. CASE b # active
    BY <1>1, <1>2, <1>4, <2>1, <2>2
    DEF BufferMatches, PeakMatches, SumMatches, CountMatches, ClockMatches, Busy
  <2>3. CASE b = active
    <3>1. /\ peak[b] = due[b].peak /\ sum[b] = due[b].sum /\ count[b] = due[b].count
      BY <1>4, <2>1 DEF BufferMatches, PeakMatches, SumMatches, CountMatches
    <3>2. /\ due'[b].peak = Larger(peak[b], level)
          /\ due'[b].sum = sum[b] + Frames
          /\ due'[b].count = count[b] + Frames
          /\ due'[b].clock = quanta + 1
      BY <1>3, <2>3, <3>1 DEF Added
    <3>3. sum[b] \in Nat /\ count[b] \in Nat /\ Frames \in Nat
      BY TrackerAssumption DEF TrackerInv, TrackerTypeOK
    <3> QED BY <1>1, <2>3, <3>2, <3>3
        DEF BufferMatches, PeakMatches, SumMatches, CountMatches, ClockMatches, Busy
  <2> QED BY <2>2, <2>3
<1>5. old # active => due'[old] = due[old]
  BY <1>2 DEF TrackerInv, TrackerTypeOK
<1>6. reader # "idle" => old # active
  BY DEF TrackerInv
<1>7. (~crossed[old] /\ ~spoilt[old] => SnapMatches)'
  <2>1. CASE reader = "idle"
    BY <2>1, <1>1 DEF SnapMatches
  <2>2. CASE reader # "idle"
    BY <2>2, <1>1, <1>5, <1>6 DEF SnapMatches, TrackerInv
  <2> QED BY <2>1, <2>2
<1>8. (~crossed[old] => Cleared)'
  BY <1>1 DEF Cleared, TrackerInv
<1> QED BY <1>1, <1>4, <1>7, <1>8, TrackerAssumption DEF TrackerInv, Busy

(* A step in the middle of a quantum. *)
LEMMA ProcessStep_Inv ==
  ASSUME TrackerInv, ProcessStep, TrackerTypeOK'
  PROVE  TrackerInv'
<1> DEFINE Untouched == UNCHANGED <<due, crossed, spoilt, active, reader, old, snap>>
<1>0. /\ Untouched /\ writer # "idle"
      /\ UNCHANGED <<idx, loud, quanta>>
      /\ idx \in Buffer /\ idx = idx' /\ Busy(idx)
      /\ (writer' # "idle" => writer # "idle")
  BY DEF ProcessStep, AddPeak, AddSum, LoadCount, StoreCount, StampClock, snapshotVars,
         ghosts, buffers, TrackerInv, TrackerTypeOK, Busy
<1>1. \A b \in Buffer : b # idx
        => /\ peak'[b] = peak[b] /\ sum'[b] = sum[b]
           /\ count'[b] = count[b] /\ clock'[b] = clock[b]
  BY DEF ProcessStep, AddPeak, AddSum, LoadCount, StoreCount, StampClock, buffers,
         TrackerInv, TrackerTypeOK
<1>2. \A b \in Buffer : b # idx /\ BufferMatches(b) => BufferMatches(b)'
  BY <1>0, <1>1 DEF BufferMatches, PeakMatches, SumMatches, CountMatches, ClockMatches,
                    Busy
<1>3. ~crossed[idx] /\ reader # "idle" => idx # old
  BY <1>0 DEF TrackerInv
<1>4. ~crossed[idx] /\ ~spoilt[idx]
        => BufferMatches(idx) /\ (writer = "store" => prev = count[idx])
  BY <1>0, <1>3 DEF TrackerInv, Clearing
<1>5. /\ frame \in 0..Frames /\ frame \in Nat /\ Frames \in Nat /\ loud \in Nat
      /\ peak[idx] \in Nat /\ sum[idx] \in Nat /\ count[idx] \in Nat
      /\ due[idx].peak \in Nat /\ due[idx].sum \in Nat /\ due[idx].count \in Nat
      /\ writer \in {"peak", "sum"} => frame < Frames
      /\ writer \in {"load", "store", "stamp"} => frame = Frames
  BY <1>0, TrackerAssumption DEF TrackerInv, TrackerTypeOK
<1>6. ~crossed[idx] /\ ~spoilt[idx]
        => BufferMatches(idx)' /\ (writer' = "store" => prev' = count'[idx])
  <2> SUFFICES ASSUME ~crossed[idx], ~spoilt[idx]
               PROVE  BufferMatches(idx)' /\ (writer' = "store" => prev' = count'[idx])
    OBVIOUS
  <2>0. BufferMatches(idx)
    BY <1>4
  <2>1. CASE AddPeak
    <3>1. peak'[idx] = Larger(peak[idx], loud) /\ writer' = "sum"
          /\ UNCHANGED <<sum, count, clock, frame>> /\ writer = "peak"
      BY <2>1, <1>0 DEF AddPeak, TrackerInv, TrackerTypeOK
    <3> QED BY <1>0, <1>5, <2>0, <3>1
        DEF BufferMatches, PeakMatches, SumMatches, CountMatches, ClockMatches, Busy,
            Larger
  <2>2. CASE AddSum
    <3>1. sum'[idx] = sum[idx] + 1 /\ writer = "sum" /\ frame' = frame + 1
          /\ writer' = (IF frame + 1 < Frames THEN "peak" ELSE "load")
          /\ UNCHANGED <<peak, count, clock>>
      BY <2>2, <1>0 DEF AddSum, TrackerInv, TrackerTypeOK
    <3> QED BY <1>0, <1>5, <2>0, <3>1
        DEF BufferMatches, PeakMatches, SumMatches, CountMatches, ClockMatches, Busy
  <2>3. CASE LoadCount
    <3>1. prev' = count[idx] /\ writer = "load" /\ writer' = "store"
          /\ UNCHANGED <<peak, sum, count, clock, frame>>
      BY <2>3 DEF LoadCount, buffers
    <3> QED BY <1>0, <1>5, <2>0, <3>1
        DEF BufferMatches, PeakMatches, SumMatches, CountMatches, ClockMatches, Busy
  <2>4. CASE StoreCount
    <3>1. count'[idx] = count[idx] + Frames /\ writer = "store" /\ writer' = "stamp"
          /\ UNCHANGED <<peak, sum, clock, frame>>
      BY <2>4, <1>0, <1>4 DEF StoreCount, TrackerInv, TrackerTypeOK
    <3> QED BY <1>0, <1>5, <2>0, <3>1
        DEF BufferMatches, PeakMatches, SumMatches, CountMatches, ClockMatches, Busy
  <2>5. CASE StampClock
    <3>1. clock'[idx] = quanta /\ writer = "stamp" /\ writer' = "idle"
          /\ UNCHANGED <<peak, sum, count, frame>>
      BY <2>5, <1>0 DEF StampClock, TrackerInv, TrackerTypeOK
    <3> QED BY <1>0, <1>5, <2>0, <3>1
        DEF BufferMatches, PeakMatches, SumMatches, CountMatches, ClockMatches, Busy
  <2> QED BY <2>1, <2>2, <2>3, <2>4, <2>5 DEF ProcessStep
<1>7. (~crossed[old] => Cleared)'
  <2> SUFFICES ASSUME ~crossed[old], reader # "idle" PROVE Cleared'
    BY <1>0 DEF Cleared
  <2>1. idx # old /\ old \in Buffer /\ Cleared
    BY <1>0 DEF TrackerInv, TrackerTypeOK
  <2> QED BY <1>0, <1>1, <2>1 DEF Cleared
<1>8. (~crossed[old] /\ ~spoilt[old] => SnapMatches)'
  BY <1>0 DEF SnapMatches, TrackerInv
<1>9. /\ writer' \in {"peak", "sum"} => frame' < Frames
      /\ writer' \in {"load", "store", "stamp"} => frame' = Frames
      /\ writer' = "sum" \/ frame' > 0 \/ writer' \in {"idle", "peak"}
  BY <1>5, TrackerAssumption
  DEF ProcessStep, AddPeak, AddSum, LoadCount, StoreCount, StampClock
<1>10. \A b \in Buffer : Busy(b)' => Busy(b)
  BY <1>0 DEF Busy
<1> QED BY <1>0, <1>2, <1>6, <1>7, <1>8, <1>9, <1>10 DEF TrackerInv

LEMMA Flip_Inv ==
  ASSUME TrackerInv, Flip, TrackerTypeOK'
  PROVE  TrackerInv'
<1>1. /\ reader = "idle" /\ reader' = "count" /\ active' = 1 - active /\ old' = active
      /\ crossed' = [crossed EXCEPT ![active] = Busy(active)]
      /\ UNCHANGED <<peak, sum, count, clock, writer, idx, frame, loud, prev, quanta>>
      /\ UNCHANGED <<due, spoilt>>
      /\ active \in Buffer /\ active' # active
  BY DEF Flip, Busy, buffers, callbackVars, TrackerInv, TrackerTypeOK, Buffer
<1>2. \A b \in Buffer : b # active => b = active' /\ crossed'[b] = crossed[b]
  BY <1>1 DEF TrackerInv, TrackerTypeOK, Buffer
<1>3. crossed'[active] = Busy(active) /\ \A b \in Buffer : ~crossed[b]
  BY <1>1 DEF TrackerInv, TrackerTypeOK
<1>4. \A b \in Buffer : (BufferMatches(b))' <=> BufferMatches(b)
  BY <1>1 DEF BufferMatches, PeakMatches, SumMatches, CountMatches, ClockMatches, Busy
<1>5. \A b \in Buffer : Busy(b)' <=> Busy(b)
  BY <1>1 DEF Busy
<1> QED BY <1>1, <1>2, <1>3, <1>4, <1>5
        DEF TrackerInv, Cleared, SnapMatches, Clearing

LEMMA Reads_Inv ==
  ASSUME TrackerInv, ReadCount \/ ReadPeak \/ ReadSum \/ ReadClock, TrackerTypeOK'
  PROVE  TrackerInv'
<1>1. /\ UNCHANGED <<peak, sum, count, clock, writer, idx, frame, loud, prev, quanta>>
      /\ UNCHANGED <<due, crossed, spoilt, active, old>>
      /\ reader \in {"count", "peak", "sum", "clock"}
      /\ reader' \in {"peak", "sum", "clock", "clearCount"}
  BY DEF ReadCount, ReadPeak, ReadSum, ReadClock, buffers, callbackVars, ghosts
<1>2. \A b \in Buffer : (BufferMatches(b))' <=> BufferMatches(b)
  BY <1>1 DEF BufferMatches, PeakMatches, SumMatches, CountMatches, ClockMatches, Busy
<1>3. ~crossed[old] /\ ~spoilt[old] => SnapMatches'
  <2> SUFFICES ASSUME ~crossed[old], ~spoilt[old] PROVE SnapMatches'
    OBVIOUS
  <2>1. old \in Buffer /\ ~Busy(old) /\ BufferMatches(old) /\ SnapMatches
    BY <1>1 DEF TrackerInv, TrackerTypeOK, Clearing
  <2>2. /\ peak[old] = due[old].peak /\ sum[old] = due[old].sum
        /\ count[old] = due[old].count /\ clock[old] = due[old].clock
    BY <2>1 DEF BufferMatches, PeakMatches, SumMatches, CountMatches, ClockMatches
  <2>3. snap \in [peak : Nat, sum : Nat, count : Nat, clock : Nat]
    BY DEF TrackerInv, TrackerTypeOK
  <2> QED BY <1>1, <2>1, <2>2, <2>3
      DEF ReadCount, ReadPeak, ReadSum, ReadClock, SnapMatches
<1> QED BY <1>1, <1>2, <1>3 DEF TrackerInv, Cleared, Clearing, Busy

LEMMA Clears_Inv ==
  ASSUME TrackerInv, ClearCount \/ ClearClock \/ ClearPeak, TrackerTypeOK'
  PROVE  TrackerInv'
<1>1. /\ UNCHANGED <<sum, writer, idx, frame, loud, prev, quanta>>
      /\ UNCHANGED <<due, crossed, spoilt, active, old, snap>>
      /\ reader \in {"clearCount", "clearClock", "clearPeak"} /\ reader' \in Clearing
      /\ old \in Buffer
  BY DEF ClearCount, ClearClock, ClearPeak, callbackVars, ghosts, Clearing, TrackerInv,
         TrackerTypeOK
<1>2. \A b \in Buffer : b # old
        => peak'[b] = peak[b] /\ count'[b] = count[b] /\ clock'[b] = clock[b]
  BY <1>1 DEF ClearCount, ClearClock, ClearPeak, TrackerInv, TrackerTypeOK
<1>3. \A b \in Buffer : b # old => ((BufferMatches(b))' <=> BufferMatches(b))
  BY <1>1, <1>2
  DEF BufferMatches, PeakMatches, SumMatches, CountMatches, ClockMatches, Busy
<1>4. ~crossed[old] => Cleared'
  BY <1>1 DEF ClearCount, ClearClock, ClearPeak, Cleared, TrackerInv, TrackerTypeOK
<1>5. writer = "store" /\ ~crossed[idx] => idx # old
  BY <1>1 DEF TrackerInv, TrackerTypeOK, Busy
<1>6. writer' = "store" /\ ~crossed'[idx'] /\ ~spoilt'[idx'] => prev' = count'[idx']
  BY <1>1, <1>2, <1>5 DEF TrackerInv, TrackerTypeOK
<1>7. SnapMatches'
  BY <1>1 DEF SnapMatches, Clearing
<1> QED BY <1>1, <1>3, <1>4, <1>6, <1>7 DEF TrackerInv, Clearing, Busy

LEMMA ClearSum_Inv ==
  ASSUME TrackerInv, ClearSum, TrackerTypeOK'
  PROVE  TrackerInv'
<1>1. /\ UNCHANGED <<peak, count, clock, writer, idx, frame, loud, prev, quanta>>
      /\ UNCHANGED <<active, old, snap>>
      /\ reader = "clearSum" /\ reader' = "idle" /\ old \in Buffer /\ old # active
  BY DEF ClearSum, callbackVars, TrackerInv, TrackerTypeOK
<1>2. /\ \A b \in Buffer : b # old
           => /\ sum'[b] = sum[b] /\ due'[b] = due[b]
              /\ crossed'[b] = crossed[b] /\ spoilt'[b] = spoilt[b]
      /\ sum'[old] = 0 /\ due'[old] = Nothing
      /\ crossed'[old] = FALSE /\ spoilt'[old] = crossed[old]
  BY <1>1 DEF ClearSum, TrackerInv, TrackerTypeOK
<1>3. \A b \in Buffer : b # old => ((BufferMatches(b))' <=> BufferMatches(b))
  BY <1>1, <1>2
  DEF BufferMatches, PeakMatches, SumMatches, CountMatches, ClockMatches, Busy
<1>4. ~crossed[old] => ~Busy(old) /\ BufferMatches(old)'
  <2> SUFFICES ASSUME ~crossed[old] PROVE ~Busy(old) /\ BufferMatches(old)'
    OBVIOUS
  <2>1. ~Busy(old) /\ count[old] = 0 /\ clock[old] = 0 /\ peak[old] = 0
    BY <1>1 DEF TrackerInv, Cleared
  <2> QED BY <1>1, <1>2, <2>1
      DEF BufferMatches, PeakMatches, SumMatches, CountMatches, ClockMatches, Busy,
          Nothing
<1>5. \A b \in Buffer : Busy(b)' <=> Busy(b)
  BY <1>1 DEF Busy
<1>6. \A b \in Buffer : ~crossed'[b]
  BY <1>1, <1>2 DEF TrackerInv
<1>7. \A b \in Buffer : Busy(b)' /\ b # active' => spoilt'[b]
  BY <1>1, <1>2, <1>5 DEF TrackerInv, TrackerTypeOK, Buffer
<1>8. \A b \in Buffer : ~spoilt'[b] => BufferMatches(b)'
  BY <1>1, <1>2, <1>3, <1>4 DEF TrackerInv, Clearing
<1>9. writer' = "store" /\ ~spoilt'[idx'] => prev' = count'[idx']
  <2>1. CASE idx = old
    <3>1. writer = "store" => Busy(old)
      BY <2>1 DEF Busy
    <3> QED BY <1>1, <1>2, <1>4, <2>1, <3>1
  <2>2. CASE idx # old
    BY <1>1, <1>2, <2>2 DEF TrackerInv, TrackerTypeOK
  <2> QED BY <2>1, <2>2
<1> QED BY <1>1, <1>6, <1>7, <1>8, <1>9 DEF TrackerInv, Cleared, SnapMatches

LEMMA TrackerNext_Inv == TrackerInv /\ [TrackerNext]_trackerVars => TrackerInv'
<1> SUFFICES ASSUME TrackerInv, [TrackerNext]_trackerVars PROVE TrackerInv'
  OBVIOUS
<1>1. TrackerTypeOK'
  BY Tracker_TypeOK DEF TrackerInv
<1>2. CASE UNCHANGED trackerVars
  BY <1>1, <1>2
  DEF trackerVars, buffers, callbackVars, snapshotVars, ghosts, TrackerInv, BufferMatches,
      PeakMatches, SumMatches, CountMatches, ClockMatches, Busy, Cleared, SnapMatches
<1> QED BY <1>1, <1>2, Process_Inv, ProcessStep_Inv, Flip_Inv, Reads_Inv, Clears_Inv,
           ClearSum_Inv DEF TrackerNext, TakeSnapshot

(* A snapshot is exact unless a callback ran across this flip or the one   *)
(* before of the same buffer.                                              *)
THEOREM ExactUnlessCrossedHolds == TrackerSpec => []ExactUnlessCrossed
<1>1. TrackerInv => ExactUnlessCrossed
  <2> SUFFICES ASSUME TrackerInv, Taken, ~crossed[old], ~spoilt[old]
               PROVE  snap = due[old]
    BY DEF ExactUnlessCrossed
  <2>1. SnapMatches /\ reader = "clearCount"
    BY DEF TrackerInv, Taken
  <2>2. /\ snap \in [peak : Nat, sum : Nat, count : Nat, clock : Nat]
        /\ due[old] \in [peak : Nat, sum : Nat, count : Nat, clock : Nat]
    BY DEF TrackerInv, TrackerTypeOK
  <2> QED BY <2>1, <2>2 DEF SnapMatches
<1> QED BY <1>1, TrackerInit_Inv, TrackerNext_Inv, PTL DEF TrackerSpec

(* Whatever is interrupted where, the index names a buffer.                *)
THEOREM TrackerType == TrackerSpec => []TrackerTypeOK
<1>1. TrackerInv => TrackerTypeOK
  BY DEF TrackerInv
<1> QED BY <1>1, TrackerInit_Inv, TrackerNext_Inv, PTL DEF TrackerSpec

================================================================================
