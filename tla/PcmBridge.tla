------------------------------- MODULE PcmBridge -------------------------------
(***************************************************************************)
(* pcm-bridge: the PipeWire callback writes to the ring and notifies; one  *)
(* server thread accepts clients and sends each of them, chunk by chunk,   *)
(* what follows the position it has reached (pcm-bridge, server.rs,        *)
(* notifier.rs).  Ticks of the idle loop are counted, not timed.           *)
(***************************************************************************)
EXTENDS PcmRing, FiniteSets

CONSTANTS
  Client,
  PruneInterval  (* IDLE_PRUNE_INTERVAL, 25 in the code                     *)

ASSUME BridgeAssumption ==
  /\ IsFiniteSet(Client)
  /\ PruneInterval \in Nat \ {0}

VARIABLES
  conn,    (* each client's connection                                      *)
  pos,     (* read_pos                                                      *)
  server,  (* where the server thread is in broadcast_loop                  *)
  wp,      (* its wp, and ring_wp after a chunk it could not read           *)
  minRead, (* min_read; both are 0 where the code's go out of scope         *)
  stamp,   (* the position in the header of the chunk                       *)
  todo,    (* clients that retain_mut has still to visit                    *)
  idle,    (* idle_ticks                                                    *)
  flag,    (* the notifier's flag                                           *)
  notify   (* where the callback is in notify                               *)

serverVars == <<conn, pos, server, wp, minRead, stamp, todo, idle>>
bridgeVars == <<ringVars, serverVars, flag, notify>>

(* A client connects and is accepted; one that has closed its connection   *)
(* can be written to once before writes fail.                              *)
Connection == {"none", "pending", "open", "closed", "reset"}
Accepted == {"open", "closed", "reset"}
clients == {c \in Client : conn[c] \in Accepted}

BridgeInit ==
  /\ RingInit
  /\ conn = [c \in Client |-> "none"]
  /\ pos = [c \in Client |-> 0]
  /\ server = "accept"
  /\ wp = 0 /\ minRead = 0 /\ stamp = None /\ todo = {} /\ idle = 0
  /\ flag = FALSE /\ notify = "idle"

--------------------------------------------------------------------------------
(* The callback. *)

Write ==
  /\ notify = "idle"
  /\ \/ \E n \in WriteSizes : WriteBegin(n)
     \/ \E p \in toWrite : CopyIn(p)
     \/ Stamp
  /\ UNCHANGED <<serverVars, flag, notify>>

WriteEnd ==
  /\ Publish
  /\ notify' = "flag"
  /\ UNCHANGED <<serverVars, flag>>

SetFlag ==
  /\ notify = "flag"
  /\ flag' = TRUE
  /\ notify' = "wake"
  /\ UNCHANGED <<ringVars, serverVars>>

(* notify_one wakes a thread that sleeps, and is lost on one that is about *)
(* to.                                                                     *)
Wake ==
  /\ notify = "wake"
  /\ notify' = "idle"
  /\ server' = IF server = "asleep" THEN "woken" ELSE server
  /\ UNCHANGED <<ringVars, conn, pos, wp, minRead, stamp, todo, idle, flag>>

callback == Write \/ WriteEnd \/ SetFlag \/ Wake

--------------------------------------------------------------------------------
(* The clients. *)

Connect(c) ==
  /\ conn[c] = "none"
  /\ conn' = [conn EXCEPT ![c] = "pending"]
  /\ UNCHANGED <<ringVars, pos, server, wp, minRead, stamp, todo, idle, flag, notify>>

Close(c) ==
  /\ conn[c] = "open"
  /\ conn' = [conn EXCEPT ![c] = "closed"]
  /\ UNCHANGED <<ringVars, pos, server, wp, minRead, stamp, todo, idle, flag, notify>>

--------------------------------------------------------------------------------
(* The server thread. *)

Accept(c) ==
  /\ server = "accept" /\ conn[c] = "pending"
  /\ conn' = [conn EXCEPT ![c] = "open"]
  /\ pos' = [pos EXCEPT ![c] = writePos]
  /\ UNCHANGED <<ringVars, server, wp, minRead, stamp, todo, idle, flag, notify>>

(* Slip: a chunk is read as soon as its first frame is there. *)
EnoughEarly == \E c \in clients : pos[c] < writePos
(* wp >= min_read + quantum, which no wp is when there is no client. *)
Enough == \E c \in clients : Written(pos[c])

Prunes == idle + 1 >= PruneInterval /\ clients # {}

(* accept found nobody; then the loads and the test. *)
Look ==
  /\ server = "accept"
  /\ \A c \in Client : conn[c] # "pending"
  /\ \/ /\ Enough
        /\ server' = "read"
        /\ wp' = writePos
        /\ \E slowest \in clients :
             /\ \A c \in clients : pos[slowest] <= pos[c]
             /\ minRead' = pos[slowest]
        /\ idle' = 0 /\ todo' = todo
     \/ /\ ~Enough
        /\ UNCHANGED <<wp, minRead>>
        /\ \/ Prunes /\ server' = "prune" /\ idle' = 0 /\ todo' = clients
           \/ /\ ~Prunes
              /\ server' = "wait"
              /\ idle' = IF idle < PruneInterval THEN idle + 1 ELSE idle
              /\ todo' = todo
  /\ UNCHANGED <<ringVars, conn, pos, stamp, flag, notify>>

Read ==
  /\ server = "read" /\ reading = "idle"
  /\ ReadBegin(minRead)
  /\ UNCHANGED <<serverVars, flag, notify>>

ReadCopy ==
  /\ \E i \in toRead : CopyOut(i)
  /\ UNCHANGED <<serverVars, flag, notify>>

(* latest_meta, after the frames. *)
ReadMeta ==
  /\ server = "read" /\ reading = "copy" /\ toRead = {}
  /\ server' = "send"
  /\ stamp' = meta
  /\ todo' = clients
  /\ UNCHANGED <<ringVars, conn, pos, wp, minRead, idle, flag, notify>>

(* read_interleaved returned None. *)
ReadNone ==
  /\ server = "read" /\ reading = "idle"
  /\ ~Written(minRead) \/ Lapped(minRead)
  /\ server' = "reset"
  /\ wp' = writePos
  /\ todo' = clients
  /\ UNCHANGED <<ringVars, conn, pos, minRead, stamp, idle, flag, notify>>

(* What becomes of a client that is written to.  A write to an open        *)
(* connection fails when the client does not read for two seconds.         *)
AfterWrite(state) ==
  CASE state = "open"   -> {"open", "none"}
    [] state = "closed" -> {"reset", "none"}
    [] OTHER            -> {"none"}

(* Visits client c of retain_mut: it is written to, or passed over. *)
Visit(c) ==
  /\ c \in todo
  /\ todo' = todo \ {c}
  /\ UNCHANGED <<ringVars, server, wp, minRead, stamp, idle, flag, notify>>

Sent(c, next) ==
  \E state \in AfterWrite(conn[c]) :
    /\ conn' = [conn EXCEPT ![c] = state]
    /\ pos' = IF state = "none" THEN [pos EXCEPT ![c] = 0]
              ELSE [pos EXCEPT ![c] = next]

(* Where c is: skipped to the end when it has been lapped, which cannot be  *)
(* when the slowest was not.                                               *)
At(c) == IF wp > pos[c] + Capacity THEN wp ELSE pos[c]

Send(c) ==
  /\ server = "send"
  /\ Visit(c)
  /\ \/ At(c) > readPos /\ pos' = [pos EXCEPT ![c] = At(c)] /\ UNCHANGED conn
     \/ At(c) <= readPos /\ Sent(c, At(c) + Quantum)

(* The heartbeat, to clients sent to the end or left where they are. *)
Reset(c) == server = "reset" /\ Visit(c) /\ Sent(c, wp)
Prune(c) == server = "prune" /\ Visit(c) /\ Sent(c, pos[c])

(* The list is done; ReadEnd frees the chunk. *)
Done ==
  /\ todo = {}
  /\ \/ server = "send" /\ server' = "accept" /\ ReadEnd
     \/ server \in {"reset", "prune"} /\ server' = "wait" /\ UNCHANGED ringVars
  /\ wp' = 0 /\ minRead' = 0 /\ stamp' = None
  /\ UNCHANGED <<conn, pos, todo, idle, flag, notify>>

(* wait: the flag is taken, or found down, before the thread sleeps. *)
Wait ==
  /\ server = "wait"
  /\ flag' = FALSE
  /\ server' = IF flag THEN "accept" ELSE "lock"
  /\ UNCHANGED <<ringVars, conn, pos, wp, minRead, stamp, todo, idle, notify>>

(* wait_timeout_while tests the flag before it sleeps and when it is woken. *)
Test ==
  /\ server \in {"lock", "woken"}
  /\ server' = IF flag THEN "woke" ELSE "drowsy"
  /\ UNCHANGED <<ringVars, conn, pos, wp, minRead, stamp, todo, idle, flag, notify>>

Sleep ==
  /\ server = "drowsy"
  /\ server' = "asleep"
  /\ UNCHANGED <<ringVars, conn, pos, wp, minRead, stamp, todo, idle, flag, notify>>

(* Slip: wait without a timeout. *)
NoTimeout == FALSE /\ UNCHANGED bridgeVars
Timeout ==
  /\ server = "asleep"
  /\ server' = "woke"
  /\ UNCHANGED <<ringVars, conn, pos, wp, minRead, stamp, todo, idle, flag, notify>>

WaitEnd ==
  /\ server = "woke"
  /\ flag' = FALSE
  /\ server' = "accept"
  /\ UNCHANGED <<ringVars, conn, pos, wp, minRead, stamp, todo, idle, notify>>

serve ==
  \/ \E c \in Client : Accept(c) \/ Send(c) \/ Reset(c) \/ Prune(c)
  \/ Look \/ Read \/ ReadCopy \/ ReadMeta \/ ReadNone \/ Done
  \/ Wait \/ Test \/ Sleep \/ Timeout \/ WaitEnd

BridgeNext ==
  \/ callback
  \/ serve
  \/ \E c \in Client : Connect(c) \/ Close(c)

(* The kernel runs both threads, the timeout included; a callback that has *)
(* begun ends.  PipeWire owes no further callback, nor a client its close. *)
BridgeFairness ==
  /\ WF_bridgeVars(serve)
  /\ WF_bridgeVars(SetFlag \/ Wake)

BridgeSpec == BridgeInit /\ [][BridgeNext]_bridgeVars

--------------------------------------------------------------------------------

Serving == {"accept", "read", "send", "reset", "prune",
            "wait", "lock", "drowsy", "asleep", "woken", "woke"}

PcmTypeOK ==
  /\ cells \in [0..(Capacity - 1) -> 0..MaxFrames \union {None}]
  /\ writePos \in 0..MaxFrames /\ ahead \in writePos..MaxFrames
  /\ toWrite \subseteq writePos..(ahead - 1) /\ toRead \subseteq Offset
  /\ {meta, stamp} \subseteq 0..MaxFrames \union {None}
  /\ writing \in {"idle", "copy", "publish"} /\ reading \in {"idle", "copy"}
  /\ conn \in [Client -> Connection] /\ pos \in [Client -> 0..MaxFrames]
  /\ server \in Serving /\ todo \subseteq clients
  /\ flag \in BOOLEAN /\ notify \in {"idle", "flag", "wake"}
  /\ wp \in 0..writePos /\ minRead \in 0..wp /\ idle \in 0..PruneInterval

(* A client misses frames only if the slowest had been left more than the  *)
(* ring behind: otherwise its position moves by the chunks it is sent.     *)
SkipsOnlyWhenLapped ==
  [][\A c \in clients \intersect clients' :
       pos'[c] \in {pos[c], pos[c] + Quantum} \/ minRead + Capacity < writePos
    ]_bridgeVars

(* A client for whom a chunk is there catches up with what was written or *)
(* is dropped, even when the notification was lost and no other follows;   *)
(* one that has gone is dropped, whether or not audio flows (F-081).       *)
Neglected(c) ==
  \/ c \in clients /\ Written(pos[c])
  \/ conn[c] \in {"closed", "reset"}
NobodyNeglected == \A c \in Client : Neglected(c) ~> ~Neglected(c)

================================================================================
