---------------------------- MODULE TransferFunction ----------------------------
(***************************************************************************)
(* The transfer function that browsers watch                               *)
(* (web-ui/app/transfer_function_routes.py, collectors/pcm_reader.py): the *)
(* first viewer starts a coordinator, which reads two streams of samples   *)
(* and computes, and the last one stops it.  Stopping awaits three tasks,  *)
(* one after the other.                                                    *)
(*                                                                         *)
(* Samples are only counted, by chunks; the numbers computed from them are *)
(* left out, and so is an error among them, which would end their task.    *)
(***************************************************************************)
EXTENDS Naturals, Sequences

CONSTANTS
  Viewer,
  Nobody,
  QueueSize,       (* 64                                                    *)
  MaxCoordinators  (* bound: how often one is started                       *)

ASSUME TransferAssumption ==
  /\ Nobody \notin Viewer \union Nat
  /\ QueueSize \in Nat \ {0} /\ MaxCoordinators \in Nat

Stream == {"ref", "meas"}

VARIABLES
  coordinators,  (* those ever started                                      *)
  coordinator,   (* _coordinator                                            *)
  viewer,        (* the websockets                                          *)
  viewers,       (* _client_count                                           *)
  lock           (* who holds _coordinator_lock over an await               *)

tfnVars == <<coordinators, coordinator, viewer, viewers, lock>>

ReaderStarted == [s \in Stream |-> "connecting"]

Started ==
  [running |-> TRUE, loop |-> TRUE, latest |-> FALSE, reader |-> ReaderStarted, queued |-> [s \in Stream |-> 0]]

Outside == [at |-> "out", of |-> Nobody]

TransferInit ==
  /\ coordinators = <<>> /\ coordinator = Nobody
  /\ viewer = [v \in Viewer |-> Outside] /\ viewers = 0
  /\ lock = Nobody

--------------------------------------------------------------------------------
(* ws_transfer_function *)

ViewerComes(v) ==
  /\ viewer[v].at = "out"
  /\ viewer' = [viewer EXCEPT ![v].at = "asking"]
  /\ UNCHANGED <<coordinators, coordinator, viewers, lock>>

(* _acquire_coordinator, in which nothing really waits once it has the     *)
(* lock.                                                                   *)
Joins(v) ==
  /\ viewer[v].at = "asking"
  /\ IF coordinator = Nobody \/ (coordinator # Nobody /\ ~coordinators[coordinator].running)
       THEN /\ Len(coordinators) < MaxCoordinators
            /\ coordinators' = Append(coordinators, Started)
            /\ coordinator' = Len(coordinators')
       ELSE UNCHANGED <<coordinators, coordinator>>
  /\ viewers' = viewers + 1
  /\ viewer' = [viewer EXCEPT ![v] = [at |-> "in", of |-> coordinator']]
  /\ UNCHANGED lock

(* Slip: without the lock. *)
JoinsAtOnce(v) == Joins(v)

Acquire(v) == lock = Nobody /\ Joins(v)

(* _client_loop ends: the browser left, asked to stop, or cannot be sent   *)
(* anything more.                                                          *)
ViewerEnds(v) ==
  /\ viewer[v].at = "in"
  /\ viewer' = [viewer EXCEPT ![v].at = "leaving"]
  /\ UNCHANGED <<coordinators, coordinator, viewers, lock>>

(* _release_coordinator, and stop up to its first await. *)
Release(v) ==
  LET last == viewers <= 1 /\ coordinator # Nobody IN
  /\ viewer[v].at = "leaving" /\ lock = Nobody
  /\ viewers' = IF viewers = 0 THEN 0 ELSE viewers - 1
  /\ IF last
       THEN /\ coordinators' = [coordinators EXCEPT ![coordinator].running = FALSE]
            /\ viewer' = [viewer EXCEPT ![v] = [at |-> "stopping", of |-> coordinator]]
            /\ lock' = v
       ELSE viewer' = [viewer EXCEPT ![v] = Outside] /\ UNCHANGED <<coordinators, lock>>
  /\ UNCHANGED coordinator

(* Each task ends some time after its cancellation, then the next one is   *)
(* cancelled.                                                              *)
Stopping(v) ==
  LET i == viewer[v].of
      one == coordinators[i]
  IN
  /\ viewer[v].at = "stopping"
  /\ coordinators' = [coordinators EXCEPT ![i] =
       IF one.loop THEN [one EXCEPT !.loop = FALSE]
       ELSE IF one.reader["ref"] # "off" THEN [one EXCEPT !.reader["ref"] = "off"]
       ELSE [one EXCEPT !.reader["meas"] = "off"]]
  /\ UNCHANGED <<coordinator, viewer, viewers, lock>>

Stops(i) ==
  ~coordinators[i].loop /\ \A s \in Stream : coordinators[i].reader[s] = "off"

StopEnds(v) ==
  /\ viewer[v].at = "stopping" /\ Stops(viewer[v].of)
  /\ coordinator' = Nobody
  /\ viewer' = [viewer EXCEPT ![v] = Outside] /\ lock' = Nobody
  /\ UNCHANGED <<coordinators, viewers>>

--------------------------------------------------------------------------------
(* The tasks of coordinator i. *)

(* _read_loop: connect, read, and after an error or two silent seconds     *)
(* wait before the next attempt.                                           *)
ReaderTurns(i, s) ==
  /\ \E turn \in {<<"connecting", "connected">>, <<"connecting", "waiting">>,
                  <<"connected", "waiting">>, <<"waiting", "connecting">>} :
       /\ coordinators[i].reader[s] = turn[1]
       /\ coordinators' = [coordinators EXCEPT ![i].reader[s] = turn[2]]
  /\ UNCHANGED <<coordinator, viewer, viewers, lock>>

(* _extract_frames: a full queue loses its oldest chunk. *)
ReaderTakes(i, s) ==
  /\ coordinators[i].reader[s] = "connected"
  /\ coordinators' = [coordinators EXCEPT ![i].queued[s] = IF @ = QueueSize THEN @ ELSE @ + 1]
  /\ UNCHANGED <<coordinator, viewer, viewers, lock>>

(* _compute_loop: what one stream has more than the other is thrown away,  *)
(* and a result is published in any case.                                  *)
Compute(i) ==
  /\ coordinators[i].loop
  /\ coordinators' = [coordinators EXCEPT ![i].queued = [s \in Stream |-> 0], ![i].latest = TRUE]
  /\ UNCHANGED <<coordinator, viewer, viewers, lock>>

TransferNext ==
  \/ \E v \in Viewer :
       ViewerComes(v) \/ Acquire(v) \/ ViewerEnds(v) \/ Release(v) \/ Stopping(v) \/ StopEnds(v)
  \/ \E i \in DOMAIN coordinators :
       Compute(i) \/ \E s \in Stream : ReaderTurns(i, s) \/ ReaderTakes(i, s)

TransferSpec == TransferInit /\ [][TransferNext]_tfnVars

--------------------------------------------------------------------------------
Runs(i) == coordinators[i].loop \/ \E s \in Stream : coordinators[i].reader[s] # "off"

(* TransferFunctionCoordinator, "starts on first client, stops when the    *)
(* last client disconnects": whoever watches shares the one coordinator    *)
(* whose tasks all run, however comings and goings overlap with the awaits *)
(* of a stop, and none is left running for nobody.                         *)
ViewersServed ==
  /\ \A v \in Viewer : viewer[v].at = "in" =>
       /\ viewer[v].of = coordinator
       /\ coordinators[coordinator].loop
       /\ \A s \in Stream : coordinators[coordinator].reader[s] # "off"
  /\ \A i \in DOMAIN coordinators :
       Runs(i) => i = coordinator /\ \E v \in Viewer : viewer[v].at # "out"

================================================================================
