# A TLA+ model of what the workstation connects and plays

This directory specifies the part of the audio workstation that decides what
is connected and what may sound. GraphManager (`src/src/graph-manager`) is the
PipeWire session manager that links the application, the filter-chain convolver
and the USB sound card, and that guards the speakers with an audio gate (D-063)
and a safety watchdog. The web UI (`src/src/web-ui`) writes the same gains from
its audio mute, its thermal limiter and the activation of speaker profiles; it
also runs measurements, which play through the same speakers from a signal
generator of their own, and makes and deploys the filters the convolver loads.
Two bridges show the user what plays, as samples and as levels. The web UI keeps
who may use it, shows GraphManager's state and a transfer function, and a pad
controller runs actions of the system.

Paths below are relative to the repository root as seen by `src/`.

## The system

| Component | State it keeps | Operations | What is hard |
|---|---|---|---|
| Tracked graph, reconciler, link audit (`graph.rs`, `reconcile.rs`, `link_audit.rs`) | nodes, ports and links as the registry told them | add and remove on registry events; diff against the routing table; find links past the convolver | each event gives a half-told graph, and the diff is acted on at once |
| Main loop (`main.rs`, `registry.rs`) | mode, link proxies, epochs, waiting clients, gate, pending gains, active venue | registry callbacks, RPC commands, timers | the daemon's state runs ahead of the tracked one; requests take effect before their events arrive; crash and restart lose everything but the venue |
| Safety watchdog (`watchdog.rs`) | armed, latched, missing nodes, stored gains | check after every mutation, unlatch | which mute is taken depends on the order of removals; the node it must silence may be the one that died |
| Audio gate (`main.rs`, `registry.rs`) | open or closed | open, close, standby, venue switch, mutes | four handlers move gate, latch and gains in pairs |
| Gain integrity check (`gain_integrity.rs`) | counters | periodic read of the real gains, mute above unity | other clients write gains too |
| Venues (`venue.rs`) | last-venue file | load, validate, cap, persist | written best-effort, read back after a crash |
| Routing table (`routing.rs`) | none | links of each mode, per speaker topology | combinatorics of topologies |
| RPC server (`rpc.rs`) | client list, stored mode | one thread per client, one for event broadcast | the stored mode and the main loop's; a slow client holds the list |
| Web UI audio mute, thermal limiter (`src/src/web-ui/app`) | muted flag and stored gains; reduction per channel | asynchronous pw-cli calls | every await is a chance for the other writers |
| Mode manager, measurement session (`web-ui/app`) | session phase, mode to restore, threads under way | start, abort, calibrate, sweep, generate, deploy, verify, finish, recover | clean-up after failure, timeout, cancellation and a crash; threads outlive the coroutine that awaited them |
| Signal generator (`signal-gen`), command queue (`audio-common`) | play state, fade, burst, the two queues | RPC commands on one thread, the real-time callback on another | no lock between them; commands arrive in the middle of fades, bursts and sweeps |
| Profiles, filters and their versions (`filter_routes.py`, `speaker_routes.py`, `room-correction`) | files: profiles, generated filters, deployed filters, PipeWire's configuration | edit, generate, deploy, roll back, snapshot, clean up, activate, reload | each request is a thread or a coroutine, and no file is locked |
| Clients of GraphManager (`graph_manager_client.py`, `measure_nearfield.py`, `test_tool/routes.py`) | a connection each, the mode to restore | enter and leave measurement mode | an answer may be late, the request of a client that gave up is still executed, another client changes the mode |
| pcm-bridge, ring of frames (`pcm-bridge`, `audio-common`) | frames and write position, notifier's flag, clients with the position each has reached | the real-time callback writes and notifies; one thread accepts, copies, sends and drops | the writer overtakes a reader in the middle of its copy; wake-ups are lost; the slowest client decides for all |
| Level tracker of level-bridge (`audio-common`) | two buffers of accumulators and the active index | the callback adds a quantum; a thread flips, reads and clears | the callback may still hold the buffer that was flipped away |
| Passkeys and sessions (`web-ui/app/auth`) | invitations, credentials and sessions in a database, challenges in memory | register, log in, log out, check each request | every statement and commit is an await, and all requests share one connection and its transaction |
| Status of GraphManager (`collectors/filterchain_collector.py`) | one connection, four sections, the time since something is missing | poll, take a notification | answers carry no name, events come between them, and a late one would answer the next question |
| Transfer function (`transfer_function_mode.py`, `transfer_function_routes.py`, `collectors/pcm_reader.py`) | the mode to restore; one coordinator with two readers, the number of viewers | start, stop; come, go | a connection for each call, whose first line may be an event; stopping awaits three tasks while viewers come |
| Signal generator's client (`measurement/signal_gen_client.py`) | its connection, buffers of events and states | connect, command, wait for an event or a state, record | answers, events and states come over one connection, and each caller waits for another kind |
| Pads (`midi/midi-system-controller.py`) | mode of the grid, pending confirmation | presses, shift, timers | destructive actions take two presses, and timers are looked at when nothing else waits |
| Signal processing, configuration, scripts | files | numerical processing, mapping, shell | not a protocol |

They interact as follows. PipeWire announces nodes, ports and links to
GraphManager through its registry; GraphManager answers each change with
requests to create or destroy links and with writes of the `Mult` control of
the gain builtins in the convolver. Clients (the web UI, the measurement
scripts, an operator's shell) send RPC commands, which a 50 ms timer hands to
the same thread. WirePlumber, `pw-link` and the web UI's mute and limiter act on
the daemon directly, behind GraphManager's back.

## What makes it correct

* Sound: a latched mute silences and stays silent; closing an open gate
  silences; an open gate carries one venue's gains; no gain stays above unity.
* Links: when the events have been delivered, the links are those of the
  routing table, no link leads past the convolver, and nobody else's streams
  are touched; the rules do not fight each other for ever.
* The web UI: what it restores or limits is never louder than a venue or the
  profile has it, and a hot channel is turned down.
* Measurement: nothing is played outside measurement mode, the signal comes to
  a stop only through silence, levels rise gradually and pass only when heard,
  and whatever ends a measurement the mode of before comes back.
* Files: the convolver has only filters that pass the check, neither a version in use nor
  the newest is removed, and the venue that was saved is the one a restart takes up.
* Requests: each is answered once, by the thread it waits for, and the answer is
  true.
* Bridges: a client gets whole chunks, one after the other, or is told that it missed
  some; one that is behind is served, one that has gone is dropped; a snapshot of the
  levels is that of the quanta it covers.
* Access: an invitation makes one credential, and a session that was ended stays ended.
* What is shown: an answer is shown for its own question, and whoever watches shares
  the one transfer function that runs.
* Clients: a start that claims measurement mode has it, an event is given out once and in
  order, and a destructive pad is pressed twice.
* Settlement: the epochs that `await_settled` compares mean what clients take
  them to mean, and a client that waits is answered.

## Modules

| Module | Models | Kind |
|---|---|---|
| `Reconcile` | `graph.rs`, `reconcile.rs`, `link_audit.rs`: pure functions of the tracked graph and the mode | operators |
| `Watchdog` | `watchdog.rs`: the watchdog's record and transitions | operators |
| `GraphManager` | `main.rs`, `registry.rs`, the PipeWire daemon below and its other clients; extends the two above | state machine |
| `GateContract` | what gate and watchdog promise, on three variables | abstract specification |
| `MCGate` | an instance about the gains | TLC |
| `MCLinks` | an instance about the links | TLC |
| `FilterChain` | the convolver's gains and the `pw-dump` and `pw-cli` calls of `pw_helpers.py` | state and helpers |
| `AudioMute` | `audio_mute.py`: mute and unmute as coroutines | state machine |
| `ThermalLimiter` | `thermal_limiter.py` and the smoothed power of `thermal_monitor.py`, for one channel | state machine |
| `GainWriters` | the two together with profile activation (`speaker_routes.py`), GraphManager, the filter-chain process and restarts of the web UI | composition |
| `MCGainWriters` | its instance | TLC |
| `BoundedFifo` | what the command queue promises | abstract specification |
| `SpscQueue` | `spsc_queue.rs`, one step per access to shared memory | state machine |
| `SignalGen` | `signal-gen`: the RPC thread, the callback with its fades, bursts and sweeps, the state polled back; instantiates the queue between the two threads | state machine |
| `GainCalibration` | `gain_calibration.py`: the ramp of one channel as transitions of a record | operators |
| `MeasurementSession` | `session.py`, `mode_manager.py`, `measurement/routes.py`, the threads they start, GraphManager's mode and the signal generator as they meet them | state machine |
| `LastVenue` | what the last-venue file is for | abstract specification |
| `VenueStore` | `venue.rs`: the file, its temporary and its backup over a file system | state machine |
| `RpcServer` | `rpc.rs`: connections, client threads, broadcast thread, the way to the main loop and back; extends `VenueStore` | state machine |
| `FilterStore` | `filter_routes.py`, the profiles and the activation of `speaker_routes.py`, `deploy.py` and the generators they call | state machine |
| `Auth` | `auth/`: requests, statement by statement of the database connection they share | state machine |
| `FilterChainStatus` | `filterchain_collector.py`: the poll and what is shown | state machine |
| `TransferFunction` | `transfer_function_routes.py`, `pcm_reader.py`: viewers, coordinator, readers | state machine |
| `GmConnections` | `graph_manager_client.py`, and of GraphManager what its answers depend on | state machine |
| `NearfieldScript` | `measure_nearfield.py` | state machine |
| `TestToolModes` | the requests of `test_tool/routes.py` that set the mode | state machine |
| `TfMode` | `transfer_function_mode.py`: start and stop over `GmConnections` | state machine |
| `SigGenClient` | `signal_gen_client.py`: connection, answers, buffers | state machine |
| `Midi` | `midi-system-controller.py`: modes of the pads | state machine |
| `PcmRing` | `ring_buffer.rs`: a write and a read, one step per frame copied | state machine |
| `PcmBridge` | pcm-bridge's callback, `notifier.rs` and `broadcast_loop` of `server.rs`; extends the ring | state machine |
| `LevelTracker` | `level_tracker.rs`, one step per shared access | state machine |
| `MCSession`, `MCService`, `MCLevels`, `MCFilterStore`, `MCClients`, `MCBridges` | instances; the near-field program and the test page are composed with GraphManager in `MCClients` | TLC |
| `GraphProofs` | lemmas about the reconciler, one pass converges; GraphManager's types, links, epochs and gains; the refinement of `GateContract` | proofs |
| `WriterProofs` | the bound on what the web UI writes; the types of the limiter | proofs |
| `SignalProofs` | the queue implements `BoundedFifo`; the signal stops on silence | proofs |
| `SessionProofs` | sessions: the mode that comes back, deployments, ramps | proofs |
| `StoreProofs` | the venue's file implements `LastVenue`; a request is in one place | proofs |
| `FilterProofs` | filters, versions and configurations; passkeys and sessions; status; viewers | proofs |
| `ClientProofs` | the near-field program and the test page with GraphManager between them; the start of a transfer function measurement; events of the signal generator's client; pads | proofs |
| `BridgeProofs` | chunks are whole unless overtaken, positions move by chunks, snapshots are exact unless crossed | proofs |

`MCLevels`, `MCFilterStore`, `MCClients` and `MCBridges` each instantiate several parts
that share nothing. Their variable `process` names the one that runs; the others stay at
their start. This loses no behaviour of any part, since none reads another's variables; only
the transfer function's start and stop and the other clients of GraphManager have GraphManager in common,
and what the latter may do to the former is `OthersSet`.

### State and code: GraphManager

| Variable | Code |
|---|---|
| `up`, `links`, `mult` | the daemon's live nodes, links and gains (external) |
| `newNodes`, `newLinks` | registry events not yet delivered (external) |
| `running` | the process exists |
| `graph` | `GraphState` |
| `proxies` | `link_proxies` |
| `mode`, `gateOpen`, `pending`, `active` | `current_mode`, `gate_open`, `pending_gains` (as the venue they come from), `active_venue` |
| `watchdog` | `Watchdog` |
| `reconcileEpoch`, `settledEpoch`, `waiters` | the cells of US-140 and `pending_waiters` |
| `quantum` | `clock.force-quantum` |
| `saved` | the last-venue file |

Every handler is one action, because the code runs all of them to completion
on one thread: `OnGlobalNode`, `OnGlobalLink`, `OnGlobalPort` and the two
removals for the registry listener, each with the whole pass of
`run_reconcile` (epochs, actions, watchdog, link audit); `SetMode`,
`WatchdogUnlatch`, `SetVenue`, `OpenGate`, `CloseGate` and `AwaitSettled` for the
RPC commands that change something; `CheckWaiters` and `GainIntegrityCheck` for
the timers; `Start` for `run_pipewire`. `Crash`, `NodeUp`, `NodeDown`,
`ForeignLink`, `ForeignUnlink` and `ForeignMult` are the surroundings.

Abstractions, and why they are sound for the properties:

* A node stands for itself and its ports, a link for the links of its channels;
  the code decides on each the same way. `OnGlobalPort` is the extra pass that a
  port's event causes.
* Ids: a node is a name with an id from the small set `Id`. PipeWire recycles ids, so a
  restarted process may come back under either an old or a new one. A
  request that names an id whose new owner has not been announced to the client is refused by
  the daemon (its registry compares generations), hence `Reaches` and `unseen`.
* Delivery is any order that causality allows (a link after its nodes, a node's
  removal after its links', a process's return after its exit), which includes
  the daemon's first-in first-out order. A link that appears and disappears before it is
  announced may be announced once or not at all.
* Requests take effect at once: the daemon's own queue only delays them, as a
  delayed event does.
* A gain is one of the levels `0..Unity` and the levels foreign clients write. The watchdog's
  hard-coded defaults are `Restore`; the fallback mute restores nothing.
* What is only logged or reported (missing endpoints, component health, the
  counters of the integrity check, the cached JSON answers) is left out. The `dirty` flag of
  F-079 is left out too: PipeWire does not call back into the listener from
  inside a pass, so it is never found set.
* When GraphManager's connection goes, PipeWire destroys the links it owns
  through its proxies.

### State and code: the web UI

| Variable | Code |
|---|---|
| `convolver`, `mult` | id of the live convolver node, its gains (external) |
| `isMuted`, `stored` | `is_muted`, `_pre_mute_gains` |
| `request` | the local variables and the await of each mute or unmute under way |
| `load`, `headroom` | level of the music (external), `headroom_db()` of the smoothed power |
| `configured`, `current`, `cachedId`, `override` | `_channels`, `current_mult`, `_convolver_node_id`, `_overrides` |
| `tick` | the await and the local variables of `_enforce_tick` |
| `active`, `wanted` | the active-profile marker, the profile a request activates |

The web UI's coroutines share one event loop: between two awaits each runs
alone. One action is one await: the effect of the command
it waited for and the code up to the next await. A command runs in a thread, so its
effect comes before its coroutine resumes; the two are one step where nothing
else can tell, and two (`Dump`, `Cache`) where a configuration in between makes a
difference.

Abstractions:

* Levels are decibels above silence, which is 0; headroom and reductions are
  whole decibels, and those of a loud programme are enumerated.
* `SetMult` may fail, and may time out and take effect all the same. A command for a convolver
  that has gone changes nothing, and what it answers is not fixed.
* The smoothed power moves towards where it would settle at the present level one
  decibel at a time, in either direction; the time constants only say how fast.
* One channel is limited. The channels of a tick follow one another and share
  only the cached id. `_enforce_tick` waits until 0.5 s (`MIN_UPDATE_INTERVAL_S`)
  have passed since the last update; this delays a step. It sends nothing while the factor
  it wants and the one it sent last differ by less than `MULT_CHANGE_THRESHOLD`; `Far` is that test, on
  the factors that the levels stand for (`Linear`).
* A request that is answered without an await and changes nothing is no step.
* What the activation validates, generates and writes has no effect on any of these
  variables and is in `FilterStore`. `Deploy` keeps the steps after them and their
  failures.

### State and code: measurement

| Variable | Code |
|---|---|
| `buffer`, `head`, `tail` | the fields of `SpscQueue`; `pushing` and `popping` are the program counters of `push` and `pop` |
| `playState`, `generator`, `channels`, `level`, `fade`, `burst`, `pendingStop` | the fields of the same names in the callback's state |
| `out` | the loudest that the last frame of a quantum may be |
| `stateQueue`, `latest` | the snapshots on their way back, `latest_state` |
| `ses` | per session: where `run()` awaits, `_state`, `abort_event`, the mode to restore, the thread it awaits and the calibration's record |
| `daemon` | the process and the mode manager: its mode, session and saved mode; `overlap` (auxiliary) is set when two sessions were entering at once |
| `gmMode`, `home` | GraphManager's mode; the mode the operator chose |
| `rest`, `chain`, `sound` | the sessions that a deployment over HTTP is writing for; configuration on disk and loaded; what plays |

A quantum of the callback is one step, since nothing it reads changes in it but
the queue, whose accesses are steps of their own. Amplitudes are levels: a fade
runs from one level to another. The session's coroutine runs from one await to the
next; what `to_thread` starts is a process of its own that goes on when the
coroutine has been cancelled or has stopped waiting. Every call may fail, and
`MaxUpsets` bounds how often that happens together with crashes and changes of
the mode by others. A start is three steps: `Start` looks at the mode and evicts the
test page's proxy, `Claim` connects the signal generator and looks at the mode again,
`Enter` has GraphManager's answer and sets the mode. Each message to the browsers may fail
(`ws_broadcast` iterates over a set that changes while it awaits): on entering, the
session is then "stranded" (the mode is set and no task will leave it); within the session it
is an error like any other (`BroadcastFails`); after the session it keeps the rest of the
lifecycle from running (`Close`). The signal generator serves one
client at a time, so that a second session's commands may find nobody (`Reached`). A recording is what the session decides from it.

### State and code: requests and files

| Variable | Code |
|---|---|
| `loop`, `commands`, `setting`, `waiters`, `events` | the main loop and what its channels hold |
| `thread`, `listed`, `cast`, `stored` | `handle_client` of each connection, `ClientList`, the broadcast thread, `stored_mode` |
| `conn`, `sent`, `wire` | each connection from its client's side (external) |
| `store`, `files`, `tmp`, `survivors` | how far `persist_venue_name` is, the files, and what a power failure may leave |
| `profiles`, `identity` | the YAML files of profiles and of the identity they name |
| `out`, `outConf` | a profile's output directory: filters and configuration |
| `coeffs`, `conf`, `marker` | the coefficients directory, PipeWire's drop-in, the active-profile marker |
| `node` | the convolver: the paths it was made with and what it loaded (external) |
| `task` | what each request under way has read and does next |

A socket holds a line and a half, so that a write may stop in the middle of a
line. After a power failure the directory is one of those since it was last
written back, and a file that was not synchronised is empty. A filter is "good"
when it passes the D-009 check; how it is computed does not matter to any
property. In `FilterStore` a handler that does not await is one step; one that
runs in a thread has a step for what it checks first and one for each thing it
writes. Requests of every kind overlap; only two of the same kind do not. The copy of a
deployment empties and fills one file after the other, as `shutil.copy2` does
(`Truncate`, `Fill`); a file in between does not pass. The files of one generation, of one run of the
pipeline and of one snapshot are written in one step each, so that a filter that
is half written by those is not seen.

Three variables record what has happened, and no step reads them. `raced` has the files that were
written into a profile's output directory while a deployment that had checked it was under
way, those that are being copied, and the copies of either; a file leaves it when a later
check passes it or a file that is not in it is copied over it. `inUse` has what the configuration named when the clean-up under
way began. `lost` has the versions that a clean-up removed although the configuration,
or a rollback under way, named them by then, but had not when the clean-up began. They
say exactly which interleavings the properties of the files except.

### State and code: passkeys, status and viewers

| Variable | Code |
|---|---|
| `db`, `saved` | the tables as the connection has them, and as committed |
| `challenges` | `_challenges`, by user or for logins |
| `request`, `restarts` | the requests so far with their local variables and awaits; ends of the web UI |
| `wire`, `polling`, `awaiting` | the connection's lines (external) and where `_poll_loop` awaits |
| `section`, `degraded` | `_links`, `_state`, `_watchdog`, `_gain_integrity`; `_degraded_since`, `_prev_state` |
| `coordinators`, `coordinator`, `viewers`, `lock` | `TransferFunctionCoordinator`s with their tasks and readers, and the globals of the same names |
| `viewer` | each websocket's handler |

In `Auth` a step is the code from one await to the next with the statement
that this one awaits; statements are executed in the order in which they were awaited.
A commit commits whatever all requests have executed, and a restart loses the rest,
together with the challenges. Of a credential's answer only the challenge, the
credential and the counter matter. Ages of challenges and sessions are two,
before and after their limit. The answers that `FilterChainStatus` takes are
known by their place, as in the code; the history `to` of a section says whose
answer it was. `TransferFunction` counts chunks, and its stop
is a step for each of the tasks it awaits, under the lock.

### State and code: clients of GraphManager

| Variable | Code |
|---|---|
| `conn` | `_sock`, `_recv_buf` and the command that `_read_response` waits for |
| `late` | requests whose client has closed the connection |
| `mode`, `gateOpen`, `venue`, `gmUp` | GraphManager as its clients meet it (`GraphManager` has the whole) |
| `script` | the statement of `main` that is next, and its local variables |
| `tool` | how far each request of the test page is |
| `others` | auxiliary: whether anybody changed the mode since a client last saw or set it |

Answers are matched by the command's name only, as in `_read_response`. A client
that closes its connection does not take back what it sent (`late`). The client
gives up on an answer at any moment, which stands for the timeout, a closed
connection and, in the near-field program, Ctrl-C. That program looks for nodes
of the convolver's gains, which `pw-dump` does not list, so it sets none; its
preflight wants the web UI stopped, but that check can be skipped, may time out,
and says nothing of later.

### State and code: other clients

| Variable | Code |
|---|---|
| `tf`, `tfRequest` | `_TfModeState`; where a start and a stop are, and the connection of each |
| `lib`, `link` | `SignalGenClient` with its buffers and what it waits for; the lines under way (external) |
| `given` | auxiliary: the events pushed to this connection and those given out, by name |
| `grid`, `pending` | `grid_mode`, `pending_note` |
| `before`, `ran` | auxiliary: the last press that counts, and what the last step ran |

`TfMode` extends `GmConnections` with two requests, each of which opens a connection for each
call and reads one line, which may be an event (`Misread`). In `SigGenClient` a
message is an answer, an event or a state, and each loop that reads one
keeps it in the buffer the code keeps it in. The pads' lights, faders and
what an action runs are left out of `Midi`; a timer may fire at any step.

### State and code: the bridges

| Variable | Code |
|---|---|
| `cells`, `writePos`, `meta` | `data`, `write_pos`, the last entry of the ring of stamps |
| `writing`, `ahead`, `toWrite` | where the callback is in `write_interleaved`, what it has still to copy |
| `reading`, `readPos`, `toRead`, `out` | the same for `read_interleaved` and its result |
| `conn`, `pos` | the sockets (external) and `read_pos` of each `PcmClient` |
| `server`, `wp`, `minRead`, `stamp`, `todo`, `idle` | the statement of `broadcast_loop` that is next, and its local variables |
| `flag`, `notify` | the notifier's flag; where the callback is in `notify` |
| `active`, `peak`, `sum`, `count`, `clock` | the fields of `LevelTracker` and of its two buffers |
| `writer`, `idx`, `frame`, `loud`, `prev`, `quanta` | `process`: the next access and the local variables |
| `reader`, `old`, `snap` | `take_snapshot`: the same |
| `due`, `crossed`, `spoilt` | auxiliary: what a snapshot of each buffer should be, and whether a callback ran across a flip |

A frame is the position it was written for, so that a chunk of the wrong lap can be
told from the right one. A copy moves its frames one by one in any order, since
nothing orders it with the other thread's copy. Local variables that go out of
scope are reset. `retain_mut` visits clients in any order, which changes nothing
they can tell. A write to a socket whose other side has closed succeeds once. Time
is left out: the notifier's 200 ms and the two seconds of a write may end at any
moment. In the tracker, amplitudes are numbers and each frame adds one to the sum
of squares, so that the mean is right exactly when sum and count agree.

Accesses take effect in the order of the program. The code's relaxed accesses allow
the processor more orders than that; what is proved here of the bridges says nothing of those.

Two branches of `broadcast_loop` are never taken: without clients `min_read` is
`wp`, so `clients.is_empty()` comes too late (`server.rs:239`), and no client is
further behind than the slowest, which has just been found in the ring
(`server.rs:277`; the model keeps that branch, in `At`).

## Runs

| Run | Instance | Shows |
|---|---|---|
| `gate` | two nodes of the filter-chain that come and go one by one under two ids, two gains, two venues (one above unity, one channel silent), crashes | `MutedWhileClosed`, `OpenGateGains`, `KeepsContract` |
| `links` | an application and a stream client in one process, filter-chain and sound card in another, foreign links past the convolver and from it, removals by other clients, crashes | `NoBypassWhenQuiet`, `QuietMeansAtRest`, `SettledIffMatching`, `StreamLinksStay` |
| `rest` | two processes that exit and return, a foreign link the table wants in one mode only, a gain written above unity, `await_settled` | `ComesToRest`, `OverUnityIsMuted` under fairness |
| `writers` | two gains, one of them limited, one request at a time, two convolver ids, commands that fail, restarts of web UI and filter-chain, GraphManager's writes | `NothingLouder` |
| `levels` | signal generator: three commands out of seven kinds through a queue of two, a status queue of two, a ramp of one and a half quanta. Limiter: a channel whose own gain is -66 dB, where the threshold is more than a decibel, with six programmes: far below the ceiling, two in the knee (for one of which the reduction is too small to be sent), at the ceiling and two above it, one of them beyond the floor; an override; activations | `CommandsInOrder`, `StopsOnSilence`, and `EndsAreReported`, `HotIsReduced` under fairness |
| `session` | a session with two channels of different ceilings, ramps of up to four bursts, two upsets (failed calls, stops, crashes, changes of the mode) | `ModeComesBack`, `NoOrphan`, `OneDeployment`, `PassedWasHeard`, `PlaysInMeasurementMode`, and `SessionsEnd` under fairness |
| `service` | two clients, three requests from which one chooses and two the other, two venues (one without a profile), a crash or a power failure | `OnePlaceEach`, `ActsAsRegister`, and `RequestsAnswered` under fairness |
| `filters` | filters: one profile with a speaker whose channel has a standard name and one whose has not; four requests in three seconds. Passkeys: an invitation, two credentials, four requests, a restart. Status: two lines on the wire. Transfer function: two viewers, three coordinators | `OnlyPassingSounds`, `ActiveVersionsExist`, `NewestSurvives`, `OneCredentialPerInvite`, `RevokedStaysRevoked`, `OwnAnswers`, `ViewersServed` |
| `clients` | the near-field program and the two requests of the test page; three starts in all (runs, requests, ends of GraphManager). Start and stop of the transfer function with three requests and changes by others. The signal generator's client with three messages and a reconnection. Four pads, two of them destructive, one of those without an action | `SweepsInMeasurementMode`, `RestoredUnlessTold`, `AnswersAreTrue`, `StartsInMeasurementMode`, `EventsOnce`, `ConfirmedTwice` |
| `bridges` | one bridge or the other: a ring of four frames, chunks of two, quanta of three, nine frames in all, two clients, a heartbeat every other tick; three callbacks of two frames, two amplitudes | `WholeUnlessOvertaken`, `ExactUnlessCrossed`, `SkipsOnlyWhenLapped`, and `NobodyNeglected` under fairness |
| `latched_is_silent` | as `gate` | `open_gate` ignores the latch |
| `tf_stop` | the transfer function's start and stop of `clients` | the stop takes an event for the answer to `get_state`, skips `set_mode` and answers that the mode is restored. The requests do not overlap, no call raises an error (`disturbed`), and nobody else sets the mode. In TLC's trace, a shortest one, the start has taken an event for an answer as well and stored "unknown"; the stop does not get as far as to use it |

The last two state what a comment says and show how the code does otherwise;
PROJECT.json quotes the lines.

No run checks a type invariant: every one is proved, together with
`RampIsGradual` and `SavedIsTakenUp`, which runs checked before they were.

Bounds.

* `gate`: the table has no link that could be created (the sound card never
  appears), so no pass counts an epoch and `MaxEpoch` plays no part: commands,
  exits and crashes are unbounded and the state space is finite and complete. Two
  ids are enough for the convolver to return under the id that GraphManager still
  tracks or under another.
* `links`: `MaxEpoch` (which stops GraphManager's inputs once that many passes have requested something) is 50,
  more than the depth of the state graph, and
  `MCView` leaves out the epochs' values, of which only their comparison matters
  to any guard; the run is complete as well. Its watchdog watches the convolver only, which halves the
  states and takes no link away.
* `rest`: the view is off, because liveness needs it off, and `MaxEpoch = 2` bounds
  how long the surroundings and the operator go on; what follows is unbounded. Clients
  wait for epoch 2, the latest there is.
* `writers`, and `levels` for the limiter: no counter; complete for their instances. `writers` has
  one request at a time; what holds for more is proved.
* `levels`, signal generator: three commands are enough to overtake a fade and a burst with a stop
  and another play; the queue of two is full with them.
* `session`: two upsets are a failure and a failure of what cleans up after it. One
  session follows another only after the mode manager has let go of the first, but for
  the race named below; the theorems are about any number of sessions.
* `service`: each client sends one request; the races are between that request, the
  events it causes and the other client's. Two starts are a crash and what the
  restart takes up.
* `filters`: four requests are a deployment or a clean-up with everything that races it (a
  generation or a pipeline's run before it and one beside it; a snapshot and a rollback) and
  one more; each of the exceptions `raced` and `lost` is met, since without it TLC finds
  its property violated. The third second makes a second version beside
  one that is deployed.
  An invitation that is used twice takes two requests for options and two for
  verification, and a session that could come back a login, a request that reads it and a
  logout; each count of signatures matters only as rising or not. Two lines hold a
  late answer and an event, or two answers. Two viewers are the last one and
  one that comes while it goes; two more coordinators are a stop overlapped by a start, twice.
* `clients`: three starts give two runs of the program and a request beside them,
  both requests beside a run, or an end of GraphManager in the middle of either.
  Three attempts per sweep are the code's. The transfer function's requests
  and the changes by others are three together: a start, a stop, and one between them. Three
  messages are a command and what comes before and after its answer. What holds for more is
  proved.
* `bridges`: nine frames are two laps of the ring and a frame; quanta that are no multiple
  of the chunk leave chunks half written, and two clients are the slowest and another. Three
  callbacks meet the tracker's flips wherever they can cross them and take a buffer a second
  time. What holds for every capacity and any number of frames, clients and callbacks is
  proved. The two processes share nothing, so that either runs alone.

Fairness. `FairSpec` assumes that the daemon delivers what it has announced
(its socket is drained by the main loop), that systemd restarts GraphManager
(`Restart=on-failure`), and that the timers of `run_pipewire` go on firing. A gain integrity check whose pw-dump fails is a stutter; the
fairness on `GainIntegrityCheck` says that they do not all fail for ever. No
command, exit or foreign client is assumed to act. `MCLevels` assumes the
fairness of the part that runs. `LimiterFairness` says that
the loops of the thermal monitor and the limiter go on (`Sample`, `Enforce`): both
are tasks that catch every exception of an iteration. No programme, override or
activation is assumed to come or to stop coming. `SignalFairness` says that
PipeWire goes on calling the callback and that the RPC thread finishes a push and polls.
`SessionSpec` assumes that the event loop resumes what can be resumed and that threads
end, since every call they make has a timeout and every burst a duration; no
request and no upset is assumed. `RpcSpec` assumes that threads run and that clients
read what is written to them: a client that does not read keeps the list of clients
locked for good (see below). `BridgeFairness` assumes that the server thread
runs, which includes that a wait ends when its time is up (`serve`), and that a
callback that has written goes on to notify (`SetFlag`, `Wake`); no further callback is assumed, so that
`NobodyNeglected` holds although the last wake-up was lost. `filters` and `clients` ask
for safety only, as does the tracker's half of `bridges`.

Each property of the passing runs also has a mutant of a mapped definition that breaks it; the
alternatives stand in the modules next to what they replace and are marked as
slips.

### Seen while modelling

Behaviours that the models have, or that were left out because they are plain, and
for which no run is kept.

GraphManager:

* `watchdog_unlatch` restores default gains and leaves the gate closed, so
  there is sound behind a closed gate (`main.rs:660`).
* After a crash of GraphManager the gate is closed and the filter-chain keeps the
  gains of before (`main.rs:254`).
* Epochs settle when the tracked graph matches, while events of the
  manager's own requests may still be under way (`registry.rs:404`).
* When another client removes a link that GraphManager made, its proxy stays and
  keeps the link from being made again (`registry.rs:215`).
* An event and an answer are written to one socket by two threads without a lock; a
  write that does not fit at once may have the other in its middle (`rpc.rs:1492`).
* The broadcast thread keeps the list of clients locked while it writes, so a client that
  does not read stops events and new connections (`rpc.rs:1485`).
* The backup of the last-venue file is read only when last-venue is damaged, and
  a damaged last-venue is copied over the backup first. A `set_venue` whose file could not be written is
  acknowledged, and the write holds the main loop up.

Web UI, access and views:

* Two first requests at once may find the database opened and its tables not yet made
  (`auth/models.py:64`). Authentication is off unless configured (`main.py:78`).
* All logins share one challenge, so that one that begins replaces the other's
  (`auth/webauthn.py:169`).
* While nobody looks, and while the connection is down, the time since something is missing
  goes on (`filterchain_collector.py`), and a poll under way may overwrite a mode that
  was notified. `safety_snapshot` says all is clear before the first answers have come.
* The transfer function drops what one stream has more than the other, and ignores the
  parameters of all viewers but the first.

Web UI, gains:

* A second mute stores the zeros of the first as the gains to restore
  (`audio_mute.py:68`), and the limiter turns a muted channel up again.
* The limiter computes its reduction from a power that it has already reduced, and
  settles with half the excess left (`thermal_limiter.py:401`).
* The limiter sends nothing while the factor it wants differs by less than 0.0001 from the last
  one (`thermal_limiter.py:407`). With a profile's own gain of -60 dB, which the
  docstring gives as an example, that hides the first 0.9 dB of a reduction, and with
  -80 dB or less all of it. `HotIsReduced` is about channels that stay so far in the
  knee that their reduction is sent (`Hot`).
* The limiter's cached id outlives the convolver it belongs to, until the next
  activation (`thermal_limiter.py:426`).
* An activation takes `is_muted` for silence, though GraphManager may have opened
  the gate since (`speaker_routes.py:1012`).

Measurement:

* Two requests to start a session pass the test for measurement mode before either
  has set it (`mode_manager.py:93`). With two sessions and no failure at all the
  second one may then take "measurement" for the mode to go back to, and GraphManager
  stays there when both are over: the properties of `session` except that case, by
  `daemon.overlap`, and nothing else.
* When telling the browsers fails on entering measurement mode, which it does when one
  connects or leaves meanwhile (`mode_manager.py:127`, `measurement/routes.py:105`), the start fails before
  its task is created (`measurement/routes.py:226`). The daemon stays in measurement mode, every
  further start is refused, and only a restart ends it (in mock mode `/reset` does, too). `SessionsEnd`
  names this case ("stranded"). When it fails on leaving, the mode is right and the signal generator's client
  stays open.
* Without a connection to GraphManager a session goes on without measurement mode.
* A thread whose session stopped waiting after two seconds goes on and plays
  (`session.py:1455`). A deployment over HTTP while the session deploys makes the
  session fail while its own thread goes on.
* The session hands messages to its event loop's queue from worker threads, which the
  queue does not allow for.
* signal-gen loses the first part of a request that arrives in two packets
  (`main.rs:811`), serves one client at a time, and a sweep that has come to its
  end starts its fade anew each quantum and never stops by itself (`main.rs:426`).
* A transfer function measurement that starts while GraphManager is already in measurement mode
  leaves it in standby when it stops; overlapping starts and stops may leave it in
  measurement mode; a stop answers `restored_mode` also when setting it failed. The choice
  between design and verification changes nothing in GraphManager.
* The server does not know the client's `playrec` (`rpc.rs:214`), and a late answer to a command that
  timed out is taken for that of the next of the same name (`signal_gen_client.py:195`).
* The pads flash green also after an action that failed, an unknown action leaves
  the pads waiting for a confirmation that has happened, and the deadline of a confirmation
  is looked at only when no message waits (`midi-system-controller.py:333`).
* `measure_nearfield.py` looks for the convolver's gains as nodes, which they are not
  (`pw_helpers.py:14`): it neither attenuates the channel it measures nor mutes the others,
  warns, and sweeps. It announces a digital high-pass that nothing applies
  (`apply_hpf_to_signal` has no caller). Had it set gains, it would restore unity and not
  what it found.
* If that program cannot read the mode it puts back standby; if it is killed, the next run
  notes "measurement" as the mode to put back.
* An answer that arrives after its client gave up is taken for that of the next command of the
  same name, and a request of a client that has gone is executed later, possibly
  in the middle of another's sweep (`graph_manager_client.py:147`). The properties of
  `clients` name that exception as a change by others.
* The test page may open the gate after a restore-mode request has closed it.
* A sweep's level is compared with the largest of the channels' ceilings and may exceed the
  others (`session.py:682`; the comment above says any channel's).

Filters:

* A deployment that fails on one old file in the output directory fails from then on,
  since every file there is verified.
* A rollback answers that it rolled back also when the configuration names no version
  (`filter_routes.py:899`).
* Reloading the convolver reads the files it was made with again; a newly deployed
  configuration is taken up by a restart only, unlike `filter_routes.py:578` says.
* A generation or a run of the pipeline may write a directory's filters after a deployment has
  checked them and before it copies them, and the convolver may load a file that is half copied
  (`filter_routes.py:479`, `deploy.py:123`). `OnlyPassingSounds` says that a filter that fails
  sounds in no other way.
* A clean-up may remove a version that a rollback makes current after the clean-up has read the
  configuration (`deploy.py:240`). `ActiveVersionsExist` says that a version in
  use is missing in no other way.
* A generation and an activation validate a profile and read it again, without validating it, when they
  write its configuration (`filter_routes.py:317`, `speaker_routes.py:1041`): an edit in
  between is installed as it is. The models do that (`Configure`, `Muted`); no property
  is stated of it, for what would remain is that a profile is validated when nobody edits it.

Bridges:

* A chunk may hold frames of another lap: the ring is tested before the copy and not
  after it (`ring_buffer.rs:198`), unlike the note at `ring_buffer.rs:89` says.
* A chunk's stamp is that of the newest quantum, which is more than one quantum newer for a
  client that is behind (`server.rs:254` says one at most).
* A callback that loaded the index before a flip adds to a buffer that is being read and
  cleared (`level_tracker.rs:186`), so that the sum need not be that of the frames counted,
  although one flip is to guarantee a consistent snapshot (`level_tracker.rs:14`). Its late store may bring back a cleared count, and the mean
  of the next snapshot of that buffer is then too small as well.
* A notification between the test of the flag and the sleep is lost
  (`notifier.rs:37`); the timeout makes up for it.
* One client that was lapped makes all clients lose frames (`server.rs:300`).

## Proofs

`GraphProofs` is about GraphManager, for every routing table, set of
venues, set of processes and number of ids what the runs check on
small instances. The assumptions are those named in `Reconcile`, `Watchdog` and
`GraphManager`; the theorems about the gains also assume `ForeignLevel = {}`,
that no other client writes the gains, without which none of them holds.

* `TypeCorrect`. The part with content is `CappedIsALevel`: what GraphManager writes never exceeds
  unity.
* `MutedWhileClosedHolds`, `OpenGateGainsHolds`. Neither property is inductive:
  the watchdog acts on the tracked graph and the gains are the daemon's. The
  strengthening `GateInv` adds that whatever sounds can be reached
  (`LoudIsReached`): the tracked convolver is the live one, or else
  GraphManager has just started and its watchdog is not armed. A convolver that
  dies takes its gains along, so in the only cases in which the mute misses the
  convolver there is nothing to silence (`LatchingSilences`). `OpenIsReached`
  says the same of an open gate.
* `KeepsContractHolds`. The step simulation of `GateContract`, with
  `loud <- ~Silent`, from the same invariant.
* `LatchedIsMutedHolds`. With the operator's discipline, `LatchedIsClosed` is
  preserved too.
* `QuietMeansAtRestHolds`, `NoBypassWhenQuietHolds`. `RequestsMade` in `LinkInv`
  says what a pass leaves behind: what the tracked graph lacks has a proxy, and
  what it has too much is gone from the daemon or not announced yet. When
  nothing is left to announce, this is the property.
* `SettledIffMatchingHolds` needs that the settled epoch is never ahead.
* `StreamLinksStayHolds` needs that no link is tracked without its nodes and that
  proxies are only for names of the table.
* `OnePassConverges` is the idempotency that the header of `reconcile.rs` claims.

`WriterProofs` is about the web UI, for every number of gains
and requests, every set of venues and programmes, knee and floor.

* `NothingLouderHolds`, `WritersTypeCorrect`. What a coroutine has read it may
  write back many steps later, when the gains have long been changed by somebody else. The
  strengthening `WriterInv` therefore bounds the levels on their way as well:
  `Kept` holds for the gains, for what is stored and for what each request
  carries. The limiter's part rests on `ReductionIsBounded`: the
  target is a level of the profile's range for every headroom and override.
* `LimiterTypeCorrect` is the same for the limiter alone.

`SignalProofs` is about the signal generator, for every capacity of the queue,
length of quantum, ramp and burst.

* `QueueIsFifo`. The refinement mapping reads the slots from `tail` to `head` in order. The
  strengthening `QueueInv` says that `head` and `tail` are slots, that the producer owns the slot at
  `head` while it pushes (the queue is not full, and the slot to be published holds the
  item), and the consumer the slot at `tail` while it pops.
* `SignalCommandsInOrder` carries it over to the queue between the two threads.
* `SignalStopsOnSilence` assumes `Ramp > 0`: the last frame before the callback stops
  is silent unless `set_level` has redirected the fade. It rests on `SignalType`, the
  type invariant.

`SessionProofs` is about measurement, for every set of sessions, number of channels,
positions and upsets, and every ramp whose start is not above the loopback floor.

* `SessionTypeHolds`, with `Courses`: what a session's state and its thread may be
  at each await. Most other facts rest on it, for the handlers read one and write the other.
* `OneDeploymentHolds`. `Deployments` says that a session for which a request
  deploys is past its own deployment or stands before it in a state that refuses one.
* `PassedWasHeardHolds`, `RampIsGradualHolds`. `Ramp` ties the level to come to the level
  played last: at most `MaxStep` above it, and equal to it once passed.
* `ModeComesBackHolds`, `NoOrphanHolds`, `PlaysInMeasurementModeHolds`. `OneLive` says
  that without overlapping starts one session at most is inside, and that it is the mode
  manager's. `Finished` says that a session is complete and has said so; from then on the mode is what
  its deployment and clean-up make it. `Calm` says where the operator's mode is kept while nothing has gone
  wrong; `Recovering` says who will still put it back once one thing has: the session,
  the lifecycle after it, or the start of the next process.

`FilterProofs` is about what the web UI keeps. First the files of profiles and filters, for every set of profiles, keys
and channels, of contents and of seconds. They assume nothing
of which requests overlap; the exceptions are those that `raced`, `inUse` and `lost` record.

* `FilterTypesHold`. Beyond the types, `JobTypes` says what each request under way is about.
* `ActiveVersionsExistHolds`. `VersionsHeld` says that the clean-up under way knows what was in use
  when it began, and that what the configuration names, or a rollback under way
  will make it name, is there or `lost`.
* `OnlyPassingSoundsHolds`. `FilesSound` says of the coefficients directory, of every
  path that is named by the configuration or loaded, and of the directory that a
  deployment has checked, that a file there passes or is in `raced`; a path outside the
  coefficients directory belongs to a profile's own draft (`Drafts`), whose files nobody writes again.
* `NewestSurvivesHolds`, for every set of names and times.

Then passkeys and sessions, for every set of invitations and credentials and any
number of requests and restarts, the status and the transfer function's viewers.

* `OneCredentialPerInviteHolds`. The invitation is consumed in one request, the credential added in
  another, and a restart may forget either, so that neither table says enough. `InvitesTaken` says
  that there is one request at most that took an invitation and may
  still use it, and that the invitation is not valid in either copy once that request's commit is over; `UsersOnce` that whoever registered a credential
  has no challenge left and has registered no other, both in what the connection sees
  and in what a restart would find.
* `RevokedStaysRevokedHolds`. `Revoked` says of every logout and replacing login how far the
  deletion is, in both copies; a token is never given out again (`RequestsRight`).
* `OwnAnswersHolds`. `OneOnItsWay` says that at most one question or answer of the poll's own
  is on the connection, that of the place it waits at: a timeout gives up the connection.
* `ViewersServedHolds`. `StopsAlone` says that a stop holds the lock through its awaits and nobody watches meanwhile,
  `ViewersAreCounted` that `_client_count` is the number of those between coming and
  going, and `OneCoordinator` that no other one has a task or a reader left.

`ClientProofs` is about the near-field program, the test page and GraphManager, for every
number of starts, attempts and sweeps, and about three other clients. The first three theorems
follow from `ClientsInv`.

* `SweepsInMeasurementModeHolds`, `RestoredUnlessToldHolds`. `ScriptAsks` says that the
  answer the program waits for is that of its last request; `ScriptKnows` what it may
  believe of the mode at each statement; `ScriptLeaves` that of what it leaves behind on a
  closed connection the last request is the one that restores the mode.
* `AnswersAreTrueHolds`. `ToolAsks`, `ToolKnows` and `ToolLeaves` say the same of the test page's requests,
  each over a connection of its own.
* `StartsInMeasurementModeHolds`, for any number of requests and changes by others. `TfAsksOnce` says
  that a request has asked one thing of its connection, `StartKnows` what a start may believe of
  the mode at each of its calls, whatever it took for their answers.
* `EventsOnceHolds`, for any number of messages, commands and reconnections. `Once` says that
  what was given out, what is kept and what is unread are together the pushed events, each
  in one place; that each of the three is in order; and that what was given out comes before what is
  kept, and that before what is unread. The last needs `NoneKept`: nobody waits for an event of a
  name that is kept.
* `ConfirmedTwiceHolds`. `MidiInv` says that while a confirmation is pending the last press that
  counts is that of the pending pad.

`StoreProofs` is about the last-venue file and the RPC server's threads around it, for every
set of venues, profiles and clients.

* `OnePlaceEachHolds`. `PlaceInv` says that a thread that waits for an answer is exactly one
  whose command is in the channel, in the main loop's hands or among the waiters, and
  that no command is in a place twice.

* `SavedIsTakenUpHolds` and `StoreActsAsRegister`. `StoreInv` says that the directory as it
  is is one that a power failure may leave, that each of these is `Whole` (last-venue holds a
  name, or is absent together with its backup), and that the temporary file's content is
  on the disk before the rename.

`BridgeProofs` is about the bridges, for every capacity, chunk, sizes of quanta,
number of frames, set of clients, interval and amplitudes.

* `RingIsWhole` and `ChunksWholeUnlessOvertaken`. `RingInv` says that a frame, once published,
  stays in its cell until the writer begins a quantum that ends more than `Capacity` frames past it, and
  that the same holds of what has been copied so far; two positions less than
  `Capacity` apart have different cells (`CellsDiffer`).
* `PcmType`, with `BridgeInv`: the list being visited is part of the clients.
* `SkipsOnlyWhenLappedHolds`. `SkipInv` ties the clients' positions to what the loop has
  read: while a chunk is read and sent no client is behind `minRead`, and all are reset only
  when `minRead` has been lapped.
* `ExactUnlessCrossedHolds`, `TrackerType`. `TrackerInv` says that a buffer, with what the
  callback has still to add to it, is what a snapshot should be, unless a callback ran
  across a flip of this buffer, now or the last time.

Only model-checked: the liveness properties (`OverUnityIsMuted`, `ComesToRest`,
`HotIsReduced`, `EndsAreReported`, `SessionsEnd`, `RequestsAnswered`,
`NobodyNeglected`), which need fairness and ENABLED. Every
safety property of the passing runs is proved.
`LatchedIsMuted` is only proved, under the discipline its specification
`DisciplinedSpec` states. That missing links are created fails once another client
removes links (see above); for a system without that, an inductive invariant is
still to be found.

## Plan

1. Done: GraphManager with its gate, watchdog, reconciler, RPC server and venue
   file; the writers of the gains; the signal generator; measurement sessions and the
   near-field program; profiles, filters and their versions; the bridges with their
   ring and level tracker; passkeys, status, transfer function, the signal generator's client
   and the pads; the theorems above.
2. Next: missing links are created, as a theorem, for every table without
   bypasses and without foreign removals.
3. Then the tables of `routing.rs` per speaker topology as a function, against a
   reference, and the ring and tracker under the orders that their relaxed
   accesses allow.

## Not modelled

Numerical code (room correction, calibration, transfer functions) and
presentation are out of TLC's reach or hold no protocol. A restart of the
PipeWire daemon itself is not modelled for GraphManager: it ends its connection and
everything the model calls the daemon's truth. Of the bridges the set-up of streams
and level-bridge's sending of snapshots are left out, and `CaptureRingBuffer`, which no
program uses. The other collectors
and the front end present what the services above decide. The remaining components are
listed with their reasons in PROJECT.json.
