----------------------------- MODULE GraphManager -----------------------------
(***************************************************************************)
(* GraphManager's main loop (graph-manager/src/main.rs and registry.rs)    *)
(* against the PipeWire daemon it drives.                                  *)
(*                                                                         *)
(* Everything GraphManager does happens on one thread: registry events,    *)
(* RPC commands drained from a channel by a 50 ms timer, and periodic      *)
(* checks.  Each handler runs to completion and is one action here.  What  *)
(* makes it hard is the other side: the daemon's nodes and links change    *)
(* on their own, GraphManager's requests take effect there at once, and    *)
(* the registry events that tell GraphManager about either arrive later.   *)
(* So the model keeps the daemon's truth (up, links, mult) apart from the  *)
(* tracked graph the handlers read (graph).                                *)
(***************************************************************************)
EXTENDS Reconcile, Watchdog, Integers

CONSTANTS
  Process,      (* sets of node names that live and die together            *)
  Standby,      (* the mode that means "no audio"                           *)
  InitialMode,  (* --mode, the mode after every start                       *)
  Param,        (* GAIN_PARAM_NAMES: the gain builtins in the convolver     *)
  Unity,        (* the level that stands for Mult = 1.0                     *)
  Restore,      (* hard-coded production gains kept for unlatch             *)
  Venue,        (* names of the venue profiles on disk                      *)
  Profile,      (* gain of each parameter in each venue, before the cap     *)
  DefaultVenue, (* venue loaded on first boot                               *)
  NoVenue,
  ForeignPair,  (* <<output, input>> names other clients may link           *)
  UnlinkPair,   (* <<output, input>> names other clients may unlink         *)
  ForeignLevel, (* levels other clients may write to a gain                 *)
  Since,        (* epochs that clients pass to await_settled                *)
  MayExit,      (* whether other processes may exit                         *)
  MayCrash,     (* whether GraphManager may crash and be restarted          *)
  MaxEpoch      (* bound: reconcile_epoch at which inputs stop              *)

ASSUME ProcessAssumption == Process \subseteq SUBSET Name

ASSUME ModeAssumption == Standby \in Mode /\ InitialMode \in Mode

ASSUME MonitoredNames == Monitored \subseteq Name

ASSUME GainAssumption ==
  /\ Unity \in Nat \ {0}
  /\ Restore \in [Param -> 0..Unity]
  /\ Profile \in [Venue -> [Param -> Int]]
  /\ ForeignLevel \subseteq Nat

ASSUME VenueAssumption == NoVenue \notin Venue \union {DefaultVenue}

ASSUME BoundAssumption ==
  /\ MaxEpoch \in Nat
  /\ Since \subseteq Nat
  /\ MayExit \in BOOLEAN
  /\ MayCrash \in BOOLEAN

VARIABLES
  (* the PipeWire daemon *)
  up,             (* live nodes                                             *)
  links,          (* live links                                             *)
  mult,           (* Mult of each gain in the live convolver                *)
  newNodes,       (* nodes whose registry event is still undelivered        *)
  newLinks,       (* links whose registry event is still undelivered        *)
  (* GraphManager's memory *)
  running,
  graph,          (* GraphState                                             *)
  proxies,        (* link_proxies                                           *)
  mode,           (* current_mode                                           *)
  watchdog,
  gateOpen,
  pending,        (* venue whose gains are in pending_gains                 *)
  active,         (* active_venue                                           *)
  reconcileEpoch,
  settledEpoch,
  waiters,        (* since_epoch of each pending await_settled              *)
  (* settings and disk *)
  quantum,        (* clock.force-quantum                                    *)
  saved           (* the last-venue file                                    *)

eventVars  == <<newNodes, newLinks>>
epochVars  == <<reconcileEpoch, settledEpoch>>
gateVars   == <<watchdog, gateOpen, mult>>
venueVars  == <<pending, active, saved>>
vars == <<up, links, eventVars, gateVars, epochVars, venueVars, waiters,
          running, graph, proxies, mode, quantum>>

Quantum(m) == IF m = "dj" THEN 1024 ELSE 256

Silence == [p \in Param |-> 0]

(* gain_db_to_linear: no venue exceeds unity, very low gains are zero. *)
Capped(level) == IF level <= 0 THEN 0 ELSE IF level > Unity THEN Unity ELSE level

Gains(v) == [p \in Param |-> Capped(Profile[v][p])]

(* The Mult values the filter-chain configuration gives a new convolver. *)
ConfMult == Silence

Level == 0..Unity \union ForeignLevel

TypeOK ==
  /\ up \subseteq Node
  /\ links \subseteq Link
  /\ mult \in [Param -> Level]
  /\ newNodes \subseteq Node
  /\ newLinks \subseteq Link
  /\ running \in BOOLEAN
  /\ graph \in Graph
  /\ proxies \subseteq Link
  /\ mode \in Mode
  /\ watchdog \in WatchdogState
  /\ gateOpen \in BOOLEAN
  /\ pending \in Venue \union {NoVenue}
  /\ active \in Venue \union {NoVenue}
  /\ saved \in Venue \union {NoVenue}
  /\ reconcileEpoch \in Nat
  /\ settledEpoch \in Nat
  /\ waiters \subseteq Since
  /\ quantum \in {256, 1024}

(* Bounds the inputs: none once MaxEpoch reconciliations have acted.       *)
MoreInputs == reconcileEpoch < MaxEpoch

-----------------------------------------------------------------------------
(* What requests to the daemon do.                                         *)

Real == [nodes |-> up, links |-> links]

ConvolverUp == Convolver \in NamesIn(Real)

Pair(l) == <<l.out.name, l.in.name>>

(* set_node_param_mult binds the tracked convolver by id.  It takes effect *)
(* if that node is alive; the daemon refuses an id whose new owner this    *)
(* client has not been told of (`unseen`) yet.                             *)
Reaches(g, unseen) ==
  \E n \in g.nodes : n.name = Convolver /\ n \in up \ unseen

SetGains(gains) ==
  mult' = IF Reaches(graph, newNodes) THEN gains ELSE mult

(* apply_actions skips a Create whose port pair already has a proxy.       *)
Requested(g, m) == ToCreate(g, m) \ proxies

(* link-factory refuses a dead node and a pair that is linked already.     *)
Linked(g, m) == {l \in Requested(g, m) : {l.out, l.in} \subseteq up} \ links

ProxiesAfter(g, m) == (proxies \union Requested(g, m)) \ ToDestroy(g, m)

(* Slips: only links with a proxy are destroyed; set_mode destroys those   *)
(* that the old mode does not want.                                        *)
OwnDestroyed(g, m) == ToDestroy(g, m) \intersect proxies

DestroyedByOldMode(g, m) == ToDestroy(g, mode)

Destroyed(g, m) == ToDestroy(g, m)

(* The effect on the daemon and on link_proxies.  `others` are destroyed   *)
(* too, without their proxies; a link the client has not been told of yet  *)
(* cannot be meant.                                                        *)
ApplyActions(g, m, others, unseen) ==
  /\ proxies'  = ProxiesAfter(g, m)
  /\ links'    = (links \union Linked(g, m))
                   \ ((Destroyed(g, m) \union others) \ unseen)
  /\ newLinks' = unseen \union Linked(g, m)

(* A slip: a pass that only destroys counts as settled. *)
CountCreatesOnly(g, m) ==
  IF ToCreate(g, m) = {}
    THEN settledEpoch' = reconcileEpoch /\ UNCHANGED reconcileEpoch
    ELSE reconcileEpoch' = reconcileEpoch + 1 /\ UNCHANGED settledEpoch

CountEpochs(g, m) ==
  IF Matches(g, m)
    THEN settledEpoch' = reconcileEpoch /\ UNCHANGED reconcileEpoch
    ELSE reconcileEpoch' = reconcileEpoch + 1 /\ UNCHANGED settledEpoch

-----------------------------------------------------------------------------
(* The registry listener.                                                  *)

(* A slip: gains behind a closed gate are taken to be zero. *)
MuteOpenGate(g, unseen) ==
  mult' = IF /\ MutesGains(watchdog, NamesIn(g) \intersect Monitored)
             /\ gateOpen
             /\ Reaches(g, unseen)
            THEN Silence ELSE mult

MuteGains(g, unseen) ==
  mult' = IF /\ MutesGains(watchdog, NamesIn(g) \intersect Monitored)
             /\ Reaches(g, unseen)
            THEN Silence ELSE mult

CloseOnMute(g) ==
  gateOpen' = (gateOpen /\ ~Latches(watchdog, NamesIn(g) \intersect Monitored))

WatchdogCheck(g, unseen) ==
  /\ watchdog' = Checked(watchdog, NamesIn(g) \intersect Monitored)
  /\ MuteGains(g, unseen)
  /\ CloseOnMute(g)

(* The fallback mute, when the convolver is gone. *)
FallbackLinks(g) ==
  IF MutesLinks(watchdog, NamesIn(g) \intersect Monitored) THEN UsbLinks(g) ELSE {}

(* run_reconcile after a graph mutation that made the graph g.             *)
RunReconcile(g, unseenNodes, unseenLinks) ==
  /\ graph' = g
  /\ CountEpochs(g, mode)
  /\ ApplyActions(g, mode, FallbackLinks(g) \union BypassLinks(g), unseenLinks)
  /\ WatchdogCheck(g, unseenNodes)
  /\ newNodes' = unseenNodes
  /\ UNCHANGED <<up, venueVars, waiters, running, mode, quantum>>

(* Tracked or announced, but gone (and possibly back): a removal is due. *)
Leaving == ((graph.nodes \union newNodes) \ up) \union (graph.nodes \intersect newNodes)

Together(a, b) == a = b \/ \E names \in Process : {a, b} \subseteq names

(* A process that is back is announced after its exit has been. *)
OnGlobalNode(n) ==
  /\ running
  /\ n \in newNodes
  /\ n.name \notin NamesIn(graph)
  /\ n \in up => \A k \in Leaving : ~Together(k.name, n.name)
  /\ RunReconcile(WithNode(graph, n), newNodes \ {n}, newLinks)

(* A link is announced after both of its nodes. *)
OnGlobalLink(l) ==
  /\ running
  /\ l \in newLinks \ graph.links
  /\ {l.out, l.in} \subseteq graph.nodes
  /\ l \in links => {l.out, l.in} \intersect newNodes = {}
  /\ RunReconcile(WithLink(graph, l), newNodes, newLinks \ {l})

(* A node is removed after its links; it may be back under the same id.    *)
OnGlobalRemoveNode(n) ==
  /\ running
  /\ n \in graph.nodes \ (up \ newNodes)
  /\ \A l \in graph.links \union (newLinks \ links) : n \notin {l.out, l.in}
  /\ RunReconcile(WithoutNode(graph, n), newNodes, newLinks)

OnGlobalRemoveLink(l) ==
  /\ running
  /\ l \in graph.links \ (links \ newLinks)
  /\ RunReconcile(WithoutLink(graph, l), newNodes, newLinks)

(* A port appears or disappears: the same pass over the same nodes.        *)
OnGlobalPort ==
  /\ running
  /\ MoreInputs
  /\ RunReconcile(graph, newNodes, newLinks)

OnGlobal ==
  \/ \E n \in newNodes : OnGlobalNode(n)
  \/ \E l \in newLinks : OnGlobalLink(l)

OnGlobalRemove ==
  \/ \E n \in graph.nodes : OnGlobalRemoveNode(n)
  \/ \E l \in graph.links : OnGlobalRemoveLink(l)
-----------------------------------------------------------------------------
(* RPC commands, run one at a time by the 50 ms timer; an error reply      *)
(* changes nothing and is no step.                                         *)

(* set_quantum_for_mode logs a failing pw-metadata and goes on. *)
SetQuantum(m) == quantum' \in {Quantum(m), quantum}

ReconcileNow(m) ==
  /\ CountEpochs(graph, m)
  /\ ApplyActions(graph, m, {}, newLinks)

(* A slip: the gate is only marked closed. *)
MarkClosedOnStandby(m) == gateOpen' = (gateOpen /\ m # Standby) /\ UNCHANGED mult

(* D-063: standby closes an open gate. *)
CloseOnStandby(m) ==
  IF m = Standby /\ gateOpen
    THEN SetGains(Silence) /\ gateOpen' = FALSE
    ELSE UNCHANGED <<mult, gateOpen>>

SetMode(m) ==
  /\ running
  /\ MoreInputs
  /\ m # mode
  /\ mode' = m
  /\ SetQuantum(m)
  /\ ReconcileNow(m)
  /\ CloseOnStandby(m)
  /\ UNCHANGED <<up, newNodes, venueVars, waiters, running, graph, watchdog>>

(* Nothing is restored when the mute was the fallback one. *)
WatchdogUnlatch ==
  /\ running
  /\ watchdog.latched
  /\ watchdog' = Unlatched(watchdog)
  /\ IF watchdog.stored THEN SetGains(Restore) ELSE UNCHANGED mult
  /\ UNCHANGED <<up, links, eventVars, epochVars, venueVars, waiters,
                 running, graph, proxies, mode, gateOpen, quantum>>

(* A slip: the gains wait for the next open_gate. *)
ColdSwitch(v) == UNCHANGED mult

(* With the gate open the gains go live at once. *)
HotSwitch(v) == IF gateOpen THEN SetGains(Gains(v)) ELSE UNCHANGED mult

(* A failing write of the last-venue file is logged only. *)
SetVenue(v) ==
  /\ running
  /\ pending' = v
  /\ active' = v
  /\ saved' \in {v, saved}
  /\ HotSwitch(v)
  /\ UNCHANGED <<up, links, eventVars, epochVars, waiters,
                 running, graph, proxies, mode, watchdog, gateOpen, quantum>>

(* The ramp's steps all happen in this one handler. *)
OpenGate ==
  /\ running
  /\ pending # NoVenue
  /\ ~gateOpen
  /\ Convolver \in NamesIn(graph)
  /\ SetGains(Gains(pending))
  /\ gateOpen' = TRUE
  /\ UNCHANGED <<up, links, eventVars, epochVars, venueVars, waiters,
                 running, graph, proxies, mode, watchdog, quantum>>

CloseGate ==
  /\ running
  /\ SetGains(Silence)
  /\ gateOpen' = FALSE
  /\ UNCHANGED <<up, links, eventVars, epochVars, venueVars, waiters,
                 running, graph, proxies, mode, watchdog, quantum>>

(* Answered at once when settled; otherwise the client waits. *)
AwaitSettled(since) ==
  /\ running
  /\ since <= reconcileEpoch
  /\ waiters' = IF settledEpoch >= since THEN waiters ELSE waiters \union {since}
  /\ UNCHANGED <<up, links, eventVars, gateVars, epochVars, venueVars,
                 running, graph, proxies, mode, quantum>>

Command ==
  \/ \E m \in Mode : SetMode(m)
  \/ WatchdogUnlatch
  \/ \E v \in Venue : SetVenue(v)
  \/ OpenGate
  \/ CloseGate
  \/ \E e \in Since : AwaitSettled(e)

-----------------------------------------------------------------------------
(* Timers.                                                                 *)

(* Waiters that are settled, or whose deadline has passed, are answered.   *)
CheckWaiters(expired) ==
  /\ running
  /\ waiters # {}
  /\ waiters' = {e \in waiters \ expired : settledEpoch < e}
  /\ UNCHANGED <<up, links, eventVars, gateVars, epochVars, venueVars,
                 running, graph, proxies, mode, quantum>>

OverUnity == ConvolverUp /\ \E p \in Param : mult[p] > Unity

(* A slip: nothing can sound while the gate is closed. *)
CheckOpenGateOnly ==
  /\ running
  /\ gateOpen
  /\ OverUnity
  /\ SetGains(Silence)
  /\ gateOpen' = FALSE
  /\ UNCHANGED <<up, links, eventVars, epochVars, venueVars, waiters,
                 running, graph, proxies, mode, watchdog, quantum>>

(* pw-dump reads the daemon's own gains.  The mute closes the gate and     *)
(* does not latch the watchdog.  A check that finds the gains in order, no *)
(* convolver, or fails, only counts its result for the status report.      *)
GainIntegrityCheck ==
  /\ running
  /\ OverUnity
  /\ SetGains(Silence)
  /\ gateOpen' = FALSE
  /\ UNCHANGED <<up, links, eventVars, epochVars, venueVars, waiters,
                 running, graph, proxies, mode, watchdog, quantum>>

Timer ==
  \/ \E expired \in SUBSET waiters : CheckWaiters(expired)
  \/ GainIntegrityCheck

-----------------------------------------------------------------------------
(* The daemon's other clients.                                             *)

gmVars == <<epochVars, venueVars, waiters, running, graph, proxies, mode,
            watchdog, gateOpen, quantum>>

(* Announcements are kept only while somebody is listening. *)
Announce(nodes, ls) ==
  /\ newNodes' = IF running THEN newNodes \union nodes ELSE newNodes
  /\ newLinks' = IF running THEN newLinks \union ls ELSE newLinks

(* A process registers its nodes; a new convolver has the configured gains. *)
NodeUp(names, id) ==
  LET nodes == {[name |-> a, id |-> id] : a \in names} IN
  /\ MoreInputs
  /\ names \intersect NamesIn(Real) = {}
  /\ up' = up \union nodes
  /\ mult' = IF Convolver \in names THEN ConfMult ELSE mult
  /\ Announce(nodes, {})
  /\ UNCHANGED <<links, gmVars>>

(* A process exits or crashes: its nodes go and their links with them.     *)
NodeDown(names) ==
  LET dead == {n \in up : n.name \in names} IN
  /\ MayExit
  /\ MoreInputs
  /\ names # {}
  /\ names \subseteq NamesIn(Real)
  /\ up' = up \ dead
  /\ links' = {l \in links : {l.out, l.in} \intersect dead = {}}
  /\ mult' = IF Convolver \in names THEN ConfMult ELSE mult
  /\ UNCHANGED <<eventVars, gmVars>>

(* WirePlumber, or a user with pw-link. *)
ForeignLink(l) ==
  /\ MoreInputs
  /\ Pair(l) \in ForeignPair
  /\ l \notin links
  /\ links' = links \union {l}
  /\ Announce({}, {l})
  /\ UNCHANGED <<up, mult, gmVars>>

ForeignUnlink(l) ==
  /\ MoreInputs
  /\ Pair(l) \in UnlinkPair
  /\ links' = links \ {l}
  /\ UNCHANGED <<up, mult, eventVars, gmVars>>

(* The web UI's mute and limiter, or pw-cli, write a gain directly.        *)
ForeignMult(p, level) ==
  /\ MoreInputs
  /\ ConvolverUp
  /\ mult' = [mult EXCEPT ![p] = level]
  /\ UNCHANGED <<up, links, eventVars, gmVars>>

Environment ==
  \/ \E names \in Process, id \in Id : NodeUp(names, id)
  \/ \E names \in Process : NodeDown(names)
  \/ \E l \in [out : up, in : up] : ForeignLink(l)
  \/ \E l \in links : ForeignUnlink(l)
  \/ \E p \in Param, level \in ForeignLevel : ForeignMult(p, level)

-----------------------------------------------------------------------------
(* GraphManager's own life.                                                *)

Fresh ==
  /\ graph' = EmptyGraph
  /\ proxies' = {}
  /\ watchdog' = WatchdogNew
  /\ gateOpen' = FALSE
  /\ reconcileEpoch' = 0
  /\ settledEpoch' = 0
  /\ waiters' = {}
  /\ mode' = InitialMode

(* The links that GraphManager owns go with its connection; the gains stay. *)
Crash ==
  /\ MayCrash
  /\ running
  /\ MoreInputs
  /\ running' = FALSE
  /\ Fresh
  /\ pending' = NoVenue
  /\ active' = NoVenue
  /\ links' = links \ proxies
  /\ newNodes' = {}
  /\ newLinks' = {}
  /\ UNCHANGED <<up, mult, quantum, saved>>

(* run_pipewire: the registry announces all there is; the gains are left   *)
(* as they are.  The saved venue is taken up with or without its profile;  *)
(* on the first boot the default venue is, and is written to disk.         *)
Start ==
  /\ ~running
  /\ running' = TRUE
  /\ Fresh
  /\ newNodes' = up
  /\ newLinks' = links
  /\ SetQuantum(InitialMode)
  /\ IF saved # NoVenue
       THEN /\ active' = saved
            /\ pending' \in {saved, NoVenue}
            /\ UNCHANGED saved
       ELSE \/ /\ DefaultVenue \in Venue
               /\ active' = DefaultVenue
               /\ pending' = DefaultVenue
               /\ saved' \in {DefaultVenue, NoVenue}
            \/ UNCHANGED <<active, pending, saved>>
  /\ UNCHANGED <<up, links, mult>>

-----------------------------------------------------------------------------

(* Before GraphManager's first boot the daemon is up, with no node in it.  *)
Init ==
  /\ up = {}
  /\ links = {}
  /\ mult = ConfMult
  /\ newNodes = {}
  /\ newLinks = {}
  /\ running = FALSE
  /\ graph = EmptyGraph
  /\ proxies = {}
  /\ mode = InitialMode
  /\ watchdog = WatchdogNew
  /\ gateOpen = FALSE
  /\ pending = NoVenue
  /\ active = NoVenue
  /\ saved = NoVenue
  /\ reconcileEpoch = 0
  /\ settledEpoch = 0
  /\ waiters = {}
  /\ quantum = 256

Next ==
  \/ OnGlobal
  \/ OnGlobalRemove
  \/ OnGlobalPort
  \/ Command
  \/ Timer
  \/ Environment
  \/ Crash
  \/ Start

Spec == Init /\ [][Next]_vars

(* The daemon delivers what it has announced, systemd restarts             *)
(* GraphManager (Restart=on-failure), and the timers go on firing.         *)
Fairness ==
  /\ WF_vars(OnGlobal)
  /\ WF_vars(OnGlobalRemove)
  /\ WF_vars(Start)
  /\ WF_vars(CheckWaiters({}))
  /\ WF_vars(GainIntegrityCheck)

FairSpec == Spec /\ Fairness
-----------------------------------------------------------------------------
(* Safety of the gains.                                                    *)

Silent == mult = Silence

(* While the watchdog is latched and the gate is closed, every gain is     *)
(* zero, whatever commands, restarts and late registry events came before  *)
(* (as long as no other client writes the gains): the mute of              *)
(* run_watchdog_check is not lost when the convolver it should reach is    *)
(* the one that died.                                                      *)
MutedWhileClosed == watchdog.latched /\ ~gateOpen => Silent

(* With the gate open the gains are what the loaded venue says, or nothing *)
(* after the convolver restarted, or the watchdog's restored defaults: a   *)
(* venue switched in under the old one's gains never stays half applied.   *)
OpenGateGains ==
  gateOpen => mult \in {Silence, Gains(pending), Restore}

(* gain_integrity.rs: a gain above unity that GraphManager can reach is    *)
(* muted by a later check, however the gain got there.                     *)
OverUnityIsMuted ==
  (OverUnity /\ running /\ Reaches(graph, newNodes)) ~> (~OverUnity \/ ~running)

Contract ==
  INSTANCE GateContract
    WITH open <- gateOpen, latched <- watchdog.latched, loud <- ~Silent

(* GraphManager's gate keeps the contract: whatever raises a gain is a     *)
(* command, and every closing and latching step silences what sounds (as   *)
(* long as no other client writes the gains).                              *)
KeepsContract == Contract!Spec

-----------------------------------------------------------------------------
(* An operator who follows the procedure opens the gate only after the     *)
(* watchdog has been unlatched.                                            *)

OperatorWaits == (gateOpen' /\ ~gateOpen) => ~watchdog.latched

DisciplinedSpec == Init /\ [][Next /\ OperatorWaits]_vars

(* Then a latched watchdog means a closed gate and silence.                *)
LatchedIsMuted == watchdog.latched => ~gateOpen /\ Silent

(* watchdog.rs: "Mute is LATCHED: once triggered, stays muted until        *)
(* explicit unlatch".  open_gate does not ask the watchdog.                *)
LatchedStaysMuted == watchdog.latched => Silent

-----------------------------------------------------------------------------
(* Link reconciliation.                                                    *)

(* The tracked graph is up to date. *)
Quiet == running /\ newNodes = {} /\ newLinks = {} /\ graph = Real

(* All links the mode wants, but those whose port pair still has the proxy *)
(* of a link that is gone, and no link it does not want.                   *)
AtRest ==
  Quiet /\ ToDestroy(Real, mode) = {} /\ ToCreate(Real, mode) \subseteq proxies

(* Once every event is delivered, the daemon's links are those of the      *)
(* routing table, in whatever order nodes, links and commands came.        *)
QuietMeansAtRest == Quiet => AtRest

(* link_audit.rs: nor is there any link into the USBStreamer past the      *)
(* convolver, whoever made it.                                             *)
NoBypassWhenQuiet ==
  Quiet => \A l \in links : l.in.name = Usb => l.out.name = ConvolverOut

SparesStreamLinks ==
  \A l \in links \ links' :
    (StreamName \ KnownName) \intersect {l.out.name, l.in.name} # {}
      => \/ ~({l.out, l.in} \subseteq up')
         \/ Pair(l) \in UnlinkPair
         \/ l.in.name = Usb

(* F-164: GraphManager does not destroy a link of a stream client that is  *)
(* not in its table, unless the link leads past the convolver: it goes     *)
(* only with one of its nodes or by another client's hand.                 *)
StreamLinksStay == [][SparesStreamLinks]_vars

(* The settled epoch has caught up exactly when the tracked graph matches  *)
(* the mode; no handler leaves the two counters out of step.               *)
SettledIffMatching == settledEpoch = reconcileEpoch <=> Matches(graph, mode)

(* Left alone, the links come to rest and stay there, and every            *)
(* await_settled is answered before its deadline, but while a link's       *)
(* creation is skipped because of a leftover proxy.                        *)
ComesToRest ==
  <>[](running /\ ~MoreInputs)
    => <>[](AtRest /\ (waiters = {} \/ ToCreate(graph, mode) # {}))

=============================================================================
