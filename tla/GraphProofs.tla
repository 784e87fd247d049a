----------------------------- MODULE GraphProofs -----------------------------
(***************************************************************************)
(* What holds of GraphManager's graph, links, gate and watchdog, for every *)
(* routing table and every interleaving of events, commands and other      *)
(* clients.                                                                *)
(*                                                                         *)
(* First, one pass of the reconciler converges, for every graph; and the   *)
(* state stays well typed: a fact about the gains (the cap of venue.rs is  *)
(* what keeps them at or below unity) and the basis of the other proofs.   *)
(***************************************************************************)
EXTENDS GraphManager, TLAPS

(* What the reconciler's pure functions guarantee for every routing table  *)
(* and every tracked graph.                                                *)

(* The actions name links between nodes of the tracked graph. *)
LEMMA ActionsAreLinks ==
  ASSUME NEW g \in Graph, NEW m \in Mode
  PROVE  /\ ToCreate(g, m) \subseteq Link
         /\ ToDestroy(g, m) \subseteq g.links
         /\ UsbLinks(g) \subseteq g.links
         /\ BypassLinks(g) \subseteq g.links
         /\ g.links \subseteq Link
  BY DEF ToCreate, ToDestroy, Resolved, UsbLinks, BypassLinks, Graph, Link

(* No pass both creates and destroys a link. *)
LEMMA CreateOrDestroy ==
  ASSUME NEW g, NEW m
  PROVE  ToCreate(g, m) \intersect ToDestroy(g, m) = {}
  BY DEF ToCreate, ToDestroy

(* Nothing is desired of the empty graph that a start begins with. *)
LEMMA EmptyGraphMatches ==
  ASSUME NEW m
  PROVE  /\ EmptyGraph \in Graph
         /\ Matches(EmptyGraph, m)
         /\ UsbLinks(EmptyGraph) = {}
  BY DEF Matches, ToCreate, ToDestroy, Resolved, EmptyGraph, Graph, UsbLinks

(* What the registry events make of a graph is a graph. *)
LEMMA EventsMakeGraphs ==
  ASSUME NEW g \in Graph
  PROVE  /\ \A n \in Node : WithNode(g, n) \in Graph /\ WithoutNode(g, n) \in Graph
         /\ \A l \in Link : WithLink(g, l) \in Graph /\ WithoutLink(g, l) \in Graph
  BY DEF Graph, WithNode, WithoutNode, WithLink, WithoutLink

(* reconcile.rs, "Idempotency": once every action of a pass has taken      *)
(* effect, the next pass has nothing to do.                                *)
THEOREM OnePassConverges ==
  ASSUME NEW g \in Graph, NEW m \in Mode
  PROVE  Matches(Applied(g, m), m)
<1> DEFINE h == Applied(g, m)
<1>1. h.nodes = g.nodes /\ h.links = (g.links \union ToCreate(g, m)) \ ToDestroy(g, m)
  BY DEF Applied, Graph
<1>2. Resolved(h, m) = Resolved(g, m)
  BY <1>1 DEF Resolved
<1>3. \A l : Owned(h, l) <=> Owned(g, l)
  BY <1>1 DEF Owned, ForeignStream, Known
<1>4. ToCreate(h, m) = {}
  BY <1>1, <1>2 DEF ToCreate, ToDestroy
<1>5. ToDestroy(h, m) = {}
  BY <1>1, <1>2, <1>3 DEF ToCreate, ToDestroy
<1> QED
  BY <1>4, <1>5 DEF Matches

(* F-164: no pass destroys a link of a tracked stream client that the      *)
(* routing table does not name.                                            *)
LEMMA StreamLinksAreKept ==
  ASSUME NEW g \in Graph, NEW m \in Mode, NEW l \in ToDestroy(g, m),
         {l.out, l.in} \subseteq g.nodes
  PROVE  (StreamName \ KnownName) \intersect {l.out.name, l.in.name} = {}
  BY DEF ToDestroy, Owned, ForeignStream, Known

(* Every created link is between nodes whose names the table knows. *)
LEMMA CreatedNamesAreKnown ==
  ASSUME NEW g \in Graph, NEW m \in Mode, NEW l \in ToCreate(g, m)
  PROVE  {l.out.name, l.in.name} \subseteq KnownName
<1>1. l.out.name \in Name /\ l.in.name \in Name
  BY DEF ToCreate, Resolved, Graph, Node
<1>2. <<l.out.name, l.in.name>> \in Table[m]
  BY DEF ToCreate, Resolved
<1> QED
  BY <1>1, <1>2 DEF KnownName

--------------------------------------------------------------------------------

(* gain_db_to_linear: no venue file makes a gain above unity. *)
LEMMA CappedIsALevel ==
  ASSUME NEW level \in Int
  PROVE  Capped(level) \in 0..Unity
  BY GainAssumption DEF Capped

(* Whatever GraphManager writes to the gains is a level up to unity. *)
LEMMA WrittenGains ==
  /\ Silence \in [Param -> 0..Unity]
  /\ ConfMult \in [Param -> 0..Unity]
  /\ Restore \in [Param -> 0..Unity]
  /\ \A v \in Venue : Gains(v) \in [Param -> 0..Unity]
<1>1. 0 \in 0..Unity
  BY GainAssumption
<1>2. ASSUME NEW v \in Venue
      PROVE  Gains(v) \in [Param -> 0..Unity]
  <2>1. \A p \in Param : Profile[v][p] \in Int
    BY GainAssumption
  <2> QED
    BY <2>1, CappedIsALevel DEF Gains
<1> QED
  BY <1>1, <1>2, GainAssumption DEF Silence, ConfMult

LEMMA LevelIncludesWritten == [Param -> 0..Unity] \subseteq [Param -> Level]
  BY DEF Level

LEMMA WatchdogIsTyped ==
  ASSUME NEW wd \in WatchdogState, NEW present \in SUBSET Monitored
  PROVE  /\ Checked(wd, present) \in WatchdogState
         /\ Unlatched(wd) \in WatchdogState
         /\ WatchdogNew \in WatchdogState
<1> DEFINE c == Checked(wd, present)
<1>1. Missing(present) \in SUBSET Monitored
  BY DEF Missing
<1>2. c \in WatchdogState
  BY <1>1 DEF Checked, Latches, MutesGains, WatchdogState
<1> QED
  BY <1>2 DEF Unlatched, WatchdogNew, WatchdogState

-----------------------------------------------------------------------------
(* The parts of a handler.                                                 *)

LEMMA SetGainsType ==
  ASSUME TypeOK, NEW gains \in [Param -> Level], SetGains(gains)
  PROVE  mult' \in [Param -> Level]
  BY DEF TypeOK, SetGains

LEMMA CountEpochsType ==
  ASSUME TypeOK, NEW g, NEW m, CountEpochs(g, m)
  PROVE  reconcileEpoch' \in Nat /\ settledEpoch' \in Nat
  BY DEF TypeOK, CountEpochs

LEMMA ApplyActionsType ==
  ASSUME TypeOK, NEW g \in Graph, NEW m \in Mode, NEW others,
         NEW unseen \in SUBSET Link, ApplyActions(g, m, others, unseen)
  PROVE  /\ links' \subseteq Link
         /\ newLinks' \subseteq Link
         /\ proxies' \subseteq Link
<1>1. Requested(g, m) \subseteq Link /\ Linked(g, m) \subseteq Link
  BY ActionsAreLinks DEF Requested, Linked
<1> QED
  BY <1>1 DEF TypeOK, ApplyActions, ProxiesAfter

LEMMA WatchdogCheckType ==
  ASSUME TypeOK, NEW g \in Graph, NEW unseen, WatchdogCheck(g, unseen)
  PROVE  /\ watchdog' \in WatchdogState
         /\ mult' \in [Param -> Level]
         /\ gateOpen' \in BOOLEAN
<1>1. watchdog' \in WatchdogState
  BY WatchdogIsTyped DEF TypeOK, WatchdogCheck
<1>2. mult' \in [Param -> Level]
  BY WrittenGains, LevelIncludesWritten DEF TypeOK, WatchdogCheck, MuteGains
<1>3. gateOpen' \in BOOLEAN
  BY DEF WatchdogCheck, CloseOnMute
<1> QED
  BY <1>1, <1>2, <1>3

LEMMA RunReconcileType ==
  ASSUME TypeOK, NEW g \in Graph,
         NEW unseenNodes \in SUBSET Node, NEW unseenLinks \in SUBSET Link,
         RunReconcile(g, unseenNodes, unseenLinks)
  PROVE  TypeOK'
<1> DEFINE others == FallbackLinks(g) \union BypassLinks(g)
<1>1. mode \in Mode
  BY DEF TypeOK
<1>2. reconcileEpoch' \in Nat /\ settledEpoch' \in Nat
  BY CountEpochsType DEF RunReconcile
<1>3. links' \subseteq Link /\ newLinks' \subseteq Link /\ proxies' \subseteq Link
  <2>1. ApplyActions(g, mode, others, unseenLinks)
    BY DEF RunReconcile
  <2> HIDE DEF others
  <2> QED
    BY <1>1, <2>1, ApplyActionsType
<1>4. /\ watchdog' \in WatchdogState
      /\ mult' \in [Param -> Level]
      /\ gateOpen' \in BOOLEAN
  BY WatchdogCheckType DEF RunReconcile
<1> QED
  BY <1>2, <1>3, <1>4 DEF TypeOK, RunReconcile, venueVars

-----------------------------------------------------------------------------
(* The steps.                                                              *)

LEMMA InitType == Init => TypeOK
<1> SUFFICES ASSUME Init
             PROVE  TypeOK
  OBVIOUS
<1>1. EmptyGraph \in Graph
  BY EmptyGraphMatches
<1>2. WatchdogNew \in WatchdogState
  BY DEF WatchdogNew, WatchdogState
<1>3. mult \in [Param -> Level]
  BY WrittenGains, LevelIncludesWritten DEF Init
<1>4. running \in BOOLEAN /\ gateOpen \in BOOLEAN
  BY DEF Init
<1> QED
  BY <1>1, <1>2, <1>3, <1>4, ModeAssumption DEF Init, TypeOK

LEMMA OnGlobalType ==
  ASSUME TypeOK, OnGlobal
  PROVE  TypeOK'
<1>1. ASSUME NEW n \in newNodes, OnGlobalNode(n)
      PROVE  TypeOK'
  <2>1. WithNode(graph, n) \in Graph
    BY EventsMakeGraphs DEF TypeOK
  <2>2. newNodes \ {n} \in SUBSET Node /\ newLinks \in SUBSET Link
    BY DEF TypeOK
  <2> QED
    BY <1>1, <2>1, <2>2, RunReconcileType DEF OnGlobalNode
<1>2. ASSUME NEW l \in newLinks, OnGlobalLink(l)
      PROVE  TypeOK'
  <2>1. WithLink(graph, l) \in Graph
    BY EventsMakeGraphs DEF TypeOK
  <2>2. newNodes \in SUBSET Node /\ newLinks \ {l} \in SUBSET Link
    BY DEF TypeOK
  <2> QED
    BY <1>2, <2>1, <2>2, RunReconcileType DEF OnGlobalLink
<1> QED
  BY <1>1, <1>2 DEF OnGlobal

LEMMA OnGlobalRemoveType ==
  ASSUME TypeOK, OnGlobalRemove
  PROVE  TypeOK'
<1>0. newNodes \in SUBSET Node /\ newLinks \in SUBSET Link
  BY DEF TypeOK
<1>1. ASSUME NEW n \in graph.nodes, OnGlobalRemoveNode(n)
      PROVE  TypeOK'
  <2>1. n \in Node
    BY DEF TypeOK, Graph
  <2>2. WithoutNode(graph, n) \in Graph
    BY <2>1, EventsMakeGraphs DEF TypeOK
  <2> QED
    BY <1>0, <1>1, <2>2, RunReconcileType DEF OnGlobalRemoveNode
<1>2. ASSUME NEW l \in graph.links, OnGlobalRemoveLink(l)
      PROVE  TypeOK'
  <2>1. l \in Link
    BY DEF TypeOK, Graph
  <2>2. WithoutLink(graph, l) \in Graph
    BY <2>1, EventsMakeGraphs DEF TypeOK
  <2> QED
    BY <1>0, <1>2, <2>2, RunReconcileType DEF OnGlobalRemoveLink
<1> QED
  BY <1>1, <1>2 DEF OnGlobalRemove

LEMMA OnGlobalPortType ==
  ASSUME TypeOK, OnGlobalPort
  PROVE  TypeOK'
<1>1. newNodes \in SUBSET Node /\ newLinks \in SUBSET Link /\ graph \in Graph
  BY DEF TypeOK
<1> QED
  BY <1>1, RunReconcileType DEF OnGlobalPort

LEMMA CommandType ==
  ASSUME TypeOK, Command
  PROVE  TypeOK'
<1> USE DEF eventVars, epochVars, gateVars, venueVars
<1>1. ASSUME NEW m \in Mode, SetMode(m)
      PROVE  TypeOK'
  <2>1. CountEpochs(graph, m) /\ ApplyActions(graph, m, {}, newLinks)
    BY <1>1 DEF SetMode, ReconcileNow
  <2>2. reconcileEpoch' \in Nat /\ settledEpoch' \in Nat
    BY <2>1, CountEpochsType
  <2>3. links' \subseteq Link /\ newLinks' \subseteq Link /\ proxies' \subseteq Link
    BY <2>1, ApplyActionsType DEF TypeOK
  <2>4. mult' \in [Param -> Level]
    <3>1. Silence \in [Param -> Level] /\ mult \in [Param -> Level]
      BY WrittenGains, LevelIncludesWritten DEF TypeOK
    <3>2. SetGains(Silence) \/ UNCHANGED mult
      BY <1>1 DEF SetMode, CloseOnStandby
    <3> QED
      BY <3>1, <3>2, SetGainsType
  <2>5. gateOpen' \in BOOLEAN
    <3>1. gateOpen' = FALSE \/ gateOpen' = gateOpen
      BY <1>1 DEF SetMode, CloseOnStandby
    <3> QED
      BY <3>1, Zenon DEF TypeOK
  <2>6. quantum' \in {256, 1024}
    BY <1>1 DEF SetMode, SetQuantum, Quantum, TypeOK
  <2> QED
    BY <1>1, <2>2, <2>3, <2>4, <2>5, <2>6 DEF SetMode, TypeOK
<1>2. CASE WatchdogUnlatch
  <2>1. mult' \in [Param -> Level]
    BY <1>2, SetGainsType, WrittenGains, LevelIncludesWritten
       DEF WatchdogUnlatch, TypeOK
  <2>2. watchdog' \in WatchdogState
    BY <1>2, WatchdogIsTyped DEF WatchdogUnlatch, TypeOK
  <2> QED
    BY <1>2, <2>1, <2>2 DEF WatchdogUnlatch, TypeOK
<1>3. ASSUME NEW v \in Venue, SetVenue(v)
      PROVE  TypeOK'
  <2>1. Gains(v) \in [Param -> Level]
    BY WrittenGains, LevelIncludesWritten
  <2>2. mult' \in [Param -> Level]
    BY <1>3, <2>1, SetGainsType DEF SetVenue, HotSwitch, TypeOK
  <2> QED
    BY <1>3, <2>2 DEF SetVenue, TypeOK
<1>4. CASE OpenGate
  <2>1. pending \in Venue
    BY <1>4 DEF OpenGate, TypeOK
  <2>2. Gains(pending) \in [Param -> Level]
    BY <2>1, WrittenGains, LevelIncludesWritten
  <2>3. mult' \in [Param -> Level]
    BY <1>4, <2>2, SetGainsType DEF OpenGate
  <2> QED
    BY <1>4, <2>3 DEF OpenGate, TypeOK
<1>5. CASE CloseGate
  <2>1. mult' \in [Param -> Level]
    BY <1>5, SetGainsType, WrittenGains, LevelIncludesWritten DEF CloseGate
  <2>2. gateOpen' \in BOOLEAN
    BY <1>5 DEF CloseGate
  <2> QED
    BY <1>5, <2>1, <2>2 DEF CloseGate, TypeOK
<1>6. ASSUME NEW e \in Since, AwaitSettled(e)
      PROVE  TypeOK'
  BY <1>6 DEF AwaitSettled, TypeOK
<1> QED
  BY <1>1, <1>2, <1>3, <1>4, <1>5, <1>6 DEF Command

LEMMA TimerType ==
  ASSUME TypeOK, Timer
  PROVE  TypeOK'
<1> USE DEF eventVars, epochVars, gateVars, venueVars
<1>1. ASSUME NEW expired \in SUBSET waiters, CheckWaiters(expired)
      PROVE  TypeOK'
  BY <1>1 DEF CheckWaiters, TypeOK
<1>2. CASE GainIntegrityCheck
  <2>1. mult' \in [Param -> Level]
    BY <1>2, SetGainsType, WrittenGains, LevelIncludesWritten DEF GainIntegrityCheck
  <2>2. gateOpen' \in BOOLEAN
    BY <1>2 DEF GainIntegrityCheck
  <2> QED
    BY <1>2, <2>1, <2>2 DEF GainIntegrityCheck, TypeOK
<1> QED
  BY <1>1, <1>2 DEF Timer

LEMMA EnvironmentType ==
  ASSUME TypeOK, Environment
  PROVE  TypeOK'
<1> USE DEF eventVars, epochVars, venueVars, gmVars
<1>1. ConfMult \in [Param -> Level]
  BY WrittenGains, LevelIncludesWritten
<1>2. ASSUME NEW names \in Process, NEW id \in Id, NodeUp(names, id)
      PROVE  TypeOK'
  <2> DEFINE nodes == {[name |-> a, id |-> id] : a \in names}
  <2>1. nodes \subseteq Node
    BY ProcessAssumption DEF Node
  <2>2. up' \subseteq Node /\ newNodes' \subseteq Node /\ newLinks' \subseteq Link
    BY <1>2, <2>1 DEF NodeUp, Announce, TypeOK
  <2>3. mult' \in [Param -> Level]
    BY <1>1, <1>2 DEF NodeUp, TypeOK
  <2> QED
    BY <1>2, <2>2, <2>3 DEF NodeUp, TypeOK
<1>3. ASSUME NEW names \in Process, NodeDown(names)
      PROVE  TypeOK'
  BY <1>1, <1>3 DEF NodeDown, TypeOK
<1>4. ASSUME NEW l \in [out : up, in : up], ForeignLink(l)
      PROVE  TypeOK'
  <2>1. l \in Link
    BY DEF TypeOK, Link
  <2> QED
    BY <1>4, <2>1 DEF ForeignLink, Announce, TypeOK
<1>5. ASSUME NEW l \in links, ForeignUnlink(l)
      PROVE  TypeOK'
  BY <1>5 DEF ForeignUnlink, TypeOK
<1>6. ASSUME NEW p \in Param, NEW level \in ForeignLevel, ForeignMult(p, level)
      PROVE  TypeOK'
  BY <1>6 DEF ForeignMult, TypeOK, Level
<1> QED
  BY <1>2, <1>3, <1>4, <1>5, <1>6 DEF Environment

LEMMA FreshType ==
  ASSUME Fresh
  PROVE  /\ graph' \in Graph /\ proxies' \subseteq Link
         /\ watchdog' \in WatchdogState /\ gateOpen' \in BOOLEAN
         /\ reconcileEpoch' \in Nat /\ settledEpoch' \in Nat
         /\ waiters' \subseteq Since /\ mode' \in Mode
<1>1. WatchdogNew \in WatchdogState
  BY DEF WatchdogNew, WatchdogState
<1> QED
  BY <1>1, EmptyGraphMatches, ModeAssumption DEF Fresh

LEMMA CrashType ==
  ASSUME TypeOK, Crash
  PROVE  TypeOK'
<1>1. /\ links' \subseteq Link /\ newNodes' \subseteq Node /\ newLinks' \subseteq Link
      /\ running' \in BOOLEAN
      /\ pending' \in Venue \union {NoVenue} /\ active' \in Venue \union {NoVenue}
      /\ Fresh
  <2>1. links \subseteq Link
    BY DEF TypeOK
  <2> QED
    BY <2>1 DEF Crash
<1>2. UNCHANGED <<up, mult, quantum, saved>>
  BY DEF Crash
<1> QED
  BY <1>1, <1>2, FreshType DEF TypeOK

LEMMA StartType ==
  ASSUME TypeOK, Start
  PROVE  TypeOK'
<1>1. quantum' \in {256, 1024}
  BY DEF Start, SetQuantum, Quantum, TypeOK
<1>2. /\ pending' \in Venue \union {NoVenue}
      /\ active' \in Venue \union {NoVenue}
      /\ saved' \in Venue \union {NoVenue}
  BY DEF Start, TypeOK
<1> QED
  BY <1>1, <1>2, FreshType DEF Start, TypeOK

LEMMA NextType == TypeOK /\ [Next]_vars => TypeOK'
<1> SUFFICES ASSUME TypeOK, [Next]_vars
             PROVE  TypeOK'
  OBVIOUS
<1>1. CASE UNCHANGED vars
  BY <1>1 DEF TypeOK, vars, eventVars, epochVars, gateVars, venueVars
<1> QED
  BY <1>1, OnGlobalType, OnGlobalRemoveType, OnGlobalPortType, CommandType,
     TimerType, EnvironmentType, CrashType, StartType DEF Next

(* Every reachable state is well typed; in particular no gain that         *)
(* GraphManager writes exceeds unity, whatever the venue files say.        *)
THEOREM TypeCorrect == Spec => []TypeOK
  BY InitType, NextType, PTL DEF Spec

-----------------------------------------------------------------------------
(* Link reconciliation.  The invariant is about what a pass leaves behind: *)
(* everything the tracked graph lacks has been requested, and whatever it  *)
(* has too much is gone or was not yet announced then; in the latter case  *)
(* its announcement will start another pass.                               *)

(* The daemon removes a link with either of its nodes. *)
LinksAreLive == \A l \in links : {l.out, l.in} \subseteq up

(* And tells so in an order that leaves no tracked link without a node. *)
TrackedInOrder == \A l \in graph.links : {l.out, l.in} \subseteq graph.nodes

ProxiesAreKnown == \A l \in proxies : {l.out.name, l.in.name} \subseteq KnownName

RequestsMade ==
  running =>
    /\ ToCreate(graph, mode) \subseteq proxies
    /\ ToDestroy(graph, mode) \intersect links \subseteq newLinks
    /\ BypassLinks(graph) \intersect links \subseteq newLinks

EpochsInStep == settledEpoch <= reconcileEpoch /\ SettledIffMatching

LinkInv ==
  /\ TypeOK
  /\ LinksAreLive
  /\ TrackedInOrder
  /\ ProxiesAreKnown
  /\ RequestsMade
  /\ EpochsInStep

-----------------------------------------------------------------------------
(* What one set of actions does.                                           *)

LEMMA ApplyActionsLinks ==
  ASSUME TypeOK, LinksAreLive, ProxiesAreKnown, NEW g \in Graph, NEW m \in Mode,
         NEW others, NEW unseen, ApplyActions(g, m, others, unseen),
         UNCHANGED up
  PROVE  /\ LinksAreLive'
         /\ ProxiesAreKnown'
         /\ ToCreate(g, m) \subseteq proxies'
         /\ (ToDestroy(g, m) \union others) \intersect links' \subseteq newLinks'
         /\ links' \subseteq links \union newLinks'
         /\ unseen \subseteq newLinks'
<1>1. LinksAreLive'
  BY DEF ApplyActions, Linked, LinksAreLive
<1>2. ProxiesAreKnown'
  BY CreatedNamesAreKnown DEF ApplyActions, ProxiesAfter, Requested, ProxiesAreKnown
<1>3. ToCreate(g, m) \subseteq proxies'
  BY CreateOrDestroy DEF ApplyActions, ProxiesAfter, Requested
<1>4. /\ (ToDestroy(g, m) \union others) \intersect links' \subseteq newLinks'
      /\ links' \subseteq links \union newLinks'
      /\ unseen \subseteq newLinks'
  BY DEF ApplyActions, Destroyed
<1> QED
  BY <1>1, <1>2, <1>3, <1>4

LEMMA CountEpochsInStep ==
  ASSUME TypeOK, settledEpoch <= reconcileEpoch, NEW g, NEW m, CountEpochs(g, m)
  PROVE  /\ settledEpoch' <= reconcileEpoch'
         /\ settledEpoch' = reconcileEpoch' <=> Matches(g, m)
<1>1. settledEpoch \in Nat /\ reconcileEpoch \in Nat
  BY DEF TypeOK
<1> QED
  BY <1>1 DEF CountEpochs

(* A pass over the graph g that an event has made. *)
LEMMA RunReconcileLinks ==
  ASSUME LinkInv, TypeOK', NEW g \in Graph, NEW unseenNodes, NEW unseenLinks,
         RunReconcile(g, unseenNodes, unseenLinks),
         \A l \in g.links : {l.out, l.in} \subseteq g.nodes
  PROVE  LinkInv'
<1> DEFINE others == FallbackLinks(g) \union BypassLinks(g)
<1>1. /\ ApplyActions(g, mode, others, unseenLinks)
      /\ CountEpochs(g, mode)
      /\ graph' = g
      /\ UNCHANGED <<up, mode, running>>
  BY DEF RunReconcile
<1>2. mode \in Mode
  BY DEF LinkInv, TypeOK
<1>3. /\ LinksAreLive'
      /\ ProxiesAreKnown'
      /\ ToCreate(g, mode) \subseteq proxies'
      /\ (ToDestroy(g, mode) \union others) \intersect links' \subseteq newLinks'
  <2> HIDE DEF others
  <2> QED
    BY <1>1, <1>2, ApplyActionsLinks DEF LinkInv
<1>4. RequestsMade'
  BY <1>1, <1>3 DEF RequestsMade
<1>5. TrackedInOrder'
  BY <1>1 DEF TrackedInOrder
<1>6. EpochsInStep'
  BY <1>1, CountEpochsInStep DEF LinkInv, EpochsInStep, SettledIffMatching
<1> QED
  BY <1>3, <1>4, <1>5, <1>6 DEF LinkInv

(* F-164 for one pass. *)
LEMMA ActionsSpareStreamLinks ==
  ASSUME NEW g \in Graph, NEW m \in Mode, NEW others, NEW unseen,
         ApplyActions(g, m, others, unseen),
         \A l \in others : l.in.name = Usb,
         \A l \in g.links : {l.out, l.in} \subseteq g.nodes
  PROVE  SparesStreamLinks
<1> SUFFICES ASSUME NEW l \in links \ links',
                    (StreamName \ KnownName) \intersect {l.out.name, l.in.name} # {}
             PROVE  l.in.name = Usb
  BY DEF SparesStreamLinks
<1>1. l \in ToDestroy(g, m) \/ l \in others
  BY DEF ApplyActions, Destroyed
<1>2. l \notin ToDestroy(g, m)
  BY StreamLinksAreKept, ActionsAreLinks
<1> QED
  BY <1>1, <1>2

LEMMA RunReconcileSpares ==
  ASSUME LinkInv, NEW g \in Graph, NEW unseenNodes, NEW unseenLinks,
         RunReconcile(g, unseenNodes, unseenLinks),
         \A l \in g.links : {l.out, l.in} \subseteq g.nodes
  PROVE  SparesStreamLinks
<1> DEFINE others == FallbackLinks(g) \union BypassLinks(g)
<1>1. ApplyActions(g, mode, others, unseenLinks) /\ mode \in Mode
  BY DEF RunReconcile, LinkInv, TypeOK
<1>2. \A l \in others : l.in.name = Usb
  BY DEF FallbackLinks, BypassLinks, UsbLinks
<1> HIDE DEF others
<1> QED
  BY <1>1, <1>2, ActionsSpareStreamLinks

-----------------------------------------------------------------------------
(* The steps: each preserves the invariant and spares stream links.        *)

LEMMA InitLinks == Init => LinkInv
<1> SUFFICES ASSUME Init
             PROVE  LinkInv
  OBVIOUS
<1>1. TypeOK
  BY InitType
<1>2. TrackedInOrder
  BY DEF Init, EmptyGraph, TrackedInOrder
<1>3. EpochsInStep
  BY EmptyGraphMatches DEF Init, EpochsInStep, SettledIffMatching
<1> QED
  BY <1>1, <1>2, <1>3 DEF Init, LinkInv, LinksAreLive, ProxiesAreKnown, RequestsMade

LEMMA EventLinks ==
  ASSUME LinkInv, TypeOK', OnGlobal \/ OnGlobalRemove \/ OnGlobalPort
  PROVE  LinkInv' /\ SparesStreamLinks
<1>1. /\ graph \in Graph
      /\ \A l \in graph.links : {l.out, l.in} \subseteq graph.nodes
  BY DEF LinkInv, TypeOK, TrackedInOrder
<1>2. ASSUME NEW g \in Graph, NEW unseenNodes, NEW unseenLinks,
             RunReconcile(g, unseenNodes, unseenLinks),
             \A l \in g.links : {l.out, l.in} \subseteq g.nodes
      PROVE  LinkInv' /\ SparesStreamLinks
  BY <1>2, RunReconcileLinks, RunReconcileSpares
<1>3. ASSUME NEW n \in newNodes, OnGlobalNode(n)
      PROVE  LinkInv' /\ SparesStreamLinks
  <2> DEFINE g == WithNode(graph, n)
  <2>1. g.nodes = graph.nodes \union {n} /\ g.links = graph.links
    BY <1>1 DEF WithNode, Graph
  <2>2. g \in Graph
    BY EventsMakeGraphs DEF LinkInv, TypeOK
  <2>3. RunReconcile(g, newNodes \ {n}, newLinks)
    BY <1>3 DEF OnGlobalNode
  <2> HIDE DEF g
  <2> QED
    BY <1>1, <1>2, <2>1, <2>2, <2>3
<1>4. ASSUME NEW l \in newLinks, OnGlobalLink(l)
      PROVE  LinkInv' /\ SparesStreamLinks
  <2> DEFINE g == WithLink(graph, l)
  <2>1. g.nodes = graph.nodes /\ g.links = graph.links \union {l}
    BY <1>1 DEF WithLink, Graph
  <2>2. g \in Graph
    BY EventsMakeGraphs DEF LinkInv, TypeOK
  <2>3. RunReconcile(g, newNodes, newLinks \ {l}) /\ {l.out, l.in} \subseteq graph.nodes
    BY <1>4 DEF OnGlobalLink
  <2> HIDE DEF g
  <2> QED
    BY <1>1, <1>2, <2>1, <2>2, <2>3
<1>5. ASSUME NEW n \in graph.nodes, OnGlobalRemoveNode(n)
      PROVE  LinkInv' /\ SparesStreamLinks
  <2> DEFINE g == WithoutNode(graph, n)
  <2>1. g.nodes = graph.nodes \ {n} /\ g.links = graph.links
    BY <1>1 DEF WithoutNode, Graph
  <2>2. g \in Graph
    BY <1>1, EventsMakeGraphs DEF Graph
  <2>3. /\ RunReconcile(g, newNodes, newLinks)
        /\ \A l \in graph.links : n \notin {l.out, l.in}
    BY <1>5 DEF OnGlobalRemoveNode
  <2> HIDE DEF g
  <2> QED
    BY <1>1, <1>2, <2>1, <2>2, <2>3
<1>6. ASSUME NEW l \in graph.links, OnGlobalRemoveLink(l)
      PROVE  LinkInv' /\ SparesStreamLinks
  <2> DEFINE g == WithoutLink(graph, l)
  <2>1. g.nodes = graph.nodes /\ g.links = graph.links \ {l}
    BY <1>1 DEF WithoutLink, Graph
  <2>2. g \in Graph
    BY <1>1, EventsMakeGraphs DEF Graph
  <2>3. RunReconcile(g, newNodes, newLinks)
    BY <1>6 DEF OnGlobalRemoveLink
  <2> HIDE DEF g
  <2> QED
    BY <1>1, <1>2, <2>1, <2>2, <2>3
<1>7. CASE OnGlobalPort
  BY <1>1, <1>2, <1>7 DEF OnGlobalPort
<1> QED
  BY <1>3, <1>4, <1>5, <1>6, <1>7 DEF OnGlobal, OnGlobalRemove

(* A step that is not about nodes and links. *)
LEMMA OtherStepLinks ==
  ASSUME LinkInv, TypeOK',
         UNCHANGED <<up, links, newLinks, epochVars, running, graph, proxies, mode>>
  PROVE  LinkInv' /\ SparesStreamLinks
<1> USE DEF epochVars
<1>1. LinksAreLive' /\ TrackedInOrder' /\ ProxiesAreKnown'
  BY DEF LinkInv, LinksAreLive, TrackedInOrder, ProxiesAreKnown
<1>2. RequestsMade' /\ EpochsInStep'
  BY DEF LinkInv, RequestsMade, EpochsInStep, SettledIffMatching
<1> QED
  BY <1>1, <1>2 DEF LinkInv, SparesStreamLinks

LEMMA SetModeLinks ==
  ASSUME LinkInv, TypeOK', NEW m \in Mode, SetMode(m)
  PROVE  LinkInv' /\ SparesStreamLinks
<1>1. /\ graph \in Graph
      /\ \A l \in graph.links : {l.out, l.in} \subseteq graph.nodes
  BY DEF LinkInv, TypeOK, TrackedInOrder
<1>2. /\ running
      /\ CountEpochs(graph, m)
      /\ ApplyActions(graph, m, {}, newLinks)
      /\ mode' = m
      /\ UNCHANGED <<up, graph, running>>
  BY DEF SetMode, ReconcileNow
<1>3. /\ LinksAreLive'
      /\ ProxiesAreKnown'
      /\ ToCreate(graph, m) \subseteq proxies'
      /\ ToDestroy(graph, m) \intersect links' \subseteq newLinks'
      /\ links' \subseteq links \union newLinks'
      /\ newLinks \subseteq newLinks'
  BY <1>1, <1>2, ApplyActionsLinks DEF LinkInv
<1>4. RequestsMade'
  BY <1>2, <1>3 DEF LinkInv, RequestsMade
<1>5. EpochsInStep'
  BY <1>2, CountEpochsInStep DEF LinkInv, EpochsInStep, SettledIffMatching
<1>6. TrackedInOrder'
  BY <1>2 DEF LinkInv, TrackedInOrder
<1>7. SparesStreamLinks
  BY <1>1, <1>2, ActionsSpareStreamLinks
<1> QED
  BY <1>3, <1>4, <1>5, <1>6, <1>7 DEF LinkInv

LEMMA EnvironmentLinks ==
  ASSUME LinkInv, TypeOK', Environment
  PROVE  LinkInv' /\ SparesStreamLinks
<1> USE DEF gmVars, epochVars
<1>1. UNCHANGED gmVars
  BY DEF Environment, NodeUp, NodeDown, ForeignLink, ForeignUnlink, ForeignMult, eventVars
<1>2. TrackedInOrder' /\ ProxiesAreKnown' /\ EpochsInStep'
  BY <1>1 DEF LinkInv, TrackedInOrder, ProxiesAreKnown, EpochsInStep, SettledIffMatching
<1>3. links' \subseteq links \union newLinks' \/ ~running
  BY DEF Environment, NodeUp, NodeDown, ForeignLink, ForeignUnlink, ForeignMult, Announce
<1>4. newLinks \subseteq newLinks'
  BY DEF Environment, NodeUp, NodeDown, ForeignLink, ForeignUnlink, ForeignMult,
         Announce, eventVars
<1>5. RequestsMade'
  BY <1>1, <1>3, <1>4 DEF LinkInv, RequestsMade
<1>6. LinksAreLive'
  <2>1. ASSUME NEW names \in Process, NodeDown(names)
        PROVE  LinksAreLive'
    BY <2>1 DEF NodeDown, LinkInv, LinksAreLive
  <2>2. CASE up \subseteq up' /\ \A l \in links' \ links : {l.out, l.in} \subseteq up
    BY <2>2 DEF LinkInv, LinksAreLive
  <2>3. ASSUME NEW l \in [out : up, in : up], ForeignLink(l)
        PROVE  up' = up /\ \A k \in links' \ links : {k.out, k.in} \subseteq up
    BY <2>3 DEF ForeignLink
  <2> QED
    BY <2>1, <2>2, <2>3 DEF Environment, NodeUp, ForeignUnlink, ForeignMult
<1>7. SparesStreamLinks
  <2>1. CASE links \subseteq links'
    BY <2>1 DEF SparesStreamLinks
  <2>2. ASSUME NEW names \in Process, NodeDown(names)
        PROVE  SparesStreamLinks
    BY <2>2 DEF NodeDown, SparesStreamLinks
  <2>3. ASSUME NEW l \in links, ForeignUnlink(l)
        PROVE  SparesStreamLinks
    BY <2>3 DEF ForeignUnlink, SparesStreamLinks
  <2> QED
    BY <2>1, <2>2, <2>3 DEF Environment, NodeUp, ForeignLink, ForeignMult
<1> QED
  BY <1>2, <1>5, <1>6, <1>7 DEF LinkInv

LEMMA RestartLinks ==
  ASSUME LinkInv, TypeOK', Crash \/ Start
  PROVE  LinkInv' /\ SparesStreamLinks
<1>1. Fresh /\ up' = up /\ (links' = links \/ links' = links \ proxies)
  BY DEF Crash, Start
<1>2. LinksAreLive'
  BY <1>1 DEF LinkInv, LinksAreLive
<1>3. TrackedInOrder' /\ ProxiesAreKnown'
  BY <1>1 DEF Fresh, TrackedInOrder, ProxiesAreKnown, EmptyGraph
<1>4. Matches(graph', mode') /\ BypassLinks(graph') = {}
  BY <1>1, EmptyGraphMatches DEF Fresh, BypassLinks
<1>5. RequestsMade'
  BY <1>4 DEF RequestsMade, Matches
<1>6. EpochsInStep'
  BY <1>1, <1>4 DEF Fresh, EpochsInStep, SettledIffMatching
<1>7. SparesStreamLinks
  BY <1>1 DEF SparesStreamLinks, LinkInv, ProxiesAreKnown
<1> QED
  BY <1>2, <1>3, <1>5, <1>6, <1>7 DEF LinkInv

LEMMA NextLinks ==
  ASSUME LinkInv, [Next]_vars
  PROVE  LinkInv' /\ SparesStreamLinks
<1>1. TypeOK'
  BY NextType DEF LinkInv
<1>2. CASE UNCHANGED vars
  BY <1>1, <1>2, OtherStepLinks DEF vars, eventVars
<1>3. CASE Command
  <2>1. CASE \E m \in Mode : SetMode(m)
    BY <1>1, <2>1, SetModeLinks
  <2>2. CASE ~\E m \in Mode : SetMode(m)
    BY <1>1, <1>3, <2>2, OtherStepLinks
       DEF Command, WatchdogUnlatch, SetVenue, OpenGate, CloseGate, AwaitSettled, eventVars
  <2> QED
    BY <2>1, <2>2
<1>4. CASE Timer
  BY <1>1, <1>4, OtherStepLinks DEF Timer, CheckWaiters, GainIntegrityCheck, eventVars
<1> QED
  BY <1>1, <1>2, <1>3, <1>4, EventLinks, EnvironmentLinks, RestartLinks DEF Next

LEMMA LinkInvariant == Spec => []LinkInv
<1>1. LinkInv /\ [Next]_vars => LinkInv'
  BY NextLinks
<1> QED
  BY <1>1, InitLinks, PTL DEF Spec

-----------------------------------------------------------------------------
(* Once every event is delivered, the links are those of the routing table *)
(* but for what a leftover proxy keeps back.                               *)
THEOREM QuietMeansAtRestHolds == Spec => []QuietMeansAtRest
<1>1. LinkInv => QuietMeansAtRest
  <2> SUFFICES ASSUME LinkInv, Quiet
               PROVE  AtRest
    BY DEF QuietMeansAtRest
  <2>1. running /\ newLinks = {} /\ graph = Real
    BY DEF Quiet
  <2>2. ToDestroy(Real, mode) \subseteq links
    BY DEF ToDestroy, Real
  <2> QED
    BY <2>1, <2>2 DEF LinkInv, RequestsMade, AtRest
<1> QED
  BY <1>1, LinkInvariant, PTL

(* And nothing plays into the USBStreamer past the convolver, whoever      *)
(* linked it.                                                              *)
THEOREM NoBypassWhenQuietHolds == Spec => []NoBypassWhenQuiet
<1>1. LinkInv => NoBypassWhenQuiet
  <2> SUFFICES ASSUME LinkInv, Quiet, NEW l \in links, l.in.name = Usb,
                      l.out.name # ConvolverOut
               PROVE  FALSE
    BY DEF NoBypassWhenQuiet
  <2>1. running /\ newLinks = {} /\ graph.links = links /\ graph.nodes = up
    BY DEF Quiet, Real
  <2>2. l \in BypassLinks(graph)
    BY <2>1 DEF BypassLinks, UsbLinks, LinkInv, LinksAreLive
  <2> QED
    BY <2>1, <2>2 DEF LinkInv, RequestsMade
<1> QED
  BY <1>1, LinkInvariant, PTL

(* The settled epoch says exactly whether the tracked graph matches.       *)
THEOREM SettledIffMatchingHolds == Spec => []SettledIffMatching
<1>1. LinkInv => SettledIffMatching
  BY DEF LinkInv, EpochsInStep
<1> QED
  BY <1>1, LinkInvariant, PTL

(* F-164: other applications' streams keep their links.                    *)
THEOREM StreamLinksStayHolds == Spec => StreamLinksStay
<1>1. LinkInv /\ [Next]_vars => [SparesStreamLinks]_vars
  BY NextLinks
<1> QED
  BY <1>1, LinkInvariant, PTL DEF Spec, StreamLinksStay

-----------------------------------------------------------------------------
(* The gains, in every instance in which no other client writes them       *)
(* (ForeignLevel = {}).  The watchdog and the commands act on the tracked  *)
(* graph, the gains are the daemon's: what makes the mute work is that     *)
(* gains above zero are always within GraphManager's reach once the        *)
(* watchdog is armed.                                                      *)

(* A convolver that is still to be announced is a live one, and no other   *)
(* is tracked: the situation after a start, before the watchdog is armed.  *)
NotYetKnown ==
  /\ ~watchdog.armed
  /\ Convolver \notin NamesIn(graph)
  /\ \A n \in newNodes : n.name = Convolver => n \in up

(* What sounds can be silenced, unless GraphManager has just started. *)
LoudIsReached ==
  running /\ ~Silent => Reaches(graph, newNodes) \/ NotYetKnown

(* Behind an open gate what sounds can always be silenced. *)
OpenIsReached ==
  gateOpen => running /\ (Silent \/ Reaches(graph, newNodes))

GateInv ==
  /\ TypeOK
  /\ LoudIsReached
  /\ OpenIsReached
  /\ MutedWhileClosed
  /\ OpenGateGains

-----------------------------------------------------------------------------
(* Writes to the gains.                                                    *)

LEMMA SetGainsReaches ==
  ASSUME NEW gains, SetGains(gains)
  PROVE  mult' = IF Reaches(graph, newNodes) THEN gains ELSE mult
  BY DEF SetGains

(* A write, or none, that leaves what is tracked as it is. *)
LEMMA WriteKeepsReach ==
  ASSUME LoudIsReached, NEW gains, SetGains(gains) \/ UNCHANGED mult,
         UNCHANGED <<up, newNodes, graph, running>>,
         watchdog'.armed = watchdog.armed
  PROVE  LoudIsReached'
  BY DEF LoudIsReached, NotYetKnown, Silent, SetGains, Reaches

LEMMA WriteKeepsOpen ==
  ASSUME OpenIsReached, NEW gains, SetGains(gains) \/ UNCHANGED mult,
         UNCHANGED <<up, newNodes, graph, running>>,
         gateOpen' => gateOpen
  PROVE  OpenIsReached'
  BY DEF OpenIsReached, Silent, SetGains, Reaches

(* Closing an open gate silences what sounds. *)
LEMMA ClosingSilences ==
  ASSUME OpenIsReached, gateOpen, SetGains(Silence)
  PROVE  mult' = Silence
  BY DEF OpenIsReached, Silent, SetGains

-----------------------------------------------------------------------------
(* The pass after a graph mutation.                                        *)

LEMMA ArmedKnowsConvolver ==
  ASSUME NEW wd \in WatchdogState, NEW g, ~wd.armed, Convolver \notin NamesIn(g)
  PROVE  ~Checked(wd, NamesIn(g) \intersect Monitored).armed
  BY MonitoredAssumption DEF Checked, Missing, WatchdogState

LEMMA CheckedLatches ==
  ASSUME NEW wd \in WatchdogState, NEW present
  PROVE  Checked(wd, present).latched = (wd.latched \/ Latches(wd, present))
  BY DEF Checked, WatchdogState

(* The watchdog's mute reaches what sounds: where it takes the fallback,   *)
(* or writes to a convolver that is gone, the gains are zero already.      *)
LEMMA LatchingSilences ==
  ASSUME TypeOK, LoudIsReached, running,
         NEW g, NEW unseen, WatchdogCheck(g, unseen),
         Reaches(graph, newNodes) => Reaches(g, unseen),
         Latches(watchdog, NamesIn(g) \intersect Monitored)
  PROVE  mult' = Silence
<1>1. CASE Silent
  BY <1>1 DEF WatchdogCheck, MuteGains, Silent
<1>2. CASE ~Silent
  <2>1. Reaches(g, unseen)
    BY <1>2 DEF LoudIsReached, NotYetKnown, Latches
  <2>2. Convolver \in NamesIn(g) \intersect Monitored
    BY <2>1, MonitoredAssumption DEF Reaches, NamesIn
  <2> QED
    BY <2>1, <2>2 DEF WatchdogCheck, MuteGains, MutesGains
<1> QED
  BY <1>1, <1>2

LEMMA RunReconcileGate ==
  ASSUME GateInv, running, NEW g, NEW unseenNodes \in SUBSET newNodes,
         NEW unseenLinks, RunReconcile(g, unseenNodes, unseenLinks),
         Reaches(graph, newNodes) => Reaches(g, unseenNodes),
         NotYetKnown => Reaches(g, unseenNodes) \/ Convolver \notin NamesIn(g)
  PROVE  /\ LoudIsReached'
         /\ OpenIsReached'
         /\ MutedWhileClosed'
         /\ OpenGateGains'
<1> DEFINE present == NamesIn(g) \intersect Monitored
<1>1. /\ graph' = g
      /\ newNodes' = unseenNodes
      /\ up' = up
      /\ running' = running
      /\ pending' = pending
      /\ WatchdogCheck(g, unseenNodes)
  BY DEF RunReconcile, venueVars
<1>2. Reaches(graph, newNodes)' <=> Reaches(g, unseenNodes)
  BY <1>1 DEF Reaches
<1>3. mult' = Silence \/ mult' = mult
  BY <1>1 DEF WatchdogCheck, MuteGains
<1>4. /\ watchdog' = Checked(watchdog, present)
      /\ gateOpen' = (gateOpen /\ ~Latches(watchdog, present))
  BY <1>1 DEF WatchdogCheck, CloseOnMute
<1>5. watchdog \in WatchdogState /\ gateOpen \in BOOLEAN
  BY DEF GateInv, TypeOK
<1>6. LoudIsReached'
  <2> SUFFICES ASSUME ~Silent', ~Reaches(graph, newNodes)'
               PROVE  NotYetKnown'
    BY DEF LoudIsReached
  <2>1. ~Silent /\ ~Reaches(g, unseenNodes)
    BY <1>2, <1>3 DEF Silent
  <2>2. NotYetKnown /\ Convolver \notin NamesIn(g)
    BY <2>1 DEF GateInv, LoudIsReached
  <2>3. ~watchdog'.armed
    BY <1>4, <1>5, <2>2, ArmedKnowsConvolver DEF NotYetKnown
  <2>4. Convolver \notin NamesIn(graph')
    BY <1>1, <2>2
  <2>5. \A n \in newNodes' : n.name = Convolver => n \in up'
    BY <1>1, <2>2 DEF NotYetKnown
  <2> QED
    BY <2>3, <2>4, <2>5 DEF NotYetKnown, NamesIn
<1>7. OpenIsReached'
  BY <1>1, <1>2, <1>3, <1>4 DEF GateInv, OpenIsReached, Silent
<1>8. MutedWhileClosed'
  <2> SUFFICES ASSUME watchdog'.latched, ~gateOpen'
               PROVE  Silent'
    BY DEF MutedWhileClosed
  <2>1. CASE watchdog.latched
    <3>1. ~gateOpen
      BY <1>4, <2>1 DEF Latches
    <3>2. Silent
      BY <2>1, <3>1 DEF GateInv, MutedWhileClosed
    <3> QED
      BY <1>3, <3>2 DEF Silent
  <2>2. CASE ~watchdog.latched
    <3>1. Latches(watchdog, present)
      BY <1>4, <1>5, <2>2, CheckedLatches
    <3> QED
      BY <1>1, <3>1, LatchingSilences DEF GateInv, Silent
  <2> QED
    BY <2>1, <2>2
<1>9. OpenGateGains'
  BY <1>1, <1>3, <1>4 DEF GateInv, OpenGateGains
<1> QED
  BY <1>6, <1>7, <1>8, <1>9

-----------------------------------------------------------------------------
(* The steps.                                                              *)

LEMMA InitGate == Init => GateInv
<1> SUFFICES ASSUME Init
             PROVE  GateInv
  OBVIOUS
<1>1. TypeOK
  BY InitType
<1> QED
  BY <1>1 DEF Init, GateInv, LoudIsReached, OpenIsReached, MutedWhileClosed,
              OpenGateGains, WatchdogNew

LEMMA OnGlobalGate ==
  ASSUME GateInv, OnGlobal, TypeOK'
  PROVE  GateInv'
<1>1. graph \in Graph
  BY DEF GateInv, TypeOK
<1>2. ASSUME NEW n \in newNodes, OnGlobalNode(n)
      PROVE  GateInv'
  <2> DEFINE g == WithNode(graph, n)
  <2>1. g.nodes = graph.nodes \union {n}
    BY <1>1 DEF WithNode, Graph
  <2>2. Reaches(graph, newNodes) => Reaches(g, newNodes \ {n})
    BY <2>1 DEF Reaches
  <2>3. ASSUME NotYetKnown
        PROVE  Reaches(g, newNodes \ {n}) \/ Convolver \notin NamesIn(g)
    <3>1. CASE n.name = Convolver
      BY <2>1, <2>3, <3>1 DEF NotYetKnown, Reaches
    <3>2. CASE n.name # Convolver
      BY <2>1, <2>3, <3>2 DEF NotYetKnown, NamesIn
    <3> QED
      BY <3>1, <3>2
  <2> HIDE DEF g
  <2>4. running /\ RunReconcile(g, newNodes \ {n}, newLinks)
    BY <1>2 DEF OnGlobalNode, g
  <2> QED
    BY <2>2, <2>3, <2>4, RunReconcileGate DEF GateInv
<1>3. ASSUME NEW l \in newLinks, OnGlobalLink(l)
      PROVE  GateInv'
  <2> DEFINE g == WithLink(graph, l)
  <2>1. g.nodes = graph.nodes
    BY <1>1 DEF WithLink, Graph
  <2>2. Reaches(graph, newNodes) => Reaches(g, newNodes)
    BY <2>1 DEF Reaches
  <2>3. NotYetKnown => Convolver \notin NamesIn(g)
    BY <2>1 DEF NotYetKnown, NamesIn
  <2> HIDE DEF g
  <2>4. running /\ RunReconcile(g, newNodes, newLinks \ {l})
    BY <1>3 DEF OnGlobalLink, g
  <2> QED
    BY <2>2, <2>3, <2>4, RunReconcileGate DEF GateInv
<1> QED
  BY <1>2, <1>3 DEF OnGlobal

LEMMA OnGlobalRemoveGate ==
  ASSUME GateInv, OnGlobalRemove, TypeOK'
  PROVE  GateInv'
<1>1. graph \in Graph
  BY DEF GateInv, TypeOK
<1>2. ASSUME NEW n \in graph.nodes, OnGlobalRemoveNode(n)
      PROVE  GateInv'
  <2> DEFINE g == WithoutNode(graph, n)
  <2>1. g.nodes = graph.nodes \ {n}
    BY <1>1 DEF WithoutNode, Graph
  <2>2. n \notin up \ newNodes
    BY <1>2 DEF OnGlobalRemoveNode
  <2>3. Reaches(graph, newNodes) => Reaches(g, newNodes)
    BY <2>1, <2>2 DEF Reaches
  <2>4. NotYetKnown => Convolver \notin NamesIn(g)
    BY <2>1 DEF NotYetKnown, NamesIn
  <2> HIDE DEF g
  <2>5. running /\ RunReconcile(g, newNodes, newLinks)
    BY <1>2 DEF OnGlobalRemoveNode, g
  <2> QED
    BY <2>3, <2>4, <2>5, RunReconcileGate DEF GateInv
<1>3. ASSUME NEW l \in graph.links, OnGlobalRemoveLink(l)
      PROVE  GateInv'
  <2> DEFINE g == WithoutLink(graph, l)
  <2>1. g.nodes = graph.nodes
    BY <1>1 DEF WithoutLink, Graph
  <2>2. Reaches(graph, newNodes) => Reaches(g, newNodes)
    BY <2>1 DEF Reaches
  <2>3. NotYetKnown => Convolver \notin NamesIn(g)
    BY <2>1 DEF NotYetKnown, NamesIn
  <2> HIDE DEF g
  <2>4. running /\ RunReconcile(g, newNodes, newLinks)
    BY <1>3 DEF OnGlobalRemoveLink, g
  <2> QED
    BY <2>2, <2>3, <2>4, RunReconcileGate DEF GateInv
<1> QED
  BY <1>2, <1>3 DEF OnGlobalRemove

LEMMA OnGlobalPortGate ==
  ASSUME GateInv, OnGlobalPort, TypeOK'
  PROVE  GateInv'
<1>1. NotYetKnown => Convolver \notin NamesIn(graph)
  BY DEF NotYetKnown
<1>2. running /\ RunReconcile(graph, newNodes, newLinks)
  BY DEF OnGlobalPort
<1> QED
  BY <1>1, <1>2, RunReconcileGate DEF GateInv

(* A command or timer that raises no gain and opens no gate. *)
LEMMA QuietingGate ==
  ASSUME GateInv, TypeOK', SetGains(Silence) \/ UNCHANGED mult,
         UNCHANGED <<up, newNodes, graph, running, watchdog, pending>>,
         \/ UNCHANGED <<gateOpen, mult>>
         \/ gateOpen' = FALSE /\ (gateOpen => SetGains(Silence))
  PROVE  GateInv'
<1>1. gateOpen' => gateOpen
  OBVIOUS
<1>2. LoudIsReached'
  BY WriteKeepsReach DEF GateInv
<1>3. OpenIsReached'
  BY <1>1, WriteKeepsOpen DEF GateInv
<1>4. gateOpen /\ ~gateOpen' => mult' = Silence
  BY ClosingSilences DEF GateInv
<1>5. mult' = Silence \/ mult' = mult
  BY DEF SetGains
<1>6. MutedWhileClosed'
  BY <1>4, <1>5 DEF GateInv, MutedWhileClosed, Silent
<1>7. OpenGateGains'
  BY <1>1, <1>5 DEF GateInv, OpenGateGains
<1> QED
  BY <1>2, <1>3, <1>6, <1>7 DEF GateInv

LEMMA CommandGate ==
  ASSUME GateInv, Command, TypeOK'
  PROVE  GateInv'
<1> USE DEF eventVars, epochVars, gateVars, venueVars
<1>1. ASSUME NEW m \in Mode, SetMode(m)
      PROVE  GateInv'
  BY <1>1, QuietingGate DEF SetMode, CloseOnStandby
<1>2. CASE WatchdogUnlatch
  <2>1. SetGains(Restore) \/ UNCHANGED mult
    BY <1>2 DEF WatchdogUnlatch
  <2>2. watchdog'.armed = watchdog.armed /\ ~watchdog'.latched
    BY <1>2 DEF WatchdogUnlatch, Unlatched, GateInv, TypeOK, WatchdogState
  <2>3. LoudIsReached' /\ OpenIsReached'
    BY <1>2, <2>1, <2>2, WriteKeepsReach, WriteKeepsOpen DEF WatchdogUnlatch, GateInv
  <2>4. OpenGateGains'
    BY <1>2, <2>1 DEF WatchdogUnlatch, GateInv, OpenGateGains, SetGains
  <2> QED
    BY <2>2, <2>3, <2>4 DEF GateInv, MutedWhileClosed
<1>3. ASSUME NEW v \in Venue, SetVenue(v)
      PROVE  GateInv'
  <2>1. SetGains(Gains(v)) \/ UNCHANGED mult
    BY <1>3 DEF SetVenue, HotSwitch
  <2>2. LoudIsReached' /\ OpenIsReached'
    BY <1>3, <2>1, WriteKeepsReach, WriteKeepsOpen DEF SetVenue, GateInv
  <2>3. OpenGateGains'
    BY <1>3 DEF SetVenue, HotSwitch, SetGains, GateInv, OpenIsReached, OpenGateGains, Silent
  <2>4. MutedWhileClosed'
    BY <1>3 DEF SetVenue, HotSwitch, GateInv, MutedWhileClosed, Silent
  <2> QED
    BY <2>2, <2>3, <2>4 DEF GateInv
<1>4. CASE OpenGate
  <2>1. Silent \/ Reaches(graph, newNodes)
    BY <1>4 DEF OpenGate, GateInv, LoudIsReached, NotYetKnown
  <2>2. LoudIsReached'
    BY <1>4, WriteKeepsReach DEF OpenGate, GateInv
  <2>3. OpenIsReached'
    BY <1>4, <2>1 DEF OpenGate, OpenIsReached, Silent, SetGains, Reaches
  <2>4. OpenGateGains'
    BY <1>4, <2>1 DEF OpenGate, OpenGateGains, Silent, SetGains
  <2>5. MutedWhileClosed'
    BY <1>4 DEF OpenGate, MutedWhileClosed
  <2> QED
    BY <2>2, <2>3, <2>4, <2>5 DEF GateInv
<1>5. CASE CloseGate
  BY <1>5, QuietingGate DEF CloseGate
<1>6. ASSUME NEW e \in Since, AwaitSettled(e)
      PROVE  GateInv'
  BY <1>6, QuietingGate DEF AwaitSettled
<1> QED
  BY <1>1, <1>2, <1>3, <1>4, <1>5, <1>6 DEF Command

LEMMA TimerGate ==
  ASSUME GateInv, Timer, TypeOK'
  PROVE  GateInv'
<1> USE DEF eventVars, epochVars, gateVars, venueVars
<1>1. ASSUME NEW expired \in SUBSET waiters, CheckWaiters(expired)
      PROVE  GateInv'
  BY <1>1, QuietingGate DEF CheckWaiters
<1>2. CASE GainIntegrityCheck
  BY <1>2, QuietingGate DEF GainIntegrityCheck
<1> QED
  BY <1>1, <1>2 DEF Timer

(* What other clients do to nodes that are not the convolver's. *)
LEMMA OthersGate ==
  ASSUME GateInv, TypeOK', UNCHANGED gmVars, mult' = Silence \/ mult' = mult,
         mult' = mult =>
           /\ Reaches(graph, newNodes) => Reaches(graph, newNodes)'
           /\ NotYetKnown => NotYetKnown'
  PROVE  GateInv'
<1> USE DEF gmVars, venueVars
<1>1. LoudIsReached' /\ OpenIsReached'
  BY DEF GateInv, LoudIsReached, OpenIsReached, Silent
<1>2. MutedWhileClosed' /\ OpenGateGains'
  BY DEF GateInv, MutedWhileClosed, OpenGateGains, Silent
<1> QED
  BY <1>1, <1>2 DEF GateInv

LEMMA EnvironmentGate ==
  ASSUME ForeignLevel = {}, GateInv, Environment, TypeOK'
  PROVE  GateInv'
<1> USE DEF gmVars, eventVars, epochVars, venueVars
<1>1. ASSUME NEW names \in Process, NEW id \in Id, NodeUp(names, id)
      PROVE  GateInv'
  <2> DEFINE nodes == {[name |-> a, id |-> id] : a \in names}
  <2>1. \A n \in nodes : n.name \in names
    OBVIOUS
  <2>2. up' = up \union nodes /\ newNodes' \subseteq newNodes \union nodes
    BY <1>1 DEF NodeUp, Announce
  <2>3. mult' = IF Convolver \in names THEN Silence ELSE mult
    BY <1>1 DEF NodeUp, ConfMult
  <2>4. Convolver \notin names =>
          /\ Reaches(graph, newNodes) => Reaches(graph, newNodes)'
          /\ NotYetKnown => NotYetKnown'
    BY <1>1, <2>1, <2>2 DEF NodeUp, Reaches, NotYetKnown
  <2>5. CASE Convolver \in names
    <3>1. Silent'
      BY <2>3, <2>5 DEF Silent
    <3> QED
      BY <1>1, <3>1 DEF NodeUp, GateInv, LoudIsReached, OpenIsReached,
                        MutedWhileClosed, OpenGateGains, Silent
  <2>6. CASE Convolver \notin names
    BY <1>1, <2>3, <2>4, <2>6, OthersGate DEF NodeUp
  <2> QED
    BY <2>5, <2>6
<1>2. ASSUME NEW names \in Process, NodeDown(names)
      PROVE  GateInv'
  <2> DEFINE dead == {n \in up : n.name \in names}
  <2>1. up' = up \ dead /\ newNodes' = newNodes
    BY <1>2 DEF NodeDown
  <2>2. mult' = IF Convolver \in names THEN Silence ELSE mult
    BY <1>2 DEF NodeDown, ConfMult
  <2>3. Convolver \notin names =>
          /\ Reaches(graph, newNodes) => Reaches(graph, newNodes)'
          /\ NotYetKnown => NotYetKnown'
    BY <1>2, <2>1 DEF NodeDown, Reaches, NotYetKnown
  <2>4. CASE Convolver \in names
    <3>1. Silent'
      BY <2>2, <2>4 DEF Silent
    <3> QED
      BY <1>2, <3>1 DEF NodeDown, GateInv, LoudIsReached, OpenIsReached,
                        MutedWhileClosed, OpenGateGains, Silent
  <2>5. CASE Convolver \notin names
    BY <1>2, <2>2, <2>3, <2>5, OthersGate DEF NodeDown
  <2> QED
    BY <2>4, <2>5
<1>3. ASSUME NEW l \in [out : up, in : up], ForeignLink(l)
      PROVE  GateInv'
  <2>1. up' = up /\ newNodes' = newNodes
    BY <1>3 DEF ForeignLink, Announce
  <2> QED
    BY <1>3, <2>1, OthersGate DEF ForeignLink, Reaches, NotYetKnown
<1>4. ASSUME NEW l \in links, ForeignUnlink(l)
      PROVE  GateInv'
  BY <1>4, OthersGate DEF ForeignUnlink, Reaches, NotYetKnown
<1> QED
  BY <1>1, <1>2, <1>3, <1>4 DEF Environment

LEMMA CrashGate ==
  ASSUME GateInv, Crash, TypeOK'
  PROVE  GateInv'
  BY DEF Crash, Fresh, WatchdogNew, GateInv, LoudIsReached, OpenIsReached,
         MutedWhileClosed, OpenGateGains

LEMMA StartGate ==
  ASSUME GateInv, Start, TypeOK'
  PROVE  GateInv'
<1>1. NotYetKnown'
  BY DEF Start, Fresh, WatchdogNew, EmptyGraph, NotYetKnown, NamesIn
<1> QED
  BY <1>1 DEF Start, Fresh, WatchdogNew, GateInv, LoudIsReached, OpenIsReached,
              MutedWhileClosed, OpenGateGains

LEMMA NextGate ==
  ASSUME ForeignLevel = {}, GateInv, [Next]_vars
  PROVE  GateInv'
<1>1. TypeOK'
  BY NextType DEF GateInv
<1>2. CASE UNCHANGED vars
  BY <1>1, <1>2, OthersGate
     DEF vars, eventVars, gateVars, epochVars, venueVars, gmVars, Reaches, NotYetKnown
<1> QED
  BY <1>1, <1>2, OnGlobalGate, OnGlobalRemoveGate, OnGlobalPortGate, CommandGate,
     TimerGate, EnvironmentGate, CrashGate, StartGate DEF Next

LEMMA GateInvariant ==
  ASSUME ForeignLevel = {}
  PROVE  Spec => []GateInv
<1>1. GateInv /\ [Next]_vars => GateInv'
  BY NextGate
<1> QED
  BY <1>1, InitGate, PTL DEF Spec

-----------------------------------------------------------------------------
(* While the watchdog is latched and the gate closed, every gain is zero,  *)
(* for every routing table, set of venues and interleaving with the        *)
(* daemon's events.                                                        *)
THEOREM MutedWhileClosedHolds ==
  ASSUME ForeignLevel = {}
  PROVE  Spec => []MutedWhileClosed
<1>1. GateInv => MutedWhileClosed
  BY DEF GateInv
<1> QED
  BY <1>1, GateInvariant, PTL

(* Behind an open gate the gains are those of one venue, or the restored   *)
(* defaults, or all zero: never a mixture.                                 *)
THEOREM OpenGateGainsHolds ==
  ASSUME ForeignLevel = {}
  PROVE  Spec => []OpenGateGains
<1>1. GateInv => OpenGateGains
  BY DEF GateInv
<1> QED
  BY <1>1, GateInvariant, PTL

-----------------------------------------------------------------------------
(* An operator who unlatches before opening the gate.                      *)

LatchedIsClosed == watchdog.latched => ~gateOpen

LEMMA LatchedIsClosedStep ==
  ASSUME TypeOK, LatchedIsClosed, Next, OperatorWaits
  PROVE  LatchedIsClosed'
<1> USE DEF eventVars, epochVars, gateVars, venueVars, gmVars
<1>1. CASE gateOpen' /\ ~gateOpen
  <2>1. ~watchdog.latched /\ watchdog' = watchdog
    BY <1>1 DEF OperatorWaits, Next, OnGlobal, OnGlobalNode, OnGlobalLink,
         OnGlobalRemove, OnGlobalRemoveNode, OnGlobalRemoveLink, OnGlobalPort,
         RunReconcile, WatchdogCheck, CloseOnMute, Command, SetMode,
         CloseOnStandby, WatchdogUnlatch, SetVenue, OpenGate, CloseGate,
         AwaitSettled, Timer, CheckWaiters, GainIntegrityCheck, Environment,
         NodeUp, NodeDown, ForeignLink, ForeignUnlink, ForeignMult, Crash, Start, Fresh
  <2> QED
    BY <2>1 DEF LatchedIsClosed
<1>2. CASE gateOpen' => gateOpen
  <2>1. ASSUME NEW g, NEW unseenNodes, NEW unseenLinks,
               RunReconcile(g, unseenNodes, unseenLinks)
        PROVE  LatchedIsClosed'
    <3> DEFINE present == NamesIn(g) \intersect Monitored
    <3>1. watchdog \in WatchdogState
      BY DEF TypeOK
    <3>2. /\ watchdog' = Checked(watchdog, present)
          /\ gateOpen' = (gateOpen /\ ~Latches(watchdog, present))
      BY <2>1 DEF RunReconcile, WatchdogCheck, CloseOnMute
    <3>3. watchdog'.latched = (watchdog.latched \/ Latches(watchdog, present))
      BY <3>1, <3>2, CheckedLatches
    <3> QED
      BY <3>2, <3>3 DEF LatchedIsClosed
  <2>2. CASE OnGlobal \/ OnGlobalRemove \/ OnGlobalPort
    BY <2>1, <2>2 DEF OnGlobal, OnGlobalNode, OnGlobalLink, OnGlobalRemove,
         OnGlobalRemoveNode, OnGlobalRemoveLink, OnGlobalPort
  <2>3. CASE WatchdogUnlatch
    <3>1. watchdog \in WatchdogState /\ watchdog' = Unlatched(watchdog)
      BY <2>3 DEF WatchdogUnlatch, TypeOK
    <3>2. ~watchdog'.latched
      BY <3>1 DEF Unlatched, WatchdogState
    <3> QED
      BY <3>2 DEF LatchedIsClosed
  <2>4. CASE (Command /\ ~WatchdogUnlatch) \/ Timer \/ Environment
    <3>1. watchdog' = watchdog
      BY <2>4 DEF Command, SetMode, SetVenue, OpenGate, CloseGate, AwaitSettled,
           Timer, CheckWaiters, GainIntegrityCheck, Environment, NodeUp, NodeDown,
           ForeignLink, ForeignUnlink, ForeignMult
    <3> QED
      BY <1>2, <3>1 DEF LatchedIsClosed
  <2>5. CASE Crash \/ Start
    BY <2>5 DEF Crash, Start, Fresh, LatchedIsClosed
  <2> QED
    BY <2>2, <2>3, <2>4, <2>5 DEF Next
<1> QED
  BY <1>1, <1>2

(* Then a latched watchdog means a closed gate and silence: with open_gate *)
(* kept back, nothing else undoes the mute.                                *)
THEOREM LatchedIsMutedHolds ==
  ASSUME ForeignLevel = {}
  PROVE  DisciplinedSpec => []LatchedIsMuted
<1> DEFINE Inv == GateInv /\ LatchedIsClosed
<1>1. Init => Inv
  BY InitGate DEF Init, LatchedIsClosed, WatchdogNew
<1>2. Inv /\ [Next /\ OperatorWaits]_vars => Inv'
  <2>1. Inv /\ (Next /\ OperatorWaits) => Inv'
    BY NextGate, LatchedIsClosedStep DEF GateInv
  <2>2. Inv /\ UNCHANGED vars => Inv'
    BY NextGate DEF vars, gateVars, LatchedIsClosed
  <2> QED
    BY <2>1, <2>2
<1>3. Inv => LatchedIsMuted
  BY DEF GateInv, MutedWhileClosed, LatchedIsClosed, LatchedIsMuted
<1> QED
  BY <1>1, <1>2, <1>3, PTL DEF DisciplinedSpec

-----------------------------------------------------------------------------
(* GraphManager implements the abstract gate.                              *)

LEMMA RunReconcileContract ==
  ASSUME GateInv, running, NEW g, NEW unseenNodes, NEW unseenLinks,
         RunReconcile(g, unseenNodes, unseenLinks),
         Reaches(graph, newNodes) => Reaches(g, unseenNodes)
  PROVE  [Contract!Next]_(Contract!contract)
<1> DEFINE present == NamesIn(g) \intersect Monitored
<1>1. /\ WatchdogCheck(g, unseenNodes)
      /\ watchdog' = Checked(watchdog, present)
      /\ watchdog'.latched = (watchdog.latched \/ Latches(watchdog, present))
      /\ gateOpen' = (gateOpen /\ ~Latches(watchdog, present))
  BY CheckedLatches DEF RunReconcile, WatchdogCheck, CloseOnMute, GateInv, TypeOK
<1>2. CASE Latches(watchdog, present)
  <2>1. Silent'
    BY <1>1, <1>2, LatchingSilences DEF GateInv, Silent
  <2>2. ~watchdog.latched /\ watchdog'.latched = TRUE /\ gateOpen' = FALSE
    BY <1>1, <1>2 DEF Latches
  <2>3. Contract!Mute
    BY <2>1, <2>2 DEF Contract!Mute
  <2> QED
    BY <2>3 DEF Contract!Next
<1>3. CASE ~Latches(watchdog, present)
  <2>1. mult' = mult
    BY <1>1, <1>3 DEF WatchdogCheck, MuteGains, MutesGains
  <2>2. watchdog'.latched = watchdog.latched /\ gateOpen' = gateOpen
    BY <1>1, <1>3 DEF GateInv, TypeOK, WatchdogState
  <2> QED
    BY <2>1, <2>2 DEF Contract!contract, Silent
<1> QED
  BY <1>2, <1>3

LEMMA EventContract ==
  ASSUME GateInv, OnGlobal \/ OnGlobalRemove \/ OnGlobalPort
  PROVE  [Contract!Next]_(Contract!contract)
<1>1. graph \in Graph
  BY DEF GateInv, TypeOK
<1>2. ASSUME NEW n \in newNodes, OnGlobalNode(n)
      PROVE  [Contract!Next]_(Contract!contract)
  <2> DEFINE g == WithNode(graph, n)
  <2>1. Reaches(graph, newNodes) => Reaches(g, newNodes \ {n})
    BY <1>1 DEF WithNode, Graph, Reaches
  <2> HIDE DEF g
  <2>2. running /\ RunReconcile(g, newNodes \ {n}, newLinks)
    BY <1>2 DEF OnGlobalNode, g
  <2> QED
    BY <2>1, <2>2, RunReconcileContract
<1>3. ASSUME NEW n \in graph.nodes, OnGlobalRemoveNode(n)
      PROVE  [Contract!Next]_(Contract!contract)
  <2> DEFINE g == WithoutNode(graph, n)
  <2>1. n \notin up \ newNodes
    BY <1>3 DEF OnGlobalRemoveNode
  <2>2. Reaches(graph, newNodes) => Reaches(g, newNodes)
    BY <1>1, <2>1 DEF WithoutNode, Graph, Reaches
  <2> HIDE DEF g
  <2>3. running /\ RunReconcile(g, newNodes, newLinks)
    BY <1>3 DEF OnGlobalRemoveNode, g
  <2> QED
    BY <2>2, <2>3, RunReconcileContract
<1>4. ASSUME running, NEW g, NEW unseenLinks, g.nodes = graph.nodes,
             RunReconcile(g, newNodes, unseenLinks)
      PROVE  [Contract!Next]_(Contract!contract)
  <2>1. Reaches(graph, newNodes) => Reaches(g, newNodes)
    BY <1>4 DEF Reaches
  <2> QED
    BY <1>4, <2>1, RunReconcileContract
<1>5. \A l : /\ WithLink(graph, l).nodes = graph.nodes
             /\ WithoutLink(graph, l).nodes = graph.nodes
  BY <1>1 DEF WithLink, WithoutLink, Graph
<1>6. ASSUME NEW l \in newLinks, OnGlobalLink(l)
      PROVE  [Contract!Next]_(Contract!contract)
  BY <1>4, <1>5, <1>6 DEF OnGlobalLink
<1>7. ASSUME NEW l \in graph.links, OnGlobalRemoveLink(l)
      PROVE  [Contract!Next]_(Contract!contract)
  BY <1>4, <1>5, <1>7 DEF OnGlobalRemoveLink
<1>8. CASE OnGlobalPort
  BY <1>4, <1>8 DEF OnGlobalPort
<1> QED
  BY <1>2, <1>3, <1>6, <1>7, <1>8 DEF OnGlobal, OnGlobalRemove

(* Whatever closes the gate on GraphManager's side silences it. *)
LEMMA CloseContract ==
  ASSUME GateInv, SetGains(Silence), gateOpen' = FALSE, UNCHANGED watchdog
  PROVE  Contract!Close
<1>1. gateOpen => Silent'
  BY ClosingSilences DEF GateInv, Silent
<1>2. ~Silent' => ~Silent
  BY DEF SetGains, Silent
<1> QED
  BY <1>1, <1>2 DEF Contract!Close, GateInv, TypeOK

LEMMA CommandContract ==
  ASSUME GateInv, Command
  PROVE  [Contract!Next]_(Contract!contract)
<1> USE DEF eventVars, epochVars, gateVars, venueVars
<1>1. (~Silent') \in BOOLEAN
  BY DEF Silent
<1>2. ASSUME NEW m \in Mode, SetMode(m)
      PROVE  [Contract!Next]_(Contract!contract)
  <2>1. CASE UNCHANGED <<mult, gateOpen, watchdog>>
    BY <2>1 DEF Contract!contract, Silent
  <2>2. CASE SetGains(Silence) /\ gateOpen' = FALSE /\ UNCHANGED watchdog
    BY <2>2, CloseContract DEF Contract!Next
  <2> QED
    BY <1>2, <2>1, <2>2 DEF SetMode, CloseOnStandby
<1>3. CASE WatchdogUnlatch
  <2>1. watchdog.latched /\ gateOpen' = gateOpen
    BY <1>3 DEF WatchdogUnlatch
  <2>2. watchdog \in WatchdogState /\ watchdog' = Unlatched(watchdog)
    BY <1>3 DEF WatchdogUnlatch, GateInv, TypeOK
  <2>3. watchdog'.latched = FALSE
    BY <2>2 DEF Unlatched, WatchdogState
  <2>4. Contract!Unlatch
    BY <1>1, <2>1, <2>3 DEF Contract!Unlatch
  <2> QED
    BY <2>4 DEF Contract!Next
<1>4. ASSUME NEW v \in Venue, SetVenue(v)
      PROVE  [Contract!Next]_(Contract!contract)
  <2>1. gateOpen' = gateOpen /\ watchdog' = watchdog
    BY <1>4 DEF SetVenue
  <2>2. CASE gateOpen
    <3>1. Contract!Switch
      BY <1>1, <2>1, <2>2 DEF Contract!Switch
    <3> QED
      BY <3>1 DEF Contract!Next
  <2>3. CASE ~gateOpen
    <3>1. mult' = mult
      BY <1>4, <2>3 DEF SetVenue, HotSwitch
    <3> QED
      BY <2>1, <3>1 DEF Contract!contract, Silent
  <2> QED
    BY <2>2, <2>3
<1>5. CASE OpenGate
  <2>1. ~gateOpen /\ gateOpen' = TRUE /\ watchdog' = watchdog
    BY <1>5 DEF OpenGate
  <2>2. Contract!Open
    BY <1>1, <2>1 DEF Contract!Open
  <2> QED
    BY <2>2 DEF Contract!Next
<1>6. CASE CloseGate
  BY <1>6, CloseContract DEF CloseGate, Contract!Next
<1>7. ASSUME NEW e \in Since, AwaitSettled(e)
      PROVE  [Contract!Next]_(Contract!contract)
  BY <1>7 DEF AwaitSettled, Contract!contract, Silent
<1> QED
  BY <1>2, <1>3, <1>4, <1>5, <1>6, <1>7 DEF Command

LEMMA TimerContract ==
  ASSUME GateInv, Timer
  PROVE  [Contract!Next]_(Contract!contract)
<1> USE DEF eventVars, epochVars, gateVars, venueVars
<1>1. ASSUME NEW expired \in SUBSET waiters, CheckWaiters(expired)
      PROVE  [Contract!Next]_(Contract!contract)
  BY <1>1 DEF CheckWaiters, Contract!contract, Silent
<1>2. CASE GainIntegrityCheck
  BY <1>2, CloseContract DEF GainIntegrityCheck, Contract!Next
<1> QED
  BY <1>1, <1>2 DEF Timer

LEMMA EnvironmentContract ==
  ASSUME ForeignLevel = {}, GateInv, Environment
  PROVE  [Contract!Next]_(Contract!contract)
<1>1. UNCHANGED <<gateOpen, watchdog>>
  BY DEF Environment, NodeUp, NodeDown, ForeignLink, ForeignUnlink, ForeignMult, gmVars
<1>2. mult' = Silence \/ mult' = mult
  BY DEF Environment, NodeUp, NodeDown, ForeignLink, ForeignUnlink, ConfMult
<1>3. CASE mult' = Silence
  <2>1. Contract!Lose
    BY <1>1, <1>3 DEF Contract!Lose, Silent
  <2> QED
    BY <2>1 DEF Contract!Next
<1>4. CASE mult' = mult
  BY <1>1, <1>4 DEF Contract!contract, Silent
<1> QED
  BY <1>2, <1>3, <1>4

LEMMA RestartContract ==
  ASSUME GateInv, Crash \/ Start
  PROVE  [Contract!Next]_(Contract!contract)
<1>1. gateOpen' = FALSE /\ watchdog' = WatchdogNew /\ mult' = mult
  BY DEF Crash, Start, Fresh
<1>2. watchdog'.latched = FALSE
  BY <1>1 DEF WatchdogNew
<1>3. Contract!Restart
  BY <1>1, <1>2 DEF Contract!Restart, Silent
<1> QED
  BY <1>3 DEF Contract!Next

(* GraphManager's gate, watchdog and venue switch together implement the   *)
(* gate of GateContract: every step is one of its steps or a stutter.      *)
THEOREM KeepsContractHolds ==
  ASSUME ForeignLevel = {}
  PROVE  Spec => KeepsContract
<1>1. Init => Contract!Init
  BY DEF Init, Contract!Init, Silent, ConfMult, WatchdogNew
<1>2. GateInv /\ [Next]_vars => [Contract!Next]_(Contract!contract)
  <2> SUFFICES ASSUME GateInv, [Next]_vars
               PROVE  [Contract!Next]_(Contract!contract)
    OBVIOUS
  <2>1. CASE UNCHANGED vars
    BY <2>1 DEF vars, gateVars, Contract!contract, Silent
  <2> QED
    BY <2>1, EventContract, CommandContract, TimerContract, EnvironmentContract,
       RestartContract DEF Next
<1> QED
  BY <1>1, <1>2, GateInvariant, PTL DEF Spec, Contract!Spec, KeepsContract

================================================================================
