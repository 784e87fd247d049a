------------------------------ MODULE Reconcile ------------------------------
(***************************************************************************)
(* The pure half of GraphManager's session management: graph.rs,           *)
(* reconcile.rs and link_audit.rs.  Nothing here has state; every operator *)
(* is a function of the tracked graph `g` and of the operating mode.       *)
(*                                                                         *)
(* A tracked graph is a record [nodes, links].  A node is a PipeWire node  *)
(* under one of the ids it may get; a process that is restarted comes back *)
(* under another id or, as PipeWire recycles them, under the same one.  A  *)
(* node stands for itself and its ports and a link for the per-channel     *)
(* links between its two nodes, which the code handles alike.              *)
(***************************************************************************)

CONSTANTS
  Name,        (* node names the model knows of                             *)
  Mode,        (* operating modes                                           *)
  Table,       (* routing table: per mode a set of <<output, input>> names  *)
  StreamName,  (* names whose media.class starts with "Stream/"             *)
  ConvolverOut, (* "pi4audio-convolver-out"                                 *)
  Usb,         (* the USBStreamer playback node                             *)
  Id           (* ids that the nodes of one name may get                    *)

ASSUME TableAssumption == Table \in [Mode -> SUBSET (Name \X Name)]

ASSUME EndpointAssumption ==
  /\ ConvolverOut \in Name
  /\ Usb \in Name
  /\ ConvolverOut # Usb

Node  == [name : Name, id : Id]
Link  == [out : Node, in : Node]
Graph == [nodes : SUBSET Node, links : SUBSET Link]

EmptyGraph == [nodes |-> {}, links |-> {}]

NamesIn(g) == {n.name : n \in g.nodes}

-----------------------------------------------------------------------------
(* graph.rs: what one registry event does to the tracked graph.            *)

WithNode(g, n)    == [g EXCEPT !.nodes = @ \union {n}]
WithoutNode(g, n) == [g EXCEPT !.nodes = @ \ {n}]
WithLink(g, l)    == [g EXCEPT !.links = @ \union {l}]
WithoutLink(g, l) == [g EXCEPT !.links = @ \ {l}]

-----------------------------------------------------------------------------
(* reconcile.rs                                                            *)

(* Names that some entry of the routing table matches, in any mode. *)
KnownName == {a \in Name : \E m \in Mode : \E d \in Table[m] : a \in {d[1], d[2]}}

Known(g, n) == n \in g.nodes /\ n.name \in KnownName

(* F-164: a stream client that the routing table does not name. *)
ForeignStream(g, n) ==
  /\ n \in g.nodes
  /\ n.name \in StreamName
  /\ ~Known(g, n)

(* A slip: stream clients' links are owned like any other. *)
OwnedByEither(g, l) == Known(g, l.out) \/ Known(g, l.in)

Owned(g, l) ==
  /\ ~ForeignStream(g, l.out)
  /\ ~ForeignStream(g, l.in)
  /\ Known(g, l.out) \/ Known(g, l.in)

(* The table's links of mode m whose two endpoints are both in the graph; *)
(* an entry with a missing endpoint is skipped and only logged.           *)
Resolved(g, m) ==
  {l \in [out : g.nodes, in : g.nodes] : <<l.out.name, l.in.name>> \in Table[m]}

ToCreate(g, m)  == Resolved(g, m) \ g.links
ToDestroy(g, m) == {l \in g.links \ Resolved(g, m) : Owned(g, l)}

(* reconcile() returned no action *)
Matches(g, m) == ToCreate(g, m) = {} /\ ToDestroy(g, m) = {}

(* The graph once every returned action has taken effect. *)
Applied(g, m) ==
  [g EXCEPT !.links = (@ \union ToCreate(g, m)) \ ToDestroy(g, m)]

-----------------------------------------------------------------------------
(* link_audit.rs and the watchdog's list of links for its fallback mute.   *)

UsbLinks(g) == {l \in g.links : l.in \in g.nodes /\ l.in.name = Usb}

(* A slip: only nodes of the routing table are suspected. *)
BypassByKnown(g) ==
  {l \in UsbLinks(g) : Known(g, l.out) /\ l.out.name # ConvolverOut}

BypassLinks(g) ==
  {l \in UsbLinks(g) : l.out \in g.nodes /\ l.out.name # ConvolverOut}

=============================================================================
