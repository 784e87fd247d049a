----------------------------- MODULE ClientProofs -----------------------------
(***************************************************************************)
(* What the near-field program, the test page and the transfer function    *)
(* measurement may believe of the mode and the gate, however GraphManager, *)
(* the other clients, lost answers, interrupts and restarts interleave,    *)
(* and however often all that happens; what becomes of the events of the   *)
(* signal generator; and what the pads run.                                *)
(***************************************************************************)
EXTENDS MCClients, SequenceTheorems, TLAPS

Query ==
  {GetState} \union {SetMode(m) : m \in Mode}
    \union {[cmd |-> what] : what \in {"await_settled", "get_gate", "open_gate"}}

ReplyType == [cmd : Command, mode : Mode, venue : BOOLEAN, open : BOOLEAN]

Connection ==
  [open : BOOLEAN, sent : Seq(Query), got : Seq(ReplyType), call : Command \union {None}]

LeftBehind == [by : Client \union {None}, sent : Seq(Query) \ {<<>>}]

GmTypes ==
  /\ gmUp \in BOOLEAN
  /\ mode \in Mode
  /\ gateOpen \in BOOLEAN
  /\ venue \in BOOLEAN
  /\ conn \in [Client -> Connection]
  /\ late \subseteq LeftBehind
  /\ others \in [Client -> BOOLEAN]

ScriptTypes ==
  script \in [at : Trying \union Ending \union {"off"}, previous : Mode \union {None},
              left : Nat, peak : Nat, attempt : Nat, success : BOOLEAN,
              exit : {None, "0", "1", "2", "killed", "refused"}]

ToolTypes ==
  /\ tool \in [Route -> [at : Command \union {"off"}, target : Mode, ok : BOOLEAN,
                         open : BOOLEAN]]
  /\ tool["ensure"].target = "measurement"
  /\ ~tool["restore"].open

(* What c asked with its connection empty is under way, answered or lost.  *)
Quiet(c) == conn[c].sent = <<>> /\ conn[c].got = <<>>

Shut(c) == ~conn[c].open /\ Quiet(c) /\ Free(c)

OneAsked(c, q) == conn[c].sent = <<q>> /\ conn[c].got = <<>>

OneAnswered(c) == conn[c].sent = <<>> /\ Len(conn[c].got) = 1

Owned(c) == {s \in late : s.by = c}

Knows(c, m) == mode = m \/ others[c]

Unsent == \A c \in Client : ~conn[c].open => conn[c].sent = <<>>

-----------------------------------------------------------------------------

ScriptAsks ==
  /\ script.at \in {"off", "connect"} => Shut(Me)
  /\ script.at \in Trying \ {"connect"} /\ Free(Me) => Quiet(Me)
  /\ script.at \in {"gains", "calibrate", "sweep", "save", "restore"} => Free(Me)
  /\ script.at \in {"get_mode", "enter", "verify"} /\ ~Free(Me) =>
       \/ Quiet(Me)
       \/ OneAsked(Me, Request)
       \/ OneAnswered(Me) /\ (script.at = "verify" => Knows(Me, conn[Me].got[1].mode))

ScriptKnows ==
  /\ script.at \in {"gains", "calibrate", "sweep"} => Knows(Me, "measurement")
  /\ ~conn[Me].open => conn[Me].got = <<>> \/ ~gmUp \/ others[Me]
  /\ script.at = "set_back" /\ ~Free(Me) /\ conn[Me].open =>
       IF conn[Me].sent = <<>> THEN Knows(Me, RestoreMode)
       ELSE conn[Me].sent[Len(conn[Me].sent)] = SetMode(RestoreMode)

ScriptLeaves ==
  /\ script.at # "off" => Owned(Me) = {}
  /\ \A s, t \in Owned(Me) : s = t
  /\ script.at = "off" /\ script.exit \in {"0", "1"} =>
       /\ \A s \in Owned(Me) : s.sent[Len(s.sent)] = SetMode(RestoreMode)
       /\ gmUp /\ Owned(Me) = {} => Knows(Me, RestoreMode)

ScriptInv == ScriptAsks /\ ScriptKnows /\ ScriptLeaves

-----------------------------------------------------------------------------

ToolQuery(r) ==
  IF tool[r].at = "set_mode" THEN SetMode(tool[r].target) ELSE [cmd |-> tool[r].at]

(* What the answer that waits for r says is so.                            *)
TrueAnswer(r, reply) ==
  /\ tool[r].at = "get_state" => Knows(r, reply.mode)
  /\ tool[r].at = "set_mode" => Knows(r, tool[r].target)
  /\ r = "ensure" /\ tool[r].at \in {"get_gate", "open_gate"} /\ reply.open
       => gateOpen \/ others[r]

ToolAsks(r) ==
  /\ tool[r].at = "off" => Shut(r)
  /\ Free(r) => Quiet(r)
  /\ ~Free(r) => \/ Quiet(r)
                 \/ OneAsked(r, ToolQuery(r))
                 \/ OneAnswered(r) /\ TrueAnswer(r, conn[r].got[1])

ToolKnows(r) ==
  /\ tool[r].at \in {"await_settled", "get_gate", "open_gate"} => Knows(r, tool[r].target)
  /\ tool[r].at = "off" /\ tool[r].ok =>
       /\ Knows(r, tool[r].target)
       /\ tool[r].open => gateOpen \/ others[r]
  /\ tool[r].at # "off" => ~tool[r].open

ToolLeaves(r) ==
  /\ tool[r].at # "off" => Owned(r) = {}
  /\ tool[r].ok => \A s \in Owned(r) : \A i \in DOMAIN s.sent :
                     s.sent[i].cmd \notin {"get_state", "set_mode"}

ToolInv == \A r \in Route : ToolAsks(r) /\ ToolKnows(r) /\ ToolLeaves(r)

-----------------------------------------------------------------------------
(* Sequences and requests.                                                 *)

LEMMA TailIs ==
  ASSUME NEW S, NEW s \in Seq(S), s # << >>
  PROVE  /\ Head(s) \in S /\ Head(s) = s[1]
         /\ Tail(s) \in Seq(S)
         /\ Len(s) = 1 => Tail(s) = << >>
         /\ Len(s) # 1 => Tail(s) # << >> /\ Tail(s)[Len(Tail(s))] = s[Len(s)]
         /\ \A i \in DOMAIN Tail(s) : i + 1 \in DOMAIN s /\ Tail(s)[i] = s[i + 1]
<1>1. Head(s) \in S /\ Head(s) = s[1] /\ Tail(s) \in Seq(S)
  OBVIOUS
<1>2. Len(s) \in Nat \ {0} /\ Len(Tail(s)) = Len(s) - 1
  OBVIOUS
<1>3. \A i \in DOMAIN Tail(s) : i + 1 \in DOMAIN s /\ Tail(s)[i] = s[i + 1]
  OBVIOUS
<1>4. ASSUME Len(s) = 1 PROVE Tail(s) = << >>
  <2>1. Len(Tail(s)) = 0
    BY <1>2, <1>4
  <2> QED BY <1>1, <2>1, EmptySeq
<1>5. ASSUME Len(s) # 1 PROVE Tail(s) # << >> /\ Tail(s)[Len(Tail(s))] = s[Len(s)]
  <2>1. Len(Tail(s)) \in Nat \ {0} /\ DOMAIN Tail(s) = 1 .. Len(Tail(s))
    BY <1>1, <1>2, <1>5
  <2>2. Len(Tail(s)) \in DOMAIN Tail(s) /\ Len(Tail(s)) + 1 = Len(s)
    BY <1>2, <2>1
  <2>3. Tail(s) # << >>
    <3>1. Len(Tail(s)) # 0
      BY <2>1
    <3> QED BY <3>1, EmptySeq
  <2> QED BY <1>3, <2>2, <2>3
<1> QED BY <1>1, <1>3, <1>4, <1>5

LEMMA AppendIs ==
  ASSUME NEW S, NEW s \in Seq(S), NEW e \in S
  PROVE  /\ Append(s, e) \in Seq(S)
         /\ Append(s, e) # << >>
         /\ Append(s, e)[Len(Append(s, e))] = e
         /\ s = << >> => Append(s, e) = <<e>> /\ Len(Append(s, e)) = 1 /\ Append(s, e)[1] = e
<1>1. /\ Append(s, e) \in Seq(S)
      /\ Len(s) \in Nat /\ Len(Append(s, e)) = Len(s) + 1
      /\ Append(s, e)[Len(s) + 1] = e
  OBVIOUS
<1>2. Append(s, e) # << >>
  BY <1>1
<1>3. ASSUME s = << >> PROVE Append(s, e) = <<e>> /\ Len(Append(s, e)) = 1 /\ Append(s, e)[1] = e
  BY <1>3
<1> QED BY <1>1, <1>2, <1>3

LEMMA SingleIs ==
  ASSUME NEW e
  PROVE  /\ <<e>> # << >> /\ Head(<<e>>) = e /\ Tail(<<e>>) = << >>
         /\ Len(<<e>>) = 1 /\ <<e>>[1] = e /\ \A i \in DOMAIN <<e>> : <<e>>[i] = e
  OBVIOUS

LEMMA QueryIs ==
  ASSUME NEW q \in Query
  PROVE  /\ q.cmd \in Command
         /\ q.cmd = "set_mode" => q.mode \in Mode /\ q = SetMode(q.mode)
         /\ q.cmd = "get_state" => q = GetState
BY DEF Query, GetState, SetMode, Command, Mode

LEMMA QueriesAre ==
  /\ GetState \in Query /\ GetState.cmd = "get_state"
  /\ \A m \in Mode : SetMode(m) \in Query /\ SetMode(m).cmd = "set_mode" /\ SetMode(m).mode = m
  /\ \A what \in {"await_settled", "get_gate", "open_gate"} :
       [cmd |-> what] \in Query /\ [cmd |-> what].cmd = what
BY DEF Query, GetState, SetMode

LEMMA ClientsAre ==
  /\ Me \in Client /\ Me \notin Route /\ Route \subseteq Client
  /\ None \notin Client /\ None \notin Mode /\ None \notin Command
BY GmAssumption, NearfieldAssumption, TestToolAssumption DEF Me, Route

-----------------------------------------------------------------------------
(* What GraphManager does with one request.                                *)

LEMMA Executing ==
  ASSUME GmTypes, NEW q \in Query, Executed(q)
  PROVE  /\ mode' \in Mode
         /\ gateOpen' \in BOOLEAN
         /\ q.cmd = "set_mode" => mode' = q.mode
         /\ q.cmd # "set_mode" => mode' = mode
         /\ gateOpen => gateOpen' \/ mode' # mode
         /\ Reply(q) \in ReplyType
         /\ Reply(q).mode = mode /\ Reply(q).open = gateOpen'
<1>1. /\ q.cmd = "set_mode" => mode' = q.mode
      /\ q.cmd # "set_mode" => mode' = mode
      /\ mode' \in Mode
  BY QueryIs DEF Executed, GmTypes
<1>2. /\ gateOpen' \in BOOLEAN
      /\ gateOpen => gateOpen' \/ mode' # mode
  <2>1. CASE q.cmd = "set_mode" /\ q.mode = "standby" /\ mode # "standby"
    BY <1>1, <2>1 DEF Executed, GmTypes
  <2>2. CASE ~(q.cmd = "set_mode" /\ q.mode = "standby" /\ mode # "standby")
    BY <2>2 DEF Executed, GmTypes
  <2> QED BY <2>1, <2>2
<1>3. /\ Reply(q) \in ReplyType
      /\ Reply(q).mode = mode /\ Reply(q).open = gateOpen'
  BY <1>2, QueryIs DEF Reply, ReplyType, GmTypes
<1> QED BY <1>1, <1>2, <1>3

(* For everyone but c, the request of c is a step elsewhere.               *)
Elsewhere(d) ==
  /\ conn'[d] = conn[d]
  /\ {s \in late' : s.by = d} = Owned(d)
  /\ mode' = mode \/ others'[d]
  /\ gateOpen => gateOpen' \/ others'[d]
  /\ others[d] => others'[d]
  /\ gmUp' => gmUp

LEMMA Seeing ==
  ASSUME GmTypes, NEW q \in Query, Executed(q), NEW c, Seen(c, q)
  PROVE  /\ others' \in [Client -> BOOLEAN]
         /\ \A d \in Client \ {c} : others'[d] <=> (others[d] \/ mode' # mode)
         /\ c \in Client /\ q.cmd \in {"get_state", "set_mode"} => ~others'[c]
         /\ c \in Client /\ q.cmd \notin {"get_state", "set_mode"} => (others'[c] <=> others[c])
BY Executing DEF Seen, GmTypes

LEMMA ConnectionIs ==
  ASSUME GmTypes, NEW c \in Client
  PROVE  /\ conn[c] \in Connection
         /\ conn[c].sent \in Seq(Query)
         /\ conn[c].got \in Seq(ReplyType)
         /\ conn[c].open \in BOOLEAN
         /\ conn[c].call \in Command \union {None}
BY DEF GmTypes, Connection

(* The changes of one connection that the steps make, field by field.      *)
Changed(c, open, sent, got, call) ==
  /\ conn' \in [Client -> Connection]
  /\ conn'[c].open <=> open
  /\ conn'[c].sent = sent
  /\ conn'[c].got = got
  /\ conn'[c].call = call
  /\ \A d \in Client \ {c} : conn'[d] = conn[d]

LEMMA ConnectionWith ==
  ASSUME GmTypes, NEW c \in Client
  PROVE  /\ \A s \in Seq(Query), g \in Seq(ReplyType) :
              conn' = [conn EXCEPT ![c].sent = s, ![c].got = g]
                => Changed(c, conn[c].open, s, g, conn[c].call)
         /\ \A a \in Command \union {None}, g \in Seq(ReplyType) :
              conn' = [conn EXCEPT ![c].call = a, ![c].got = g]
                => Changed(c, conn[c].open, conn[c].sent, g, a)
         /\ \A a \in Command \union {None}, s \in Seq(Query) :
              conn' = [conn EXCEPT ![c].call = a, ![c].sent = s]
                => Changed(c, conn[c].open, s, conn[c].got, a)
         /\ \A g \in Seq(ReplyType) :
              conn' = [conn EXCEPT ![c].got = g]
                => Changed(c, conn[c].open, conn[c].sent, g, conn[c].call)
         /\ \A a \in Command \union {None} :
              conn' = [conn EXCEPT ![c].call = a]
                => Changed(c, conn[c].open, conn[c].sent, conn[c].got, a)
<1>1. conn \in [Client -> Connection]
  BY DEF GmTypes
<1>2. ASSUME NEW s \in Seq(Query), NEW g \in Seq(ReplyType),
             conn' = [conn EXCEPT ![c].sent = s, ![c].got = g]
      PROVE  Changed(c, conn[c].open, s, g, conn[c].call)
  BY <1>1, <1>2 DEF Connection, Changed
<1>3. ASSUME NEW a \in Command \union {None}, NEW g \in Seq(ReplyType),
             conn' = [conn EXCEPT ![c].call = a, ![c].got = g]
      PROVE  Changed(c, conn[c].open, conn[c].sent, g, a)
  BY <1>1, <1>3 DEF Connection, Changed
<1>4. ASSUME NEW a \in Command \union {None}, NEW s \in Seq(Query),
             conn' = [conn EXCEPT ![c].call = a, ![c].sent = s]
      PROVE  Changed(c, conn[c].open, s, conn[c].got, a)
  BY <1>1, <1>4 DEF Connection, Changed
<1>5. ASSUME NEW g \in Seq(ReplyType), conn' = [conn EXCEPT ![c].got = g]
      PROVE  Changed(c, conn[c].open, conn[c].sent, g, conn[c].call)
  BY <1>1, <1>5 DEF Connection, Changed
<1>6. ASSUME NEW a \in Command \union {None}, conn' = [conn EXCEPT ![c].call = a]
      PROVE  Changed(c, conn[c].open, conn[c].sent, conn[c].got, a)
  BY <1>1, <1>6 DEF Connection, Changed
<1> QED BY <1>2, <1>3, <1>4, <1>5, <1>6

LEMMA ClosedIs ==
  /\ Closed \in Connection
  /\ Closed.sent = << >> /\ Closed.got = << >> /\ Closed.call = None /\ ~Closed.open
BY DEF Closed, Connection

LEMMA LeftIs ==
  ASSUME NEW s \in LeftBehind
  PROVE  /\ s = [by |-> s.by, sent |-> s.sent]
         /\ s.sent \in Seq(Query) /\ s.sent # << >>
         /\ s.by \in Client \union {None}
BY DEF LeftBehind

-----------------------------------------------------------------------------
(* GraphManager's steps.                                                   *)

LEMMA ServeIs ==
  ASSUME GmTypes, NEW c \in Client, Serve(c)
  PROVE  /\ GmTypes'
         /\ \A d \in Client \ {c} : Elsewhere(d)
         /\ late' = late /\ gmUp' = gmUp /\ gmUp
         /\ conn[c].sent # << >>
         /\ Head(conn[c].sent) \in Query /\ Executed(Head(conn[c].sent))
         /\ Seen(c, Head(conn[c].sent))
         /\ \E reply \in ReplyType :
              /\ reply.mode = mode /\ reply.open = gateOpen'
              /\ Changed(c, conn[c].open, Tail(conn[c].sent), Append(conn[c].got, reply), conn[c].call)
<1> DEFINE q == Head(conn[c].sent)
<1>1. q \in Query /\ Tail(conn[c].sent) \in Seq(Query)
  BY ConnectionIs, TailIs DEF Serve
<1>2. Executed(q) /\ Seen(c, q)
  BY DEF Serve
<1>3. /\ Reply(q) \in ReplyType /\ Reply(q).mode = mode /\ Reply(q).open = gateOpen'
      /\ mode' \in Mode /\ gateOpen' \in BOOLEAN /\ (gateOpen => gateOpen' \/ mode' # mode)
  BY <1>1, <1>2, Executing
<1>4. Append(conn[c].got, Reply(q)) \in Seq(ReplyType)
  BY <1>3, ConnectionIs, AppendIs
<1>5. conn' = [conn EXCEPT ![c].sent = Tail(conn[c].sent), ![c].got = Append(conn[c].got, Reply(q))]
  BY DEF Serve, GmTypes
<1> HIDE DEF q
<1>6. Changed(c, conn[c].open, Tail(conn[c].sent), Append(conn[c].got, Reply(q)), conn[c].call)
  BY <1>1, <1>4, <1>5, ConnectionWith
<1>7. others' \in [Client -> BOOLEAN] /\ \A d \in Client \ {c} : others'[d] <=> (others[d] \/ mode' # mode)
  BY <1>1, <1>2, Seeing
<1>8. gmUp /\ UNCHANGED <<gmUp, venue, late>> /\ conn[c].sent # << >>
  BY DEF Serve
<1>9. conn' \in [Client -> Connection] /\ \A d \in Client \ {c} : conn'[d] = conn[d]
  BY <1>6 DEF Changed
<1>10. GmTypes'
  BY <1>3, <1>7, <1>8, <1>9 DEF GmTypes
<1>11. \A d \in Client \ {c} : Elsewhere(d)
  BY <1>3, <1>7, <1>8, <1>9 DEF Elsewhere, Owned
<1> QED BY <1>1, <1>2, <1>3, <1>6, <1>8, <1>10, <1>11 DEF q

LEMMA ServeLateIs ==
  ASSUME GmTypes, ServeLate
  PROVE  /\ GmTypes'
         /\ UNCHANGED <<conn, gmUp>>
         /\ \E s \in late :
              /\ s.sent # << >> /\ s.sent \in Seq(Query)
              /\ Head(s.sent) \in Query /\ Executed(Head(s.sent)) /\ Seen(s.by, Head(s.sent))
              /\ \A d \in Client \ {s.by} : Elsewhere(d)
              /\ Len(s.sent) = 1 => late' = late \ {s}
              /\ Len(s.sent) # 1 =>
                   late' = (late \ {s}) \union {[by |-> s.by, sent |-> Tail(s.sent)]}
<1>1. PICK s \in late :
        /\ Executed(Head(s.sent)) /\ Seen(s.by, Head(s.sent))
        /\ late' = (late \ {s}) \union
                     (IF Len(s.sent) = 1 THEN {} ELSE {[s EXCEPT !.sent = Tail(@)]})
        /\ UNCHANGED <<gmUp, venue, conn>>
  BY DEF ServeLate
<1>2. /\ s \in LeftBehind /\ s = [by |-> s.by, sent |-> s.sent] /\ s.by \in Client \union {None}
      /\ s.sent \in Seq(Query) /\ s.sent # << >>
      /\ Head(s.sent) \in Query /\ Tail(s.sent) \in Seq(Query)
  BY LeftIs, TailIs DEF GmTypes
<1>3. /\ mode' \in Mode /\ gateOpen' \in BOOLEAN /\ (gateOpen => gateOpen' \/ mode' # mode)
      /\ others' \in [Client -> BOOLEAN]
      /\ \A d \in Client \ {s.by} : others'[d] <=> (others[d] \/ mode' # mode)
  BY <1>1, <1>2, Executing, Seeing
<1>4. ASSUME Len(s.sent) = 1
      PROVE  late' = late \ {s} /\ late' \subseteq LeftBehind
                 /\ \A d \in Client \ {s.by} : {t \in late' : t.by = d} = Owned(d)
  BY <1>1, <1>2, <1>4 DEF GmTypes, Owned
<1>5. ASSUME Len(s.sent) # 1
      PROVE  /\ late' = (late \ {s}) \union {[by |-> s.by, sent |-> Tail(s.sent)]}
             /\ late' \subseteq LeftBehind
             /\ \A d \in Client \ {s.by} : {t \in late' : t.by = d} = Owned(d)
  <2> DEFINE t == [by |-> s.by, sent |-> Tail(s.sent)]
  <2>1. [s EXCEPT !.sent = Tail(@)] = t
    BY <1>2
  <2>2. late' = (late \ {s}) \union {t}
    BY <1>1, <1>5, <2>1
  <2>3. Tail(s.sent) # << >>
    BY <1>2, <1>5, TailIs
  <2>4. t \in LeftBehind /\ t.by = s.by
    BY <1>2, <2>3 DEF LeftBehind
  <2> HIDE DEF t
  <2>5. late' \subseteq LeftBehind /\ \A d \in Client \ {s.by} : {u \in late' : u.by = d} = Owned(d)
    BY <2>2, <2>4 DEF GmTypes, Owned
  <2> QED BY <2>2, <2>5 DEF t
<1>6. GmTypes'
  BY <1>1, <1>3, <1>4, <1>5 DEF GmTypes
<1>7. \A d \in Client \ {s.by} : Elsewhere(d)
  BY <1>1, <1>3, <1>4, <1>5 DEF Elsewhere
<1> QED BY <1>1, <1>2, <1>4, <1>5, <1>6, <1>7

LEMMA PassOverIs ==
  ASSUME GmTypes, NEW c \in Client, PassOver(c)
  PROVE  /\ GmTypes'
         /\ \A d \in Client \ {c} : Elsewhere(d)
         /\ UNCHANGED <<gmUp, mode, gateOpen, late, others>>
         /\ ~Free(c) /\ conn[c].got # << >>
         /\ Changed(c, conn[c].open, conn[c].sent, Tail(conn[c].got), conn[c].call)
<1>1. /\ UNCHANGED <<gmUp, mode, gateOpen, venue, late, others>>
      /\ ~Free(c) /\ conn[c].got # << >>
      /\ conn' = [conn EXCEPT ![c].got = Tail(conn[c].got)]
  BY DEF PassOver, GmTypes
<1>2. Tail(conn[c].got) \in Seq(ReplyType)
  BY <1>1, ConnectionIs, TailIs
<1>3. Changed(c, conn[c].open, conn[c].sent, Tail(conn[c].got), conn[c].call)
  BY <1>1, <1>2, ConnectionWith
<1>4. conn' \in [Client -> Connection] /\ \A d \in Client \ {c} : conn'[d] = conn[d]
  BY <1>3 DEF Changed
<1>5. GmTypes'
  BY <1>1, <1>4 DEF GmTypes
<1>6. \A d \in Client \ {c} : Elsewhere(d)
  BY <1>1, <1>4 DEF Elsewhere, Owned
<1> QED BY <1>1, <1>3, <1>5, <1>6

LEMMA GmEndsIs ==
  ASSUME GmTypes, GmEnds
  PROVE  /\ GmTypes'
         /\ UNCHANGED <<mode, gateOpen, others>>
         /\ ~gmUp' /\ late' = {}
         /\ \A c \in Client : /\ ~conn'[c].open
                             /\ conn'[c].sent = << >>
                             /\ conn'[c].got = conn[c].got
                             /\ conn'[c].call = conn[c].call
<1>1. /\ UNCHANGED <<mode, gateOpen, venue, others>> /\ gmUp' = FALSE /\ late' = {}
      /\ conn' = [c \in Client |-> [conn[c] EXCEPT !.open = FALSE, !.sent = << >>]]
  BY DEF GmEnds
<1>2. conn \in [Client -> Connection] /\ << >> \in Seq(Query)
  BY DEF GmTypes
<1>3. ASSUME NEW c \in Client
      PROVE  /\ ~conn'[c].open /\ conn'[c].sent = << >>
             /\ conn'[c].got = conn[c].got /\ conn'[c].call = conn[c].call
  BY <1>1, <1>2 DEF Connection
<1>4. conn' \in [Client -> Connection]
  BY <1>1, <1>2 DEF Connection
<1>5. GmTypes'
  BY <1>1, <1>4 DEF GmTypes
<1> QED BY <1>1, <1>3, <1>5

LEMMA GmStartsIs ==
  ASSUME GmTypes, GmStarts
  PROVE  /\ GmTypes'
         /\ UNCHANGED <<conn, late>>
         /\ \A c \in Client : others'[c]
BY DEF GmStarts, GmTypes, Mode

-----------------------------------------------------------------------------
(* Steps elsewhere keep what a program relies on.                          *)

LEMMA OwnedElsewhere ==
  ASSUME NEW d, Elsewhere(d)
  PROVE  Owned(d)' = Owned(d)
BY DEF Elsewhere, Owned

LEMMA ScriptElsewhere ==
  ASSUME ScriptInv, Elsewhere(Me), script' = script
  PROVE  ScriptInv'
<1> USE DEF Elsewhere, Knows, Quiet, Shut, Free, OneAsked, OneAnswered
<1>1. Owned(Me)' = Owned(Me)
  BY OwnedElsewhere
<1>2. Request' = Request /\ RestoreMode' = RestoreMode
  BY DEF Request, RestoreMode
<1>3. ScriptAsks'
  BY <1>2 DEF ScriptInv, ScriptAsks
<1>4. ScriptKnows'
  BY <1>2 DEF ScriptInv, ScriptKnows
<1>5. ScriptLeaves'
  BY <1>1, <1>2 DEF ScriptInv, ScriptLeaves
<1> QED BY <1>3, <1>4, <1>5 DEF ScriptInv

LEMMA ToolElsewhere ==
  ASSUME NEW r \in Route, ToolAsks(r), ToolKnows(r), ToolLeaves(r),
         Elsewhere(r), tool'[r] = tool[r]
  PROVE  ToolAsks(r)' /\ ToolKnows(r)' /\ ToolLeaves(r)'
<1> USE DEF Elsewhere, Knows, Quiet, Shut, Free, OneAsked, OneAnswered
<1>1. Owned(r)' = Owned(r)
  BY OwnedElsewhere
<1>2. ToolQuery(r)' = ToolQuery(r)
  BY DEF ToolQuery
<1>4. ToolAsks(r)'
  BY <1>2 DEF ToolAsks, TrueAnswer
<1>5. ToolKnows(r)'
  BY DEF ToolKnows
<1>6. ToolLeaves(r)'
  BY <1>1 DEF ToolLeaves
<1> QED BY <1>4, <1>5, <1>6

-----------------------------------------------------------------------------
(* GraphManager's steps keep what the programs rely on.                    *)

LEMMA GmStep_Unsent ==
  ASSUME GmTypes, Unsent, GmStep
  PROVE  Unsent'
<1>1. ASSUME NEW c \in Client, PassOver(c) PROVE Unsent'
  BY <1>1, PassOverIs DEF Unsent, Changed
<1>2. ASSUME NEW c \in Client, Serve(c) PROVE Unsent'
  BY <1>2, ServeIs DEF Unsent, Changed
<1>3. CASE ServeLate
  BY <1>3, ServeLateIs DEF Unsent
<1>4. CASE GmEnds
  BY <1>4, GmEndsIs DEF Unsent
<1>5. CASE GmStarts
  BY <1>5, GmStartsIs DEF Unsent
<1> QED BY <1>1, <1>2, <1>3, <1>4, <1>5 DEF GmStep

LEMMA GmStep_Types == GmTypes /\ GmStep => GmTypes'
BY PassOverIs, ServeIs, ServeLateIs, GmEndsIs, GmStartsIs DEF GmStep

LEMMA ScriptModes ==
  ASSUME ScriptTypes
  PROVE  /\ RestoreMode \in Mode
         /\ script.at \in {"get_mode", "enter", "verify", "set_back"} => Request \in Query
         /\ script.at = "verify" => Request = GetState
         /\ script.at = "set_back" => Request = SetMode(RestoreMode)
<1>1. RestoreMode \in Mode
  BY DEF ScriptTypes, RestoreMode, Mode
<1>2. /\ script.at \in {"get_mode", "verify"} => Request = GetState
      /\ script.at = "enter" => Request = SetMode("measurement")
      /\ script.at = "set_back" => Request = SetMode(RestoreMode)
  BY DEF Request
<1> QED BY <1>1, <1>2, QueriesAre DEF Mode

LEMMA GmStep_Script ==
  ASSUME GmTypes, ScriptTypes, Unsent, ScriptInv, GmStep, script' = script
  PROVE  ScriptInv'
<1> USE DEF Knows, Quiet, Shut, Free, OneAsked, OneAnswered
<1>0. Request' = Request /\ RestoreMode' = RestoreMode
  BY DEF Request, RestoreMode
<1>m. Me \in Client
  BY ClientsAre
<1>1. ASSUME PassOver(Me) PROVE ScriptInv'
  <2>1. /\ UNCHANGED <<gmUp, mode, gateOpen, late, others>>
        /\ ~Free(Me) /\ conn[Me].got # << >>
        /\ Changed(Me, conn[Me].open, conn[Me].sent, Tail(conn[Me].got), conn[Me].call)
    BY <1>1, <1>m, PassOverIs
  <2>2. Len(conn[Me].got) = 1 => Tail(conn[Me].got) = << >>
    BY <2>1, <1>m, ConnectionIs, TailIs
  <2>3. ScriptAsks'
    BY <1>0, <2>1, <2>2 DEF ScriptInv, ScriptAsks, Changed
  <2>4. ScriptKnows'
    BY <1>0, <2>1 DEF ScriptInv, ScriptKnows, Changed
  <2>5. ScriptLeaves'
    BY <1>0, <2>1 DEF ScriptInv, ScriptLeaves, Owned
  <2> QED BY <2>3, <2>4, <2>5 DEF ScriptInv
<1>2. ASSUME Serve(Me) PROVE ScriptInv'
  <2> DEFINE q == Head(conn[Me].sent)
  <2>1. PICK reply \in ReplyType :
          /\ reply.mode = mode
          /\ Changed(Me, conn[Me].open, Tail(conn[Me].sent), Append(conn[Me].got, reply), conn[Me].call)
    BY <1>2, <1>m, ServeIs
  <2>2. /\ late' = late /\ gmUp' = gmUp /\ conn[Me].sent # << >>
        /\ q \in Query /\ Executed(q) /\ Seen(Me, q)
    BY <1>2, <1>m, ServeIs
  <2>3. conn[Me].open
    BY <2>2, <1>m DEF Unsent
  <2>4. /\ q = conn[Me].sent[1]
        /\ Len(conn[Me].sent) = 1 => Tail(conn[Me].sent) = << >>
        /\ Len(conn[Me].sent) # 1 => /\ Tail(conn[Me].sent) # << >>
                                     /\ Tail(conn[Me].sent)[Len(Tail(conn[Me].sent))]
                                          = conn[Me].sent[Len(conn[Me].sent)]
    BY <2>2, <1>m, ConnectionIs, TailIs
  <2>5. /\ q.cmd = "set_mode" => mode' = q.mode
        /\ q.cmd # "set_mode" => mode' = mode
    BY <2>2, Executing
  <2>6. /\ script.at \in {"get_mode", "enter", "verify", "set_back", "restore"}
        /\ (script.at \notin {"restore", "set_back"} => ~Free(Me))
    BY <2>2 DEF ScriptInv, ScriptAsks, ScriptTypes, Trying, Ending
  <2> HIDE DEF q
  <2>7. ScriptAsks'
    <3>1. CASE script.at \in {"restore", "set_back"}
      BY <1>0, <2>1, <2>6, <3>1 DEF ScriptInv, ScriptAsks, Changed, Trying
    <3>2. CASE script.at \in {"get_mode", "enter", "verify"}
      <4>1. conn[Me].sent = <<Request>> /\ conn[Me].got = << >> /\ ~Free(Me)
        BY <2>2, <2>6, <3>2 DEF ScriptInv, ScriptAsks
      <4>2. q = Request /\ conn'[Me].sent = << >>
        BY <2>1, <2>4, <4>1, SingleIs DEF Changed
      <4>3. Len(conn'[Me].got) = 1 /\ conn'[Me].got[1] = reply /\ conn'[Me].call = conn[Me].call
        BY <2>1, <4>1, <1>m, ConnectionIs, AppendIs DEF Changed
      <4>4. script.at = "verify" => mode' = reply.mode
        BY <2>1, <2>5, <4>2, ScriptModes, QueriesAre
      <4> QED BY <1>0, <3>2, <4>1, <4>2, <4>3, <4>4 DEF ScriptInv, ScriptAsks
    <3> QED BY <2>6, <3>1, <3>2
  <2>8. ScriptKnows'
    <3>1. ASSUME script.at = "set_back", ~Free(Me)
          PROVE  IF conn'[Me].sent = << >> THEN mode' = RestoreMode
                 ELSE conn'[Me].sent[Len(conn'[Me].sent)] = SetMode(RestoreMode)
      <4>1. conn[Me].sent[Len(conn[Me].sent)] = SetMode(RestoreMode)
        BY <2>2, <2>3, <3>1 DEF ScriptInv, ScriptKnows
      <4>2. CASE Len(conn[Me].sent) = 1
        <5>1. q = SetMode(RestoreMode) /\ conn'[Me].sent = << >>
          BY <2>1, <2>4, <4>1, <4>2 DEF Changed
        <5> QED BY <2>5, <5>1, QueriesAre, ScriptModes
      <4>3. CASE Len(conn[Me].sent) # 1
        BY <2>1, <2>4, <4>1, <4>3 DEF Changed
      <4> QED BY <4>2, <4>3
    <3>2. conn'[Me].open /\ conn'[Me].call = conn[Me].call
      BY <2>1, <2>3 DEF Changed
    <3> QED BY <1>0, <2>6, <3>1, <3>2 DEF ScriptKnows
  <2>9. ScriptLeaves'
    BY <1>0, <2>1, <2>2, <2>6 DEF ScriptInv, ScriptLeaves, Owned
  <2> QED BY <2>7, <2>8, <2>9 DEF ScriptInv
<1>3. CASE ServeLate
  <2>1. PICK s \in late :
          /\ s.sent # << >> /\ s.sent \in Seq(Query)
          /\ Head(s.sent) \in Query /\ Executed(Head(s.sent)) /\ Seen(s.by, Head(s.sent))
          /\ \A d \in Client \ {s.by} : Elsewhere(d)
          /\ Len(s.sent) = 1 => late' = late \ {s}
          /\ Len(s.sent) # 1 => late' = (late \ {s}) \union {[by |-> s.by, sent |-> Tail(s.sent)]}
    BY <1>3, ServeLateIs
  <2>2. CASE s.by # Me
    BY <1>m, <2>1, <2>2, ScriptElsewhere
  <2>3. CASE s.by = Me
    <3> DEFINE q == Head(s.sent)
    <3>1. UNCHANGED <<conn, gmUp>>
      BY <1>3, ServeLateIs
    <3>2. script.at = "off" /\ Owned(Me) = {s}
      BY <2>3 DEF ScriptInv, ScriptLeaves, Owned
    <3>3. /\ Len(s.sent) = 1 => Owned(Me)' = {}
          /\ Len(s.sent) # 1 => \E t : t.sent = Tail(s.sent) /\ Owned(Me)' = {t}
      <4>1. CASE Len(s.sent) = 1
        BY <2>1, <3>2, <4>1 DEF Owned
      <4>2. CASE Len(s.sent) # 1
        <5> DEFINE t == [by |-> s.by, sent |-> Tail(s.sent)]
        <5>1. t.by = Me /\ t.sent = Tail(s.sent) /\ late' = (late \ {s}) \union {t}
          BY <2>1, <2>3, <4>2
        <5> HIDE DEF t
        <5>2. Owned(Me)' = {t}
          BY <3>2, <5>1 DEF Owned
        <5> QED BY <4>2, <5>1, <5>2
      <4> QED BY <4>1, <4>2
    <3>4. q = s.sent[1] /\ (Len(s.sent) # 1 => Tail(s.sent)[Len(Tail(s.sent))] = s.sent[Len(s.sent)])
      BY <2>1, TailIs
    <3>5. /\ q.cmd = "set_mode" => mode' = q.mode
      BY <2>1, Executing
    <3> HIDE DEF q
    <3>6. ScriptAsks' /\ ScriptKnows'
      BY <3>1, <3>2 DEF ScriptInv, ScriptAsks, ScriptKnows, Trying
    <3>7. ASSUME script.exit \in {"0", "1"}
          PROVE  /\ Len(s.sent) = 1 => mode' = RestoreMode
                 /\ Len(s.sent) # 1 => Tail(s.sent)[Len(Tail(s.sent))] = SetMode(RestoreMode)
      <4>1. s.sent[Len(s.sent)] = SetMode(RestoreMode)
        BY <3>2, <3>7 DEF ScriptInv, ScriptLeaves
      <4> QED BY <3>4, <3>5, <4>1, QueriesAre, ScriptModes
    <3>8. ScriptLeaves'
      <4>1. CASE Len(s.sent) = 1
        BY <1>0, <3>2, <3>3, <3>7, <4>1 DEF ScriptLeaves
      <4>2. CASE Len(s.sent) # 1
        BY <1>0, <3>2, <3>3, <3>7, <4>2 DEF ScriptLeaves
      <4> QED BY <4>1, <4>2
    <3> QED BY <3>6, <3>8 DEF ScriptInv
  <2> QED BY <2>2, <2>3
<1>4. CASE GmEnds
  <2>1. /\ UNCHANGED <<mode, gateOpen, others>> /\ ~gmUp' /\ late' = {}
        /\ ~conn'[Me].open /\ conn'[Me].sent = << >>
        /\ conn'[Me].got = conn[Me].got /\ conn'[Me].call = conn[Me].call
    BY <1>4, <1>m, GmEndsIs
  <2>2. ScriptAsks'
    BY <1>0, <2>1 DEF ScriptInv, ScriptAsks
  <2>3. ScriptKnows' /\ ScriptLeaves'
    BY <1>0, <2>1 DEF ScriptInv, ScriptKnows, ScriptLeaves, Owned
  <2> QED BY <2>2, <2>3 DEF ScriptInv
<1>5. CASE GmStarts
  <2>1. UNCHANGED <<conn, late>> /\ others'[Me]
    BY <1>5, <1>m, GmStartsIs
  <2>2. ScriptAsks'
    BY <1>0, <2>1 DEF ScriptInv, ScriptAsks
  <2>3. ScriptKnows' /\ ScriptLeaves'
    BY <1>0, <2>1 DEF ScriptInv, ScriptKnows, ScriptLeaves, Owned
  <2> QED BY <2>2, <2>3 DEF ScriptInv
<1>6. ASSUME NEW c \in Client \ {Me}, PassOver(c) \/ Serve(c) PROVE ScriptInv'
  BY <1>m, <1>6, PassOverIs, ServeIs, ScriptElsewhere
<1> QED BY <1>1, <1>2, <1>3, <1>4, <1>5, <1>6 DEF GmStep

ToolOK(r) == ToolAsks(r) /\ ToolKnows(r) /\ ToolLeaves(r)

LEMMA GmStep_Tool ==
  ASSUME GmTypes, ToolTypes, Unsent, NEW r \in Route, ToolOK(r), GmStep, tool' = tool
  PROVE  ToolOK(r)'
<1> USE DEF Knows, Quiet, Shut, Free, OneAsked, OneAnswered, ToolOK
<1>0. ToolQuery(r)' = ToolQuery(r)
  BY DEF ToolQuery
<1>m. r \in Client
  BY ClientsAre
<1>1. ASSUME PassOver(r) PROVE ToolOK(r)'
  <2>1. /\ UNCHANGED <<gmUp, mode, gateOpen, late, others>>
        /\ ~Free(r) /\ conn[r].got # << >>
        /\ Changed(r, conn[r].open, conn[r].sent, Tail(conn[r].got), conn[r].call)
    BY <1>1, <1>m, PassOverIs
  <2>2. Len(conn[r].got) = 1 => Tail(conn[r].got) = << >>
    BY <2>1, <1>m, ConnectionIs, TailIs
  <2>3. ToolAsks(r)'
    BY <1>0, <2>1, <2>2 DEF ToolAsks, Changed
  <2>4. ToolKnows(r)'
    BY <2>1 DEF ToolKnows
  <2>5. ToolLeaves(r)'
    BY <2>1 DEF ToolLeaves, Owned
  <2> QED BY <2>3, <2>4, <2>5
<1>2. ASSUME Serve(r) PROVE ToolOK(r)'
  <2> DEFINE q == Head(conn[r].sent)
  <2>1. PICK reply \in ReplyType :
          /\ reply.mode = mode /\ reply.open = gateOpen'
          /\ Changed(r, conn[r].open, Tail(conn[r].sent), Append(conn[r].got, reply), conn[r].call)
    BY <1>2, <1>m, ServeIs
  <2>2. /\ late' = late /\ conn[r].sent # << >>
        /\ q \in Query /\ Executed(q) /\ Seen(r, q)
    BY <1>2, <1>m, ServeIs
  <2>3. tool[r].at # "off" /\ ~Free(r) /\ conn[r].sent = <<ToolQuery(r)>> /\ conn[r].got = << >>
    BY <2>2 DEF ToolAsks
  <2>4. q = ToolQuery(r) /\ conn'[r].sent = << >>
    BY <2>1, <2>3, SingleIs DEF Changed
  <2>5. /\ Len(conn'[r].got) = 1 /\ conn'[r].got[1] = reply
        /\ conn'[r].call = conn[r].call
    BY <2>1, <2>3, <1>m, ConnectionIs, AppendIs DEF Changed
  <2>6. /\ q.cmd = "set_mode" => mode' = q.mode
        /\ q.cmd # "set_mode" => mode' = mode
        /\ gateOpen => gateOpen' \/ mode' # mode
        /\ q.cmd \in {"get_state", "set_mode"} => ~others'[r]
        /\ q.cmd \notin {"get_state", "set_mode"} => (others'[r] <=> others[r])
    BY <2>2, <1>m, Executing, Seeing
  <2>7. /\ q.cmd = tool[r].at
        /\ q.cmd = "set_mode" => q.mode = tool[r].target
    BY <2>3, <2>4 DEF ToolQuery, SetMode
  <2> HIDE DEF q
  <2>8. TrueAnswer(r, reply)'
    BY <2>1, <2>6, <2>7 DEF TrueAnswer
  <2>9. ToolAsks(r)'
    BY <2>3, <2>4, <2>5, <2>8 DEF ToolAsks
  <2>10. ToolKnows(r)'
    BY <2>3, <2>6, <2>7 DEF ToolKnows
  <2>11. ToolLeaves(r)'
    BY <2>2 DEF ToolLeaves, Owned
  <2> QED BY <2>9, <2>10, <2>11
<1>3. CASE ServeLate
  <2>1. PICK s \in late :
          /\ s.sent # << >> /\ s.sent \in Seq(Query)
          /\ Head(s.sent) \in Query /\ Executed(Head(s.sent)) /\ Seen(s.by, Head(s.sent))
          /\ \A d \in Client \ {s.by} : Elsewhere(d)
          /\ Len(s.sent) = 1 => late' = late \ {s}
          /\ Len(s.sent) # 1 => late' = (late \ {s}) \union {[by |-> s.by, sent |-> Tail(s.sent)]}
    BY <1>3, ServeLateIs
  <2>2. CASE s.by # r
    BY <1>m, <2>1, <2>2, ToolElsewhere
  <2>3. CASE s.by = r
    <3> DEFINE q == Head(s.sent)
    <3>1. UNCHANGED <<conn, gmUp>>
      BY <1>3, ServeLateIs
    <3>2. tool[r].at = "off" /\ s \in Owned(r)
      BY <2>3 DEF ToolLeaves, Owned
    <3>3. /\ q = s.sent[1] /\ 1 \in DOMAIN s.sent
          /\ \A i \in DOMAIN Tail(s.sent) : i + 1 \in DOMAIN s.sent /\ Tail(s.sent)[i] = s.sent[i + 1]
      BY <2>1, TailIs
    <3>4. ASSUME tool[r].ok
          PROVE  mode' = mode /\ (gateOpen => gateOpen') /\ (others'[r] <=> others[r])
      <4>1. q.cmd \notin {"get_state", "set_mode"}
        BY <3>2, <3>3, <3>4 DEF ToolLeaves
      <4> QED BY <1>m, <2>1, <2>3, <4>1, Executing, Seeing
    <3> HIDE DEF q
    <3>5. ToolAsks(r)'
      BY <3>1, <3>2 DEF ToolAsks
    <3>6. ToolKnows(r)'
      BY <3>2, <3>4 DEF ToolKnows
    <3>7. ASSUME NEW t \in late', t.by = r
          PROVE  t \in Owned(r) \/ t.sent = Tail(s.sent)
      <4>1. t \in late \/ t = [by |-> s.by, sent |-> Tail(s.sent)]
        BY <2>1, <3>7
      <4>2. t = [by |-> s.by, sent |-> Tail(s.sent)] => t.sent = Tail(s.sent)
        OBVIOUS
      <4> QED BY <3>7, <4>1, <4>2 DEF Owned
    <3>8. ToolLeaves(r)'
      <4>1. ASSUME tool[r].ok, NEW t \in late', t.by = r, NEW i \in DOMAIN t.sent
            PROVE  t.sent[i].cmd \notin {"get_state", "set_mode"}
        <5>1. CASE t \in Owned(r)
          BY <4>1, <5>1 DEF ToolLeaves
        <5>2. CASE t.sent = Tail(s.sent)
          BY <3>2, <3>3, <4>1, <5>2 DEF ToolLeaves
        <5> QED BY <3>7, <4>1, <5>1, <5>2
      <4> QED BY <3>2, <4>1 DEF ToolLeaves, Owned
    <3> QED BY <3>5, <3>6, <3>8
  <2> QED BY <2>2, <2>3
<1>4. CASE GmEnds
  <2>1. /\ UNCHANGED <<mode, gateOpen, others>> /\ ~gmUp' /\ late' = {}
        /\ ~conn'[r].open /\ conn'[r].sent = << >>
        /\ conn'[r].got = conn[r].got /\ conn'[r].call = conn[r].call
    BY <1>4, <1>m, GmEndsIs
  <2>2. ToolAsks(r)'
    BY <2>1 DEF ToolAsks, TrueAnswer
  <2>3. ToolKnows(r)' /\ ToolLeaves(r)'
    BY <2>1 DEF ToolKnows, ToolLeaves, Owned
  <2> QED BY <2>2, <2>3
<1>5. CASE GmStarts
  <2>1. UNCHANGED <<conn, late>> /\ others'[r]
    BY <1>5, <1>m, GmStartsIs
  <2>2. ToolAsks(r)'
    BY <1>0, <2>1 DEF ToolAsks, TrueAnswer
  <2>3. ToolKnows(r)' /\ ToolLeaves(r)'
    BY <2>1 DEF ToolKnows, ToolLeaves, Owned
  <2> QED BY <2>2, <2>3
<1>6. ASSUME NEW c \in Client \ {r}, PassOver(c) \/ Serve(c) PROVE ToolOK(r)'
  BY <1>m, <1>6, PassOverIs, ServeIs, ToolElsewhere
<1> QED BY <1>1, <1>2, <1>3, <1>4, <1>5, <1>6 DEF GmStep

-----------------------------------------------------------------------------
(* The near-field program's own steps.                                     *)

GmKept == UNCHANGED <<gmUp, mode, gateOpen, venue>>

LEMMA ScriptElsewhereForTool ==
  ASSUME GmKept, NEW r \in Route,
         conn'[r] = conn[r], others'[r] = others[r],
         {s \in late' : s.by = r} = Owned(r)
  PROVE  Elsewhere(r)
BY DEF Elsewhere, GmKept

LEMMA DisownedIs ==
  ASSUME GmTypes, NEW c \in Client, late' = Disowned(c)
  PROVE  /\ late' \subseteq LeftBehind
         /\ Owned(c)' = {}
         /\ \A d \in Client \ {c} : {s \in late' : s.by = d} = Owned(d)
<1>1. ASSUME NEW s \in late
      PROVE  /\ s \in LeftBehind
             /\ [s EXCEPT !.by = None] \in LeftBehind
             /\ [s EXCEPT !.by = None].by = None
  <2>1. s \in LeftBehind
    BY DEF GmTypes
  <2> QED BY <2>1 DEF LeftBehind
<1>2. ASSUME NEW t \in late'
      PROVE  t \in LeftBehind /\ t.by # c /\ (t.by # None => t \in late)
  <2>1. PICK s \in late : t = IF s.by = c THEN [s EXCEPT !.by = None] ELSE s
    BY DEF Disowned
  <2> QED BY <1>1, <2>1, ClientsAre
<1>3. ASSUME NEW s \in late, s.by # c PROVE s \in late'
  BY <1>3 DEF Disowned
<1>4. Owned(c)' = {} /\ late' \subseteq LeftBehind
  BY <1>2 DEF Owned
<1>5. ASSUME NEW d \in Client \ {c} PROVE {s \in late' : s.by = d} = Owned(d)
  BY <1>2, <1>3, ClientsAre DEF Owned
<1> QED BY <1>4, <1>5

LEMMA LeftAre ==
  ASSUME GmTypes, NEW c \in Client, late' = Left(c)
  PROVE  /\ late' \subseteq LeftBehind
         /\ \A d \in Client \ {c} : {s \in late' : s.by = d} = Owned(d)
         /\ conn[c].sent = << >> => Owned(c)' = Owned(c)
         /\ conn[c].sent # << >> =>
              \E t : t.sent = conn[c].sent /\ Owned(c)' = Owned(c) \union {t}
<1>1. CASE conn[c].sent = << >>
  BY <1>1 DEF Left, GmTypes, Owned
<1>2. CASE conn[c].sent # << >>
  <2> DEFINE t == [by |-> c, sent |-> conn[c].sent]
  <2>1. late' = late \union {t}
    BY <1>2 DEF Left
  <2>2. t.by = c /\ t.sent = conn[c].sent /\ t \in LeftBehind
    BY <1>2, ConnectionIs DEF LeftBehind
  <2> HIDE DEF t
  <2> QED BY <1>2, <2>1, <2>2 DEF GmTypes, Owned
<1> QED BY <1>1, <1>2

LEMMA GoIs ==
  ASSUME ScriptTypes, NEW at \in Trying \union Ending, Go(at)
  PROVE  /\ ScriptTypes'
         /\ script'.at = at /\ script'.previous = script.previous
         /\ script'.exit = script.exit /\ RestoreMode' = RestoreMode
BY NearfieldAssumption DEF Go, ScriptTypes, RestoreMode

LEMMA ExitIs ==
  ASSUME GmTypes, ScriptTypes, ScriptInv, Unsent,
         NEW code \in {"0", "1", "2", "killed"}, Exit(code), GmKept, others' = others,
         script.at # "off",
         code \in {"0", "1"} =>
           /\ script.at = "set_back" /\ ~Free(Me)
           /\ conn[Me].sent = << >> /\ gmUp => Knows(Me, RestoreMode)
  PROVE  /\ GmTypes' /\ ScriptTypes' /\ ScriptInv' /\ Unsent'
         /\ \A r \in Route : Elsewhere(r)
<1>1. /\ script'.at = "off" /\ script'.previous = script.previous /\ script'.exit = code
      /\ ScriptTypes' /\ RestoreMode' = RestoreMode
  BY NearfieldAssumption DEF Exit, Off, ScriptTypes, RestoreMode
<1>2. conn' \in [Client -> Connection] /\ conn'[Me] = Closed /\ \A d \in Client \ {Me} : conn'[d] = conn[d]
  BY ClientsAre, ClosedIs DEF Exit, GmTypes
<1>3. /\ late' \subseteq LeftBehind
      /\ \A d \in Client \ {Me} : {s \in late' : s.by = d} = Owned(d)
      /\ conn[Me].sent = << >> => Owned(Me)' = {}
      /\ conn[Me].sent # << >> => \E t : t.sent = conn[Me].sent /\ Owned(Me)' = {t}
  BY ClientsAre, LeftAre DEF Exit, ScriptInv, ScriptLeaves
<1>4. GmTypes' /\ Unsent'
  BY <1>2, <1>3, ClosedIs DEF GmTypes, GmKept, Unsent
<1>5. \A r \in Route : Elsewhere(r)
  BY <1>2, <1>3, ClientsAre, ScriptElsewhereForTool
<1>6. ScriptAsks' /\ ScriptKnows'
  BY <1>1, <1>2, ClosedIs DEF ScriptAsks, ScriptKnows, Shut, Quiet, Free, Trying
<1>7. ASSUME code \in {"0", "1"}, conn[Me].sent # << >>
      PROVE  conn[Me].sent[Len(conn[Me].sent)] = SetMode(RestoreMode)
  BY <1>7, ClientsAre DEF ScriptInv, ScriptKnows, Unsent
<1>8. ScriptLeaves'
  <2>1. CASE conn[Me].sent = << >>
    BY <1>1, <1>3, <2>1 DEF ScriptLeaves, Knows, GmKept
  <2>2. CASE conn[Me].sent # << >>
    BY <1>1, <1>3, <1>7, <2>2 DEF ScriptLeaves
  <2> QED BY <2>1, <2>2
<1> QED BY <1>1, <1>4, <1>5, <1>6, <1>8 DEF ScriptInv

(* A statement that asks nothing and waits for nothing.                    *)
LEMMA ScriptGoesOn ==
  ASSUME GmTypes, ScriptTypes, ScriptInv, Unsent, UNCHANGED gmVars, ScriptTypes',
         script.at \in {"gains", "calibrate", "sweep", "save", "restore"},
         script'.at \in {"calibrate", "sweep", "save", "restore", "set_back"},
         script'.at \in {"calibrate", "sweep"} => script.at \in {"gains", "calibrate", "sweep"},
         script'.at = "set_back" => script.at = "restore",
         script.at = "restore" => script'.at = "set_back",
         script'.previous = script.previous
  PROVE  /\ GmTypes' /\ ScriptInv' /\ Unsent'
         /\ \A r \in Route : Elsewhere(r)
<1>1. UNCHANGED <<gmUp, mode, gateOpen, venue, conn, late, others>>
  BY DEF gmVars
<1>2. GmTypes' /\ Unsent'
  BY <1>1 DEF GmTypes, Unsent
<1>3. \A r \in Route : Elsewhere(r)
  BY <1>1 DEF Elsewhere, Owned
<1>4. ScriptAsks'
  BY <1>1 DEF ScriptInv, ScriptAsks, Shut, Quiet, Free, Trying
<1>5. ScriptKnows'
  BY <1>1 DEF ScriptInv, ScriptAsks, ScriptKnows, Knows, Free
<1>6. ScriptLeaves'
  BY <1>1 DEF ScriptInv, ScriptLeaves, Owned
<1> QED BY <1>2, <1>3, <1>4, <1>5, <1>6 DEF ScriptInv

(* What every step of the near-field program must show.                    *)
ScriptShows ==
  /\ GmTypes' /\ ScriptTypes' /\ ScriptInv' /\ Unsent'
  /\ \A r \in Route : Elsewhere(r)

LEMMA ScriptStart_Shows ==
  ASSUME GmTypes, ScriptTypes, Unsent, ScriptInv, ScriptStart
  PROVE  ScriptShows
<1>1. /\ script.at = "off" /\ script'.at \in {"off", "connect"} /\ ScriptTypes'
      /\ script'.exit \in {None, "refused"}
  <2>1. /\ script.at = "off"
        /\ script' = [Off(None) EXCEPT !.at = "connect"] \/ script' = Off("refused")
    BY DEF ScriptStart
  <2>2. CASE script' = Off("refused")
    BY <2>1, <2>2, NearfieldAssumption DEF Off, ScriptTypes
  <2>3. CASE script' = [Off(None) EXCEPT !.at = "connect"]
    <3>1. script' = [at |-> "connect", previous |-> None, left |-> Blocks, peak |-> 0,
                     attempt |-> 1, success |-> FALSE, exit |-> None]
      BY <2>3 DEF Off
    <3> QED BY <2>1, <3>1, NearfieldAssumption DEF ScriptTypes, Trying
  <2> QED BY <2>1, <2>2, <2>3
<1>2. /\ UNCHANGED <<gmUp, mode, gateOpen, venue, conn>>
      /\ others' = [others EXCEPT ![Me] = FALSE]
      /\ late' = Disowned(Me)
  BY DEF ScriptStart
<1>3. /\ late' \subseteq LeftBehind /\ Owned(Me)' = {}
      /\ \A d \in Client \ {Me} : {s \in late' : s.by = d} = Owned(d)
  BY <1>2, ClientsAre, DisownedIs
<1>4. others' \in [Client -> BOOLEAN] /\ \A d \in Client \ {Me} : others'[d] = others[d]
  BY <1>2 DEF GmTypes
<1>5. GmTypes' /\ Unsent'
  BY <1>2, <1>3, <1>4 DEF GmTypes, Unsent
<1>6. \A r \in Route : Elsewhere(r)
  BY <1>2, <1>3, <1>4, ClientsAre, ScriptElsewhereForTool DEF GmKept
<1>7. ScriptAsks'
  BY <1>1, <1>2 DEF ScriptInv, ScriptAsks, Shut, Quiet, Free, Trying
<1>8. ScriptKnows'
  BY <1>1, <1>2 DEF ScriptInv, ScriptAsks, ScriptKnows, Shut, Quiet
<1>9. ScriptLeaves'
  <2>1. script'.exit \notin {"0", "1"}
    BY <1>1, NearfieldAssumption
  <2> QED BY <1>3, <2>1 DEF ScriptLeaves
<1> QED BY <1>1, <1>5, <1>6, <1>7, <1>8, <1>9 DEF ScriptInv, ScriptShows

LEMMA ScriptConnect_Shows ==
  ASSUME GmTypes, ScriptTypes, Unsent, ScriptInv, ScriptConnect
  PROVE  ScriptShows
<1>1. /\ UNCHANGED <<gmUp, mode, gateOpen, venue, late, others>>
      /\ script.at = "connect" /\ Shut(Me)
  BY DEF ScriptConnect, ScriptInv, ScriptAsks
<1>2. ScriptTypes' /\ script'.at \in {"get_mode", "restore"}
      /\ (script'.at = "restore" => conn' = conn)
      /\ (script'.at = "get_mode" => conn' = Connected(Me))
  BY GoIs DEF ScriptConnect, Trying, Ending
<1>3. /\ conn' \in [Client -> Connection]
      /\ \A d \in Client \ {Me} : conn'[d] = conn[d]
      /\ conn'[Me].sent = << >> /\ conn'[Me].got = << >> /\ conn'[Me].call = None
  <2>1. CASE conn' = conn
    BY <1>1, <2>1 DEF GmTypes, Shut, Quiet, Free
  <2>2. CASE conn' = Connected(Me)
    <3> DEFINE k == [Closed EXCEPT !.open = TRUE]
    <3>1. k \in Connection
      BY ClosedIs DEF Connection
    <3>2. k.sent = << >> /\ k.got = << >> /\ k.call = None
      BY ClosedIs DEF Connection
    <3>3. conn' = [conn EXCEPT ![Me] = k]
      BY <2>2 DEF Connected
    <3> HIDE DEF k
    <3> QED BY <3>1, <3>2, <3>3, ClientsAre DEF GmTypes
  <2> QED BY <1>2, <2>1, <2>2
<1>4. GmTypes' /\ Unsent'
  BY <1>1, <1>3 DEF GmTypes, Unsent
<1>5. \A r \in Route : Elsewhere(r)
  BY <1>1, <1>3, ClientsAre DEF Elsewhere, Owned
<1>6. ScriptAsks'
  BY <1>2, <1>3 DEF ScriptAsks, Quiet, Free, Trying
<1>7. ScriptKnows' /\ ScriptLeaves'
  BY <1>1, <1>2, <1>3 DEF ScriptInv, ScriptKnows, ScriptLeaves, Owned
<1> QED BY <1>2, <1>4, <1>5, <1>6, <1>7 DEF ScriptInv, ScriptShows

LEMMA AskingIs ==
  ASSUME GmTypes, NEW c \in Client, NEW q \in Query, conn' = Asking(c, q)
  PROVE  Changed(c, conn[c].open,
                 IF conn[c].open THEN Append(conn[c].sent, q) ELSE conn[c].sent,
                 conn[c].got, q.cmd)
<1> DEFINE s == IF conn[c].open THEN Append(conn[c].sent, q) ELSE conn[c].sent
<1>1. s \in Seq(Query) /\ q.cmd \in Command
  BY ConnectionIs, AppendIs, QueryIs
<1>2. conn' = [conn EXCEPT ![c].call = q.cmd, ![c].sent = s]
  BY DEF Asking, GmTypes
<1> HIDE DEF s
<1>3. Changed(c, conn[c].open, s, conn[c].got, q.cmd)
  BY <1>1, <1>2, ConnectionWith
<1> QED BY <1>3 DEF s

LEMMA TakenIs ==
  ASSUME GmTypes, NEW c \in Client, conn[c].got # << >>, conn' = Taken(c)
  PROVE  Changed(c, conn[c].open, conn[c].sent, Tail(conn[c].got), None)
<1>1. Tail(conn[c].got) \in Seq(ReplyType)
  BY ConnectionIs, TailIs
<1>2. conn' = [conn EXCEPT ![c].call = None, ![c].got = Tail(conn[c].got)]
  BY DEF Taken, GmTypes
<1> QED BY <1>1, <1>2, ConnectionWith

LEMMA GivenUpIs ==
  ASSUME GmTypes, NEW c \in Client, conn' = GivenUp(c)
  PROVE  Changed(c, conn[c].open, conn[c].sent, conn[c].got, None)
BY ConnectionWith DEF GivenUp

LEMMA ScriptAsk_Shows ==
  ASSUME GmTypes, ScriptTypes, Unsent, ScriptInv, ScriptAsk
  PROVE  ScriptShows
<1> DEFINE s == IF conn[Me].open THEN Append(conn[Me].sent, Request) ELSE conn[Me].sent
<1>1. /\ UNCHANGED <<script, gmUp, mode, gateOpen, venue, late, others>>
      /\ script.at \in {"get_mode", "enter", "verify", "set_back"} /\ Free(Me)
  BY DEF ScriptAsk, scriptVars
<1>2. Request \in Query /\ Me \in Client /\ Request.cmd # None
  BY <1>1, ScriptModes, QueryIs, ClientsAre
<1>3. Changed(Me, conn[Me].open, s, conn[Me].got, Request.cmd)
  BY <1>2, AskingIs DEF ScriptAsk
<1>4. /\ ~conn[Me].open => s = conn[Me].sent
      /\ conn[Me].open => s # << >> /\ s[Len(s)] = Request
      /\ conn[Me].open /\ conn[Me].sent = << >> => s = <<Request>>
  BY <1>2, ConnectionIs, AppendIs
<1> HIDE DEF s
<1>5. GmTypes' /\ ScriptTypes' /\ Unsent'
  BY <1>1, <1>3, <1>4 DEF Changed, GmTypes, ScriptTypes, Unsent
<1>6. \A r \in Route : Elsewhere(r)
  BY <1>1, <1>3, ClientsAre DEF Elsewhere, Owned, Changed
<1>7. Request' = Request /\ RestoreMode' = RestoreMode
  BY <1>1 DEF Request, RestoreMode
<1>8. conn'[Me].call = Request.cmd /\ conn'[Me].sent = s /\ conn'[Me].got = conn[Me].got
      /\ (conn'[Me].open <=> conn[Me].open)
  BY <1>3 DEF Changed
<1>9. ScriptAsks'
  BY <1>1, <1>2, <1>4, <1>7, <1>8 DEF ScriptInv, ScriptAsks, Quiet, Free, OneAsked, Trying
<1>10. ScriptKnows'
  BY <1>1, <1>4, <1>7, <1>8, ScriptModes DEF ScriptInv, ScriptKnows
<1>11. ScriptLeaves'
  BY <1>1, <1>7 DEF ScriptInv, ScriptLeaves, Owned
<1> QED BY <1>5, <1>6, <1>9, <1>10, <1>11 DEF ScriptInv, ScriptShows

(* The answer to get_mode, set_mode and verify; the next statement may ask. *)
LEMMA ScriptProceeds ==
  ASSUME GmTypes, ScriptTypes, Unsent, ScriptInv, GmKept, UNCHANGED <<late, others>>,
         ScriptTypes', ~Free(Me), Answered(Me), conn' = Taken(Me),
         script.at \in {"get_mode", "enter", "verify"},
         script'.at \in {"enter", "verify", "gains", "restore"},
         script'.at \in {"gains", "restore"} => script.at = "verify",
         script'.at = "gains" => Answer(Me).mode = "measurement"
  PROVE  ScriptShows
<1>1. /\ Me \in Client /\ conn[Me].got # << >>
      /\ conn[Me].sent = << >> /\ Len(conn[Me].got) = 1
      /\ script.at = "verify" => Knows(Me, conn[Me].got[1].mode)
  BY ClientsAre DEF Answered, ScriptInv, ScriptAsks, Quiet, OneAsked, OneAnswered
<1>2. /\ Changed(Me, conn[Me].open, conn[Me].sent, Tail(conn[Me].got), None)
      /\ Tail(conn[Me].got) = << >> /\ Answer(Me) = conn[Me].got[1]
  BY <1>1, TakenIs, ConnectionIs, TailIs DEF Answer
<1>3. GmTypes' /\ Unsent'
  BY <1>1, <1>2 DEF Changed, GmTypes, Unsent, GmKept
<1>4. \A r \in Route : Elsewhere(r)
  BY <1>2, ClientsAre DEF Elsewhere, Owned, Changed, GmKept
<1>5. conn'[Me].sent = << >> /\ conn'[Me].got = << >> /\ conn'[Me].call = None
  BY <1>1, <1>2 DEF Changed
<1>6. ScriptAsks'
  BY <1>5 DEF ScriptAsks, Quiet, Free, Trying
<1>7. ScriptKnows'
  BY <1>1, <1>2, <1>5 DEF ScriptKnows, Knows, GmKept
<1>8. ScriptLeaves'
  BY DEF ScriptInv, ScriptLeaves, Owned
<1> QED BY <1>3, <1>4, <1>6, <1>7, <1>8 DEF ScriptInv, ScriptShows

(* An exception or an interrupt.                                           *)
LEMMA ScriptRaises ==
  ASSUME GmTypes, ScriptTypes, Unsent, ScriptInv, GmKept, UNCHANGED <<late, others>>,
         script.at \in Trying, Go("restore"), conn' = GivenUp(Me)
  PROVE  ScriptShows
<1>1. ScriptTypes' /\ script'.at = "restore"
  BY GoIs DEF Ending
<1>2. Changed(Me, conn[Me].open, conn[Me].sent, conn[Me].got, None)
  BY ClientsAre, GivenUpIs
<1>3. GmTypes' /\ Unsent'
  BY <1>2 DEF Changed, GmTypes, Unsent, GmKept
<1>4. \A r \in Route : Elsewhere(r)
  BY <1>2, ClientsAre DEF Elsewhere, Owned, Changed, GmKept
<1>5. ScriptAsks'
  BY <1>1, <1>2 DEF ScriptAsks, Free, Trying, Changed
<1>6. ScriptKnows'
  BY <1>1, <1>2 DEF ScriptInv, ScriptKnows, Changed, GmKept
<1>7. ScriptLeaves'
  BY <1>1 DEF ScriptInv, ScriptLeaves, Owned, Trying
<1> QED BY <1>1, <1>3, <1>4, <1>5, <1>6, <1>7 DEF ScriptInv, ScriptShows

LEMMA ScriptTakesAnswer_Shows ==
  ASSUME GmTypes, ScriptTypes, Unsent, ScriptInv, ScriptTakesAnswer
  PROVE  ScriptShows
<1>1. /\ ~Free(Me) /\ Answered(Me) /\ UNCHANGED <<gmUp, mode, gateOpen, venue, others>>
      /\ \/ (ModeKnown \/ Entered \/ Verified) /\ conn' = Taken(Me) /\ late' = late
         \/ script.at = "set_back" /\ Exit(ExitCode)
  BY DEF ScriptTakesAnswer
<1>2. GmKept
  BY <1>1 DEF GmKept
<1>3. CASE ModeKnown /\ conn' = Taken(Me) /\ late' = late
  <2>1. Answer(Me).mode \in Mode
    <3>1. Head(conn[Me].got) \in ReplyType
      BY <1>1, ClientsAre, ConnectionIs, TailIs DEF Answered
    <3> QED BY <3>1 DEF Answer, ReplyType
  <2>2. script.at = "get_mode" /\ script'.at = "enter" /\ ScriptTypes'
    BY <1>3, <2>1 DEF ModeKnown, ScriptTypes, Trying
  <2> QED BY <1>1, <1>2, <1>3, <2>2, ScriptProceeds
<1>4. CASE Entered /\ conn' = Taken(Me) /\ late' = late
  <2>1. script.at = "enter" /\ script'.at = "verify" /\ ScriptTypes'
    BY <1>4, GoIs DEF Entered, Trying
  <2> QED BY <1>1, <1>2, <1>4, <2>1, ScriptProceeds
<1>5. CASE Verified /\ conn' = Taken(Me) /\ late' = late
  <2>1. PICK at \in {"gains", "restore"} :
          /\ script.at = "verify" /\ Go(at)
          /\ at = "gains" => Answer(Me).mode = "measurement"
    BY <1>5 DEF Verified
  <2>2. script'.at = at /\ ScriptTypes'
    BY <2>1, GoIs DEF Trying, Ending
  <2> QED BY <1>1, <1>2, <1>5, <2>1, <2>2, ScriptProceeds
<1>6. CASE script.at = "set_back" /\ Exit(ExitCode)
  <2>1. ExitCode \in {"0", "1"}
    BY DEF ExitCode
  <2>2. ASSUME conn[Me].sent = << >>, gmUp PROVE Knows(Me, RestoreMode)
    <3>1. conn[Me].got # << >>
      BY <1>1 DEF Answered
    <3>2. CASE conn[Me].open
      BY <1>1, <1>6, <2>2, <3>2 DEF ScriptInv, ScriptKnows
    <3>3. CASE ~conn[Me].open
      BY <2>2, <3>1, <3>3 DEF ScriptInv, ScriptKnows, Knows
    <3> QED BY <3>2, <3>3
  <2> QED BY <1>1, <1>2, <1>6, <2>1, <2>2, ExitIs DEF ScriptShows
<1> QED BY <1>1, <1>3, <1>4, <1>5, <1>6

LEMMA ScriptGivesUp_Shows ==
  ASSUME GmTypes, ScriptTypes, Unsent, ScriptInv, ScriptGivesUp
  PROVE  ScriptShows
<1>1. ~Free(Me) /\ GmKept /\ others' = others
  BY DEF ScriptGivesUp, GmKept
<1>2. script.at # "off"
  BY <1>1 DEF ScriptInv, ScriptAsks, Shut
<1>3. CASE script.at = "set_back"
  BY <1>1, <1>2, <1>3, NearfieldAssumption, ExitIs DEF ScriptGivesUp, ScriptShows
<1>4. CASE script.at # "set_back"
  <2>1. script.at \in Trying
    BY <1>1, <1>2, <1>4 DEF ScriptInv, ScriptAsks, ScriptTypes, Ending
  <2> QED BY <1>1, <1>4, <2>1, ScriptRaises DEF ScriptGivesUp
<1> QED BY <1>3, <1>4

LEMMA ScriptPlays_Shows ==
  ASSUME GmTypes, ScriptTypes, Unsent, ScriptInv,
         SetGains \/ Calibrate \/ Sweep \/ Save \/ Restore
  PROVE  ScriptShows
<1>1. CASE SetGains
  <2>1. PICK at \in {"calibrate", "sweep"} : script.at = "gains" /\ Go(at) /\ UNCHANGED gmVars
    BY <1>1 DEF SetGains
  <2> QED BY <2>1, GoIs, ScriptGoesOn DEF Trying, ScriptShows
<1>2. CASE Calibrate
  <2>1. /\ script.at = "calibrate" /\ UNCHANGED gmVars
        /\ ScriptTypes' /\ script'.at \in {"calibrate", "sweep", "restore"}
        /\ script'.previous = script.previous
    <3>1. PICK peak \in 1..3 :
            LET loudest == IF peak > script.peak THEN peak ELSE script.peak IN
            IF script.left > 1
              THEN script' = [script EXCEPT !.left = @ - 1, !.peak = loudest]
              ELSE Go(IF loudest = 2 THEN "sweep" ELSE "restore")
      BY <1>2 DEF Calibrate
    <3>2. CASE script.left > 1
      <4>1. PICK loudest \in Nat : script' = [script EXCEPT !.left = script.left - 1, !.peak = loudest]
        <5> DEFINE loudest == IF peak > script.peak THEN peak ELSE script.peak
        <5>1. loudest \in Nat
          BY DEF ScriptTypes
        <5>2. script' = [script EXCEPT !.left = script.left - 1, !.peak = loudest]
          BY <3>1, <3>2
        <5> QED BY <5>1, <5>2
      <4>2. script.left - 1 \in Nat /\ script.at = "calibrate" /\ UNCHANGED gmVars
        BY <1>2, <3>2 DEF Calibrate, ScriptTypes
      <4> QED BY <4>1, <4>2 DEF ScriptTypes
    <3>3. CASE ~(script.left > 1)
      BY <1>2, <3>1, <3>3, GoIs DEF Calibrate, Trying, Ending
    <3> QED BY <3>2, <3>3, <1>2 DEF Calibrate
  <2> QED BY <2>1, ScriptGoesOn DEF ScriptShows
<1>3. CASE Sweep
  <2>1. /\ script.at = "sweep" /\ UNCHANGED gmVars
        /\ \/ script' = [script EXCEPT !.attempt = @ + 1]
           \/ Go("save")
           \/ Go("restore")
    BY <1>3 DEF Sweep
  <2>2. /\ ScriptTypes' /\ script'.at \in {"sweep", "save", "restore"}
        /\ script'.previous = script.previous
    <3>1. CASE script' = [script EXCEPT !.attempt = @ + 1]
      BY <2>1, <3>1 DEF ScriptTypes
    <3> QED BY <2>1, <3>1, GoIs DEF Trying, Ending
  <2> QED BY <2>1, <2>2, ScriptGoesOn DEF ScriptShows
<1>4. CASE Save
  <2>1. /\ script.at = "save" /\ UNCHANGED gmVars /\ ScriptTypes'
        /\ script'.at = "restore" /\ script'.previous = script.previous
    BY <1>4 DEF Save, ScriptTypes, Ending
  <2> QED BY <2>1, ScriptGoesOn DEF ScriptShows
<1>5. CASE Restore
  <2>1. script.at = "restore" /\ UNCHANGED gmVars /\ Go("set_back")
    BY <1>5 DEF Restore
  <2> QED BY <2>1, GoIs, ScriptGoesOn DEF Ending, ScriptShows
<1> QED BY <1>1, <1>2, <1>3, <1>4, <1>5

LEMMA ScriptShowsAll ==
  ASSUME GmTypes, ScriptTypes, Unsent, ScriptInv,
         ScriptStart \/ ScriptStep \/ Interrupted \/ Killed
  PROVE  ScriptShows
<1>1. CASE Interrupted
  BY <1>1, ScriptRaises DEF Interrupted, GmKept
<1>2. CASE Killed
  <2>1. GmKept /\ others' = others /\ script.at # "off" /\ Exit("killed")
    BY <1>2 DEF Killed, GmKept
  <2> QED BY <2>1, ExitIs DEF ScriptShows
<1> QED BY <1>1, <1>2, ScriptStart_Shows, ScriptConnect_Shows, ScriptAsk_Shows,
           ScriptTakesAnswer_Shows, ScriptGivesUp_Shows, ScriptPlays_Shows DEF ScriptStep

-----------------------------------------------------------------------------
(* The test page's own steps.                                              *)

ToolShows(r) ==
  /\ GmTypes' /\ ToolTypes' /\ Unsent' /\ ToolOK(r)'
  /\ \A d \in Client \ {r} : Elsewhere(d)
  /\ \A p \in Route \ {r} : tool'[p] = tool[p]

LEMMA ToolIs ==
  ASSUME ToolTypes, NEW r \in Route
  PROVE  /\ tool[r].at \in Command \union {"off"} /\ tool[r].target \in Mode
         /\ tool[r].ok \in BOOLEAN /\ tool[r].open \in BOOLEAN
         /\ r = "restore" => ~tool[r].open
         /\ tool[r].at # "off" => tool[r].at \in Command
         /\ tool[r].at \in Command => tool[r].at # None
BY ClientsAre DEF ToolTypes

LEMMA ToolQueryIs ==
  ASSUME ToolTypes, NEW r \in Route, tool[r].at # "off"
  PROVE  ToolQuery(r) \in Query /\ ToolQuery(r).cmd = tool[r].at /\ ToolQuery(r).cmd # None
<1>1. tool[r].at \in Command /\ tool[r].target \in Mode /\ tool[r].at # None
  BY ToolIs
<1>2. CASE tool[r].at = "set_mode"
  BY <1>1, <1>2, QueriesAre DEF ToolQuery
<1>3. CASE tool[r].at = "get_state"
  BY <1>1, <1>3, QueriesAre DEF ToolQuery, GetState
<1>4. CASE tool[r].at \in {"await_settled", "get_gate", "open_gate"}
  BY <1>1, <1>4, QueriesAre DEF ToolQuery
<1> QED BY <1>1, <1>2, <1>3, <1>4 DEF Command

LEMMA ToolStart_Shows ==
  ASSUME GmTypes, ToolTypes, Unsent, NEW r \in Route, ToolOK(r), ToolStart(r)
  PROVE  ToolShows(r)
<1>1. PICK m \in IF r = "ensure" THEN {"measurement"} ELSE Targets :
        tool' = [tool EXCEPT ![r] = [NoRequest EXCEPT !.at = "get_state", !.target = m]]
  BY DEF ToolStart
<1>2. /\ m \in Mode /\ (r = "ensure" => m = "measurement")
      /\ tool[r].at = "off" /\ late' = Disowned(r)
      /\ UNCHANGED <<gmUp, mode, gateOpen, venue, conn, others>>
  BY <1>1, TestToolAssumption DEF ToolStart, Mode
<1> DEFINE t == [NoRequest EXCEPT !.at = "get_state", !.target = m]
<1>3. NoRequest \in [at : Command \union {"off"}, target : Mode, ok : BOOLEAN, open : BOOLEAN]
  BY DEF NoRequest, Mode
<1>4. /\ t \in [at : Command \union {"off"}, target : Mode, ok : BOOLEAN, open : BOOLEAN]
      /\ t.at = "get_state" /\ t.target = m /\ ~t.ok /\ ~t.open
  BY <1>2 DEF Command, NoRequest
<1>5. tool' = [tool EXCEPT ![r] = t]
  BY <1>1
<1> HIDE DEF t
<1>6. tool'[r] = t /\ \A p \in Route \ {r} : tool'[p] = tool[p]
  BY <1>5 DEF ToolTypes
<1>7. ToolTypes'
  <2>1. tool' \in [Route -> [at : Command \union {"off"}, target : Mode, ok : BOOLEAN, open : BOOLEAN]]
    BY <1>4, <1>5 DEF ToolTypes
  <2>2. "ensure" \in Route /\ "restore" \in Route
    BY DEF Route
  <2>3. tool'["ensure"].target = "measurement" /\ ~tool'["restore"].open
    BY <1>2, <1>4, <1>6, <2>2 DEF ToolTypes
  <2> QED BY <2>1, <2>3 DEF ToolTypes
<1>8. /\ late' \subseteq LeftBehind /\ Owned(r)' = {}
      /\ \A d \in Client \ {r} : {s \in late' : s.by = d} = Owned(d)
  BY <1>2, ClientsAre, DisownedIs
<1>9. GmTypes' /\ Unsent' /\ \A d \in Client \ {r} : Elsewhere(d)
  BY <1>2, <1>8 DEF GmTypes, Unsent, Elsewhere
<1>10. Shut(r)
  BY <1>2 DEF ToolOK, ToolAsks
<1>11. ToolOK(r)'
  BY <1>2, <1>4, <1>6, <1>8, <1>10 DEF ToolOK, ToolAsks, ToolKnows, ToolLeaves, Shut, Free, Quiet
<1> QED BY <1>6, <1>7, <1>9, <1>11 DEF ToolShows

LEMMA ToolAsk_Shows ==
  ASSUME GmTypes, ToolTypes, Unsent, NEW r \in Route, ToolOK(r), ToolAsk(r)
  PROVE  ToolShows(r)
<1>m. r \in Client
  BY ClientsAre
<1>1. /\ UNCHANGED <<tool, gmUp, mode, gateOpen, venue, late, others>>
      /\ tool[r].at # "off" /\ Free(r)
  BY DEF ToolAsk, toolVars
<1>2. Quiet(r)
  BY <1>1 DEF ToolOK, ToolAsks
<1> DEFINE q == ToolQuery(r)
<1>3. q \in Query /\ q.cmd = tool[r].at /\ q.cmd # None /\ q.cmd \in Command
  BY <1>1, ToolQueryIs, QueryIs
<1>4. IF tool[r].at \in Opens
        THEN conn' = [conn EXCEPT ![r] = [Closed EXCEPT !.open = TRUE, !.sent = <<q>>, !.call = q.cmd]]
        ELSE conn' = Asking(r, q)
  BY DEF ToolAsk, ToolQuery, SetMode
<1> HIDE DEF q
<1>5. /\ conn' \in [Client -> Connection]
      /\ \A d \in Client \ {r} : conn'[d] = conn[d]
      /\ conn'[r].call = q.cmd /\ conn'[r].got = << >>
      /\ conn'[r].sent = << >> \/ (conn'[r].sent = <<q>> /\ conn'[r].open)
  <2>1. CASE tool[r].at \in Opens
    <3> DEFINE k == [Closed EXCEPT !.open = TRUE, !.sent = <<q>>, !.call = q.cmd]
    <3>1. << >> \in Seq(Query) /\ << >> \in Seq(ReplyType) /\ <<q>> \in Seq(Query)
      BY <1>3
    <3>2. k \in Connection /\ k.open /\ k.sent = <<q>> /\ k.got = << >> /\ k.call = q.cmd
      BY <1>3, <3>1 DEF Connection, Closed
    <3>3. conn' = [conn EXCEPT ![r] = k]
      BY <1>4, <2>1
    <3> HIDE DEF k
    <3> QED BY <1>m, <3>2, <3>3 DEF GmTypes
  <2>2. CASE tool[r].at \notin Opens
    <3>1. Changed(r, conn[r].open, IF conn[r].open THEN Append(conn[r].sent, q) ELSE conn[r].sent,
                  conn[r].got, q.cmd)
      BY <1>m, <1>3, <1>4, <2>2, AskingIs
    <3>2. Append(conn[r].sent, q) = <<q>>
      BY <1>m, <1>2, <1>3, AppendIs, ConnectionIs DEF Quiet
    <3> QED BY <1>2, <3>1, <3>2 DEF Changed, Quiet
  <2> QED BY <2>1, <2>2
<1>6. GmTypes' /\ ToolTypes' /\ Unsent'
  BY <1>1, <1>5 DEF GmTypes, ToolTypes, Unsent
<1>7. \A d \in Client \ {r} : Elsewhere(d)
  BY <1>1, <1>5 DEF Elsewhere, Owned
<1>8. ToolQuery(r)' = q
  BY <1>1 DEF ToolQuery, q
<1>9. ToolAsks(r)'
  BY <1>1, <1>3, <1>5, <1>8 DEF ToolAsks, Free, Quiet, OneAsked
<1>10. ToolKnows(r)' /\ ToolLeaves(r)'
  BY <1>1 DEF ToolOK, ToolKnows, ToolLeaves, Knows, Owned
<1> QED BY <1>1, <1>6, <1>7, <1>9, <1>10 DEF ToolShows, ToolOK

LEMMA ToolTakesAnswer_Shows ==
  ASSUME GmTypes, ToolTypes, Unsent, NEW r \in Route, ToolOK(r), ToolTakesAnswer(r)
  PROVE  ToolShows(r)
<1>m. r \in Client
  BY ClientsAre
<1> DEFINE reply == Answer(r)
<1> DEFINE next == NextStep(r, reply)
<1>1. /\ UNCHANGED <<gmUp, mode, gateOpen, venue, late, others>>
      /\ ~Free(r) /\ Answered(r)
      /\ tool' = [tool EXCEPT ![r] =
                    [tool[r] EXCEPT !.at = next, !.ok = next = "off",
                                    !.open = r = "ensure" /\ next = "off" /\ reply.open]]
      /\ IF next \in {"await_settled", "open_gate"}
           THEN conn' = Taken(r)
           ELSE conn' = [conn EXCEPT ![r] = Closed]
  BY DEF ToolTakesAnswer
<1>2. /\ conn[r].got # << >> /\ conn[r].sent = << >> /\ Len(conn[r].got) = 1
      /\ tool[r].at # "off" /\ TrueAnswer(r, conn[r].got[1])
  BY <1>1 DEF Answered, ToolOK, ToolAsks, Shut, Quiet, OneAsked, OneAnswered
<1>3. /\ reply = conn[r].got[1] /\ reply \in ReplyType /\ Tail(conn[r].got) = << >>
  BY <1>m, <1>2, ConnectionIs, TailIs DEF Answer
<1>4. reply.open \in BOOLEAN
  BY <1>3 DEF ReplyType
<1> HIDE DEF reply
<1>5. next \in {"set_mode", "await_settled", "get_gate", "open_gate", "off"}
  BY DEF NextStep, Following
<1> HIDE DEF next
<1>6. tool \in [Route -> [at : Command \union {"off"}, target : Mode, ok : BOOLEAN, open : BOOLEAN]]
  BY DEF ToolTypes
<1>7. next \in Command \union {"off"}
  BY <1>5 DEF Command
<1>8. /\ tool' \in [Route -> [at : Command \union {"off"}, target : Mode, ok : BOOLEAN, open : BOOLEAN]]
      /\ tool'[r].at = next /\ tool'[r].target = tool[r].target
      /\ tool'[r].ok <=> next = "off"
      /\ tool'[r].open <=> r = "ensure" /\ next = "off" /\ reply.open
      /\ \A p \in Route \ {r} : tool'[p] = tool[p]
  BY <1>1, <1>4, <1>6, <1>7
<1>10. ToolTypes'
  <2>1. "ensure" \in Route /\ "restore" \in Route /\ "ensure" # "restore"
    BY DEF Route
  <2>2. tool'["ensure"].target = "measurement"
    BY <1>8, <2>1 DEF ToolTypes
  <2>3. ~tool'["restore"].open
    BY <1>8, <2>1 DEF ToolTypes
  <2> QED BY <1>8, <2>2, <2>3 DEF ToolTypes
<1>11. /\ conn' \in [Client -> Connection]
       /\ \A d \in Client \ {r} : conn'[d] = conn[d]
       /\ conn'[r].call = None /\ conn'[r].sent = << >> /\ conn'[r].got = << >>
       /\ next = "off" => ~conn'[r].open
  <2>1. CASE next \in {"await_settled", "open_gate"}
    BY <1>m, <1>1, <1>2, <1>3, <2>1, TakenIs DEF Changed
  <2>2. CASE next \notin {"await_settled", "open_gate"}
    BY <1>m, <1>1, <2>2, ClosedIs DEF GmTypes
  <2> QED BY <2>1, <2>2
<1>12. GmTypes' /\ Unsent' /\ \A d \in Client \ {r} : Elsewhere(d)
  BY <1>1, <1>11 DEF GmTypes, Unsent, Elsewhere, Owned
<1>13. ToolAsks(r)'
  BY <1>8, <1>11 DEF ToolAsks, Shut, Quiet, Free
<1>14. ASSUME next # "set_mode" PROVE Knows(r, tool[r].target)
  <2>1. CASE tool[r].at = "get_state"
    <3>1. reply.mode = tool[r].target
      BY <1>14, <2>1 DEF next, NextStep, Following
    <3> QED BY <1>2, <1>3, <2>1, <3>1 DEF TrueAnswer
  <2>2. CASE tool[r].at = "set_mode"
    BY <1>2, <2>2 DEF TrueAnswer
  <2>3. CASE tool[r].at \in {"await_settled", "get_gate", "open_gate"}
    BY <2>3 DEF ToolOK, ToolKnows
  <2> QED BY <1>2, <2>1, <2>2, <2>3, ToolIs DEF Command
<1>15. ASSUME r = "ensure", next = "off", reply.open PROVE gateOpen \/ others[r]
  <2>1. tool[r].at \in {"get_gate", "open_gate"}
    <3>1. tool[r].at \notin {"get_state", "await_settled", "set_mode"}
      BY <1>15 DEF next, NextStep, Following
    <3> QED BY <1>2, <3>1, ToolIs DEF Command
  <2> QED BY <1>2, <1>3, <1>15, <2>1 DEF TrueAnswer
<1>16. ToolKnows(r)'
  BY <1>1, <1>5, <1>8, <1>14, <1>15 DEF ToolKnows, Knows
<1>17. ToolLeaves(r)'
  BY <1>1, <1>2 DEF ToolOK, ToolLeaves, Owned
<1> QED BY <1>8, <1>10, <1>12, <1>13, <1>16, <1>17 DEF ToolShows, ToolOK

LEMMA ToolGivesUp_Shows ==
  ASSUME GmTypes, ToolTypes, Unsent, NEW r \in Route, ToolOK(r), ToolGivesUp(r)
  PROVE  ToolShows(r)
<1>m. r \in Client
  BY ClientsAre
<1>1. /\ UNCHANGED <<gmUp, mode, gateOpen, venue, others>>
      /\ tool[r].at # "off" /\ late' = Left(r)
      /\ tool' = [tool EXCEPT ![r] = [tool[r] EXCEPT !.at = "off",
                                       !.ok = tool[r].at \in {"get_gate", "open_gate"}]]
      /\ conn' = [conn EXCEPT ![r] = Closed]
  BY DEF ToolGivesUp
<1>2. tool \in [Route -> [at : Command \union {"off"}, target : Mode, ok : BOOLEAN, open : BOOLEAN]]
  BY DEF ToolTypes
<1>3. /\ tool' \in [Route -> [at : Command \union {"off"}, target : Mode, ok : BOOLEAN, open : BOOLEAN]]
      /\ tool'[r].at = "off" /\ tool'[r].target = tool[r].target
      /\ tool'[r].ok <=> tool[r].at \in {"get_gate", "open_gate"}
      /\ tool'[r].open <=> tool[r].open
      /\ \A p \in Route \ {r} : tool'[p] = tool[p]
  <2> DEFINE told == tool[r].at \in {"get_gate", "open_gate"}
  <2>1. tool' = [tool EXCEPT ![r] = [tool[r] EXCEPT !.at = "off", !.ok = told]] /\ told \in BOOLEAN
    BY <1>1
  <2> HIDE DEF told
  <2>2. /\ tool' \in [Route -> [at : Command \union {"off"}, target : Mode, ok : BOOLEAN, open : BOOLEAN]]
        /\ tool'[r].at = "off" /\ tool'[r].target = tool[r].target
        /\ tool'[r].ok <=> told
        /\ tool'[r].open <=> tool[r].open
        /\ \A p \in Route \ {r} : tool'[p] = tool[p]
    BY <1>2, <2>1
  <2> QED BY <2>2 DEF told
<1>4. ToolTypes'
  <2>1. "ensure" \in Route /\ "restore" \in Route
    BY DEF Route
  <2>2. tool'["ensure"].target = "measurement" /\ ~tool'["restore"].open
    BY <1>3, <2>1 DEF ToolTypes
  <2> QED BY <1>3, <2>2 DEF ToolTypes
<1>5. /\ conn' \in [Client -> Connection] /\ conn'[r] = Closed
      /\ \A d \in Client \ {r} : conn'[d] = conn[d]
  BY <1>m, <1>1, ClosedIs DEF GmTypes
<1>6. /\ late' \subseteq LeftBehind
      /\ \A d \in Client \ {r} : {s \in late' : s.by = d} = Owned(d)
      /\ conn[r].sent = << >> => Owned(r)' = {}
      /\ conn[r].sent # << >> => \E t : t.sent = conn[r].sent /\ Owned(r)' = {t}
  BY <1>m, <1>1, LeftAre DEF ToolOK, ToolLeaves
<1>7. GmTypes' /\ Unsent' /\ \A d \in Client \ {r} : Elsewhere(d)
  BY <1>1, <1>5, <1>6, ClosedIs DEF GmTypes, Unsent, Elsewhere
<1>8. ToolAsks(r)'
  BY <1>3, <1>5, ClosedIs DEF ToolAsks, Shut, Quiet, Free
<1>9. ToolKnows(r)'
  BY <1>1, <1>3 DEF ToolOK, ToolKnows, Knows
<1>10. ToolLeaves(r)'
  <2>1. CASE conn[r].sent = << >>
    BY <1>6, <2>1 DEF ToolLeaves
  <2>2. CASE conn[r].sent # << >>
    <3>1. conn[r].sent = <<ToolQuery(r)>>
      BY <1>1, <2>2 DEF ToolOK, ToolAsks, Quiet, OneAsked, OneAnswered
    <3>2. ToolQuery(r).cmd = tool[r].at
      BY <1>1, ToolQueryIs
    <3>3. \A i \in DOMAIN conn[r].sent : conn[r].sent[i].cmd = tool[r].at
      BY <3>1, <3>2, SingleIs
    <3> QED BY <1>3, <1>6, <2>2, <3>3 DEF ToolLeaves
  <2> QED BY <2>1, <2>2
<1> QED BY <1>3, <1>4, <1>7, <1>8, <1>9, <1>10 DEF ToolShows, ToolOK

-----------------------------------------------------------------------------
(* All together.                                                           *)

ClientsInv ==
  /\ GmTypes /\ ScriptTypes /\ ToolTypes
  /\ Unsent
  /\ ScriptInv
  /\ ToolInv

LEMMA InitKeeps == ClientsInit => ClientsInv
<1> SUFFICES ASSUME ClientsInit PROVE ClientsInv
  OBVIOUS
<1>1. /\ gmUp = TRUE /\ mode = "dj" /\ venue \in BOOLEAN /\ gateOpen \in BOOLEAN
      /\ conn = [c \in Client |-> Closed] /\ late = {} /\ others = [c \in Client |-> FALSE]
  BY DEF ClientsInit, GmInit
<1>2. GmTypes /\ Unsent /\ \A c \in Client : Shut(c)
  BY <1>1, ClosedIs DEF GmTypes, Unsent, Mode, Shut, Quiet, Free
<1>3. ScriptTypes /\ script.at = "off" /\ script.exit = None
  BY NearfieldAssumption DEF ClientsInit, ScriptInit, Off, ScriptTypes
<1>4. ScriptInv
  BY <1>1, <1>2, <1>3, ClientsAre, NearfieldAssumption
     DEF ScriptInv, ScriptAsks, ScriptKnows, ScriptLeaves, Trying, Shut, Quiet, Owned
<1>5. tool = [r \in Route |-> NoRequest]
  BY DEF ClientsInit, ToolInit
<1>6. ToolTypes
  BY <1>5 DEF ToolTypes, NoRequest, Route, Mode
<1>7. ToolInv
  BY <1>1, <1>2, <1>5, ClientsAre
     DEF ToolInv, ToolAsks, ToolKnows, ToolLeaves, NoRequest, Shut, Owned
<1> QED BY <1>2, <1>3, <1>4, <1>6, <1>7 DEF ClientsInv

LEMMA NextKeeps == ClientsInv /\ [ClientsNext]_clientVars => ClientsInv'
<1> SUFFICES ASSUME ClientsInv, [ClientsNext]_clientVars PROVE ClientsInv'
  OBVIOUS
<1>0. /\ GmTypes /\ ScriptTypes /\ ToolTypes /\ Unsent /\ ScriptInv
      /\ \A r \in Route : ToolOK(r)
  BY DEF ClientsInv, ToolInv, ToolOK
<1>1. CASE GmStep /\ UNCHANGED <<scriptVars, toolVars>>
  <2>1. script' = script /\ tool' = tool
    BY <1>1 DEF scriptVars, toolVars
  <2>2. GmTypes' /\ Unsent' /\ ScriptInv'
    BY <1>0, <1>1, <2>1, GmStep_Types, GmStep_Unsent, GmStep_Script
  <2>3. \A r \in Route : ToolOK(r)'
    BY <1>0, <1>1, <2>1, GmStep_Tool
  <2>4. ScriptTypes' /\ ToolTypes'
    BY <1>0, <2>1 DEF ScriptTypes, ToolTypes
  <2> QED BY <2>2, <2>3, <2>4 DEF ClientsInv, ToolInv, ToolOK
<1>2. CASE (ScriptStart \/ ScriptStep \/ Interrupted \/ Killed) /\ UNCHANGED toolVars
  <2>1. ScriptShows /\ tool' = tool
    BY <1>0, <1>2, ScriptShowsAll DEF toolVars
  <2>2. \A r \in Route : ToolOK(r)'
    BY <1>0, <2>1, ToolElsewhere DEF ScriptShows, ToolOK
  <2>3. ToolTypes'
    BY <1>0, <2>1 DEF ToolTypes
  <2> QED BY <2>1, <2>2, <2>3 DEF ClientsInv, ToolInv, ToolOK, ScriptShows
<1>3. CASE ToolStep /\ UNCHANGED scriptVars
  <2>1. PICK r \in Route : ToolStart(r) \/ ToolAsk(r) \/ ToolTakesAnswer(r) \/ ToolGivesUp(r)
    BY <1>3 DEF ToolStep
  <2>2. ToolShows(r) /\ script' = script
    BY <1>0, <1>3, <2>1, ToolStart_Shows, ToolAsk_Shows, ToolTakesAnswer_Shows,
       ToolGivesUp_Shows DEF scriptVars
  <2>3. ScriptInv'
    BY <1>0, <2>2, ClientsAre, ScriptElsewhere DEF ToolShows
  <2>4. ASSUME NEW p \in Route \ {r} PROVE ToolOK(p)'
    BY <1>0, <2>2, ClientsAre, ToolElsewhere DEF ToolShows, ToolOK
  <2>5. ScriptTypes'
    BY <1>0, <2>2 DEF ScriptTypes
  <2> QED BY <2>2, <2>3, <2>4, <2>5 DEF ClientsInv, ToolInv, ToolOK, ToolShows
<1>4. CASE UNCHANGED clientVars
  BY <1>4 DEF ClientsInv, clientVars, gmVars, scriptVars, toolVars, GmTypes, ScriptTypes,
     ToolTypes, Unsent, ScriptInv, ScriptAsks, ScriptKnows, ScriptLeaves, ToolInv, ToolAsks,
     ToolKnows, ToolLeaves, Knows, Quiet, Shut, Free, OneAsked, OneAnswered, Owned, Request,
     RestoreMode, ToolQuery, TrueAnswer
<1> QED BY <1>1, <1>2, <1>3, <1>4 DEF ClientsNext

(* Whatever the clients and GraphManager do, types and the invariants of   *)
(* the two programs hold.                                                  *)
THEOREM ClientsInvHolds == ClientsSpec => []ClientsInv
BY InitKeeps, NextKeeps, PTL DEF ClientsSpec

(* The near-field program plays only in measurement mode, as long as no    *)
(* one else changed the mode since it was verified                         *)
(* (measure_nearfield.py, verify_measurement_mode before the phases).      *)
THEOREM SweepsInMeasurementModeHolds == ClientsSpec => []SweepsInMeasurementMode
<1>1. ClientsInv => SweepsInMeasurementMode
  BY DEF ClientsInv, ScriptInv, ScriptKnows, Knows, SweepsInMeasurementMode, Playing
<1> QED BY <1>1, ClientsInvHolds, PTL

(* When the program ended and told no trouble, and nothing it asked is     *)
(* still under way, the mode is the one it found, unless others changed    *)
(* it (measure_nearfield.py, restore_mode in main's finally).              *)
THEOREM RestoredUnlessToldHolds == ClientsSpec => []RestoredUnlessTold
<1>1. ClientsInv => RestoredUnlessTold
  <2> SUFFICES ASSUME ClientsInv, script.at = "off", script.exit \in {"0", "1"},
                      gmUp, late = {}, ~others[Me]
               PROVE  mode = RestoreMode
    BY DEF RestoredUnlessTold
  <2>1. Owned(Me) = {}
    BY DEF Owned
  <2> QED BY <2>1 DEF ClientsInv, ScriptInv, ScriptLeaves, Knows
<1> QED BY <1>1, ClientsInvHolds, PTL

(* A request of the test page that is answered without an error has the    *)
(* mode it was for, and the gate it tells to be open is open, unless       *)
(* others changed the mode meanwhile (test_tool/routes.py,                 *)
(* ensure_measurement_mode and restore_mode).                              *)
THEOREM AnswersAreTrueHolds == ClientsSpec => []AnswersAreTrue
<1>1. ClientsInv => AnswersAreTrue
  BY DEF ClientsInv, ToolInv, ToolKnows, Knows, AnswersAreTrue
<1> QED BY <1>1, ClientsInvHolds, PTL

-----------------------------------------------------------------------------
(* Start and stop of the transfer function measurement.                    *)

TfQuery == {[cmd |-> "get_state"]} \union {[cmd |-> "set_mode", mode |-> m] : m \in Mode \union {"unknown"}}

TfReply == [cmd : {"get_state", "set_mode"}, mode : Mode, venue : BOOLEAN, open : BOOLEAN]

TfConnection ==
  [open : BOOLEAN, sent : {<<>>} \union {<<q>> : q \in TfQuery},
   got : {<<>>} \union {<<a>> : a \in TfReply}, call : {"get_state", "set_mode", None}]

TfTypes ==
  /\ gmUp \in BOOLEAN /\ mode \in Mode /\ gateOpen \in BOOLEAN /\ venue \in BOOLEAN
  /\ conn \in [Client -> TfConnection]
  /\ late \subseteq [by : Client \union {None}, sent : {<<q>> : q \in TfQuery}]
  /\ others \in [Client -> BOOLEAN]
  /\ tf \in [active : BOOLEAN, previous : Mode \union {"unknown", None}]
  /\ tfRequest \in [TfRoute -> [at : {"off", "get_state", "set_mode"},
                                target : Mode \union {"unknown"},
                                told : {None, "active", "error", "restored", "inactive"}]]

(* One question at a time: unsent, under way, answered or lost.            *)
TfAsksOnce ==
  \A c \in Client :
    /\ c \notin TfRoute \/ Free(c) => conn[c].sent = <<>> /\ conn[c].got = <<>>
    /\ c \in TfRoute /\ tfRequest[c].at = "off" => Free(c)
    /\ conn[c].sent # <<>> => conn[c].got = <<>>

(* The question is that of the statement, and its answer was true.         *)
StartKnows ==
  LET q == tfRequest["start"] IN
  /\ q.target = "measurement"
  /\ q.at # "off" => /\ q.told = None
                     /\ \A s \in late : s.by # "start"
                     /\ ~Free("start") => conn["start"].call = q.at
  /\ \A s \in {conn["start"].sent} : s # <<>> => Head(s).cmd = q.at /\ (q.at = "set_mode" => Head(s).mode = "measurement")
  /\ \A a \in {conn["start"].got} : a # <<>> =>
       /\ q.at = "get_state" => mode = Head(a).mode \/ others["start"]
       /\ q.at = "set_mode" => mode = "measurement" \/ others["start"]
  /\ q.told = "active" => \A s \in late : s.by # "start"

TfInv == TfTypes /\ TfAsksOnce /\ StartKnows /\ StartsInMeasurementMode

LEMMA TfClients ==
  /\ TfRoute \subseteq Client /\ "start" \in Client /\ "stop" \in Client /\ "start" # "stop"
  /\ "start" \in TfRoute /\ "stop" \in TfRoute
  /\ None \notin Client /\ None \notin Mode /\ None # "get_state" /\ None # "set_mode" /\ None # "active"
  /\ "measurement" \in Mode /\ "standby" \in Mode
BY GmAssumption, TfAssumption DEF TfRoute, Command, Mode

LEMMA OneTail ==
  ASSUME NEW e
  PROVE  Head(<<e>>) = e /\ Tail(<<e>>) = <<>> /\ Append(<<>>, e) = <<e>> /\ <<e>> # <<>> /\ Len(<<e>>) = 1
OBVIOUS

LEMMA TfStarts ==
  ASSUME GmInit, TfInit
  PROVE  TfInv
<1>1. conn \in [Client -> TfConnection] /\ \A c \in Client : conn[c] = Closed
  BY TfClients DEF GmInit, Closed, TfConnection
<1>2. mode \in Mode /\ gateOpen \in BOOLEAN /\ others \in [Client -> BOOLEAN] /\ late = {}
  BY DEF GmInit, Mode
<1>3. /\ \A r \in TfRoute : tfRequest[r] = [at |-> "off", target |-> "measurement", told |-> None]
      /\ tfRequest \in [TfRoute -> [at : {"off", "get_state", "set_mode"},
                                    target : Mode \union {"unknown"},
                                    told : {None, "active", "error", "restored", "inactive"}]]
      /\ tf \in [active : BOOLEAN, previous : Mode \union {"unknown", None}]
  BY TfClients DEF TfInit
<1>4. TfTypes
  BY <1>1, <1>2, <1>3 DEF GmInit, TfTypes
<1>5. TfAsksOnce /\ StartKnows /\ StartsInMeasurementMode
  BY <1>1, <1>2, <1>3, TfClients DEF TfAsksOnce, StartKnows, StartsInMeasurementMode, Closed, Free
<1> QED BY <1>4, <1>5 DEF TfInv

(* A step of GraphManager keeps what the start knows or shows it.          *)
LEMMA TfExecuted ==
  ASSUME TfInv, NEW q \in TfQuery, NEW c, Executed(q), Seen(c, q)
  PROVE  /\ mode' \in Mode /\ gateOpen' \in BOOLEAN /\ others' \in [Client -> BOOLEAN]
         /\ q.cmd = "get_state" => mode' = mode
         /\ q.cmd = "set_mode" /\ q.mode \in Mode => mode' = q.mode
         /\ c # "start" => (mode' = mode \/ others'["start"]) /\ (others["start"] => others'["start"])
         /\ Reply(q) \in TfReply /\ Reply(q).mode = mode /\ Reply(q).cmd = q.cmd
<1>1. mode' \in Mode /\ gateOpen' \in BOOLEAN
  BY TfClients DEF Executed, TfInv, TfTypes, TfQuery
<1>2. others' \in [Client -> BOOLEAN]
  BY DEF Seen, TfInv, TfTypes
<1>3. c # "start" => (mode' = mode \/ others'["start"]) /\ (others["start"] => others'["start"])
  BY TfClients DEF Seen, TfInv, TfTypes
<1>4. Reply(q) \in TfReply /\ Reply(q).mode = mode /\ Reply(q).cmd = q.cmd
  BY <1>1 DEF Reply, TfReply, TfInv, TfTypes, TfQuery
<1> QED BY <1>1, <1>2, <1>3, <1>4 DEF Executed

LEMMA TfConnectionIs ==
  ASSUME TfInv, NEW c \in Client
  PROVE  /\ conn[c] \in TfConnection
         /\ conn[c].sent = <<>> \/ \E q \in TfQuery : conn[c].sent = <<q>>
         /\ conn[c].got = <<>> \/ \E a \in TfReply : conn[c].got = <<a>>
         /\ conn[c].call \in {"get_state", "set_mode", None}
BY DEF TfInv, TfTypes, TfConnection

LEMMA TfServe ==
  ASSUME TfInv, NEW c \in Client, Serve(c), UNCHANGED <<tf, tfRequest>>
  PROVE  TfInv'
<1>1. PICK q \in TfQuery : conn[c].sent = <<q>>
  BY TfConnectionIs DEF Serve
<1>2. conn[c].got = <<>> /\ c \in TfRoute /\ ~Free(c)
  BY <1>1, OneTail DEF TfInv, TfAsksOnce
<1>3. Executed(q) /\ Seen(c, q)
  BY <1>1, OneTail DEF Serve
<1>4. conn' = [conn EXCEPT ![c].sent = <<>>, ![c].got = <<Reply(q)>>]
  <2>1. conn' = [conn EXCEPT ![c].sent = Tail(@), ![c].got = Append(@, Reply(q))]
    BY <1>1, OneTail DEF Serve
  <2> QED BY <1>1, <1>2, <2>1, OneTail DEF TfInv, TfTypes
<1>5. /\ conn' \in [Client -> TfConnection]
      /\ conn'[c].sent = <<>> /\ conn'[c].got = <<Reply(q)>> /\ conn'[c].call = conn[c].call
      /\ \A d \in Client \ {c} : conn'[d] = conn[d]
  BY <1>3, <1>4, TfExecuted, TfConnectionIs DEF TfInv, TfTypes, TfConnection
<1>6. TfTypes'
  BY <1>3, <1>5, TfExecuted DEF Serve, TfInv, TfTypes
<1>7. TfAsksOnce'
  BY <1>2, <1>5 DEF TfInv, TfAsksOnce, Free
<1>8. CASE c = "start"
  <2>1. q.cmd = tfRequest["start"].at /\ (q.cmd = "set_mode" => q.mode = "measurement")
    BY <1>1, <1>8, OneTail DEF TfInv, StartKnows
  <2>2. tfRequest["start"].at # "off"
    BY <2>1 DEF TfQuery
  <2>3. q.cmd = "get_state" => Reply(q).mode = mode'
    BY <1>3, TfExecuted
  <2>4. q.cmd = "set_mode" => mode' = "measurement"
    BY <1>3, <2>1, TfExecuted, TfClients
  <2>5. tfRequest["start"].told # "active"
    BY <2>2, TfClients DEF TfInv, StartKnows
  <2>6. conn'["start"].sent = <<>> /\ Head(conn'["start"].got) = Reply(q)
        /\ conn'["start"].call = conn["start"].call
    BY <1>5, <1>8, OneTail
  <2>7. late' = late /\ tfRequest' = tfRequest
    BY DEF Serve
  <2>8. /\ tfRequest["start"].at = "get_state" => mode' = Reply(q).mode
        /\ tfRequest["start"].at = "set_mode" => mode' = "measurement"
    BY <2>1, <2>3, <2>4
  <2>9. StartKnows'
    BY <2>2, <2>5, <2>6, <2>7, <2>8 DEF TfInv, StartKnows, Free
  <2> QED BY <1>6, <1>7, <2>5, <2>7, <2>9 DEF TfInv, StartsInMeasurementMode
<1>9. CASE c # "start"
  <2>1. conn'["start"] = conn["start"]
    BY <1>5, <1>9, TfClients
  <2>2. (mode' = mode \/ others'["start"]) /\ (others["start"] => others'["start"])
    BY <1>3, <1>9, TfExecuted
  <2>3. StartKnows' /\ StartsInMeasurementMode'
    BY <2>1, <2>2 DEF Serve, TfInv, StartKnows, StartsInMeasurementMode, Free
  <2> QED BY <1>6, <1>7, <2>3 DEF TfInv
<1> QED BY <1>8, <1>9

LEMMA TfServeLate ==
  ASSUME TfInv, ServeLate, UNCHANGED <<tf, tfRequest>>
  PROVE  TfInv'
<1>1. PICK s \in late : /\ Executed(Head(s.sent)) /\ Seen(s.by, Head(s.sent))
                        /\ late' = (late \ {s}) \union
                             (IF Len(s.sent) = 1 THEN {} ELSE {[s EXCEPT !.sent = Tail(@)]})
                        /\ UNCHANGED <<gmUp, venue, conn, crashes>>
  BY DEF ServeLate
<1>2. PICK q \in TfQuery : s.sent = <<q>>
  BY DEF TfInv, TfTypes
<1>3. Executed(q) /\ Seen(s.by, q) /\ late' = late \ {s}
  BY <1>1, <1>2, OneTail
<1>4. TfTypes'
  BY <1>1, <1>3, TfExecuted DEF TfInv, TfTypes
<1>5. TfAsksOnce'
  BY <1>1 DEF TfInv, TfAsksOnce, Free
<1>6. CASE s.by = "start"
  <2>1. tfRequest["start"].at = "off" /\ tfRequest["start"].told # "active" /\ conn["start"].sent = <<>>
        /\ conn["start"].got = <<>>
    BY <1>6, TfClients DEF TfInv, TfTypes, TfAsksOnce, StartKnows
  <2> QED BY <1>1, <1>3, <1>4, <1>5, <2>1 DEF TfInv, StartKnows, StartsInMeasurementMode, Free
<1>7. CASE s.by # "start"
  <2>1. (mode' = mode \/ others'["start"]) /\ (others["start"] => others'["start"])
    BY <1>3, <1>7, TfExecuted
  <2> QED BY <1>1, <1>3, <1>4, <1>5, <2>1 DEF TfInv, StartKnows, StartsInMeasurementMode, Free
<1> QED BY <1>6, <1>7

LEMMA TfPassOver ==
  ASSUME TfInv, NEW c \in Client, PassOver(c), UNCHANGED <<tf, tfRequest>>
  PROVE  TfInv'
<1>1. PICK a \in TfReply : conn[c].got = <<a>>
  BY TfConnectionIs DEF PassOver
<1>2. conn' = [conn EXCEPT ![c].got = <<>>]
  BY <1>1, OneTail DEF PassOver, TfInv, TfTypes
<1>3. /\ conn' \in [Client -> TfConnection]
      /\ conn'[c].got = <<>> /\ conn'[c].sent = conn[c].sent /\ conn'[c].call = conn[c].call
      /\ \A d \in Client \ {c} : conn'[d] = conn[d]
  BY <1>2, TfConnectionIs DEF TfInv, TfTypes, TfConnection
<1>4. TfTypes'
  BY <1>3 DEF PassOver, TfInv, TfTypes
<1>5. TfAsksOnce'
  BY <1>3 DEF TfInv, TfAsksOnce, Free
<1>6. conn'["start"].sent = conn["start"].sent /\ conn'["start"].call = conn["start"].call
      /\ conn'["start"].got \in {<<>>, conn["start"].got}
  BY <1>3, TfClients
<1> QED BY <1>4, <1>5, <1>6 DEF PassOver, TfInv, StartKnows, StartsInMeasurementMode, Free

LEMMA TfGmEnds ==
  ASSUME TfInv, GmEnds, UNCHANGED <<tf, tfRequest>>
  PROVE  TfInv'
<1>1. /\ conn' \in [Client -> TfConnection]
      /\ \A c \in Client : conn'[c].sent = <<>> /\ conn'[c].got = conn[c].got /\ conn'[c].call = conn[c].call
  <2>1. ASSUME NEW c \in Client
        PROVE  LET k == [conn[c] EXCEPT !.open = FALSE, !.sent = <<>>] IN
               k \in TfConnection /\ k.sent = <<>> /\ k.got = conn[c].got /\ k.call = conn[c].call
    BY <2>1, TfConnectionIs DEF TfConnection
  <2>2. conn' = [c \in Client |-> [conn[c] EXCEPT !.open = FALSE, !.sent = <<>>]]
    BY DEF GmEnds
  <2> QED BY <2>1, <2>2
<1>2. TfTypes'
  BY <1>1 DEF GmEnds, TfInv, TfTypes
<1>3. TfAsksOnce'
  BY <1>1 DEF TfInv, TfAsksOnce, Free
<1> QED BY <1>1, <1>2, <1>3, TfClients DEF GmEnds, TfInv, StartKnows, StartsInMeasurementMode, Free

LEMMA TfGmStarts ==
  ASSUME TfInv, GmStarts, UNCHANGED <<tf, tfRequest>>
  PROVE  TfInv'
<1>1. TfTypes' /\ others'["start"]
  BY TfClients DEF GmStarts, TfInv, TfTypes, Mode
<1>2. TfAsksOnce'
  BY DEF GmStarts, TfInv, TfAsksOnce, Free
<1> QED BY <1>1, <1>2 DEF GmStarts, TfInv, StartKnows, StartsInMeasurementMode, Free

LEMMA TfOthers ==
  ASSUME TfInv, NEW m \in Mode, OthersSet(m)
  PROVE  TfInv'
<1>1. TfTypes' /\ others'["start"]
  BY TfClients DEF OthersSet, TfInv, TfTypes
<1>2. TfAsksOnce'
  BY DEF OthersSet, TfInv, TfAsksOnce, Free
<1> QED BY <1>1, <1>2 DEF OthersSet, TfInv, StartKnows, StartsInMeasurementMode, Free

LEMMA TfArriving ==
  ASSUME TfInv, NEW r \in TfRoute, TfArrives(r)
  PROVE  TfInv'
<1>1. conn' = conn /\ mode' = mode /\ others' = others /\ gmUp' = gmUp /\ gateOpen' = gateOpen /\ venue' = venue
      /\ tf' = tf
  BY DEF TfArrives
<1>2. late' \subseteq [by : Client \union {None}, sent : {<<q>> : q \in TfQuery}]
      /\ \A s \in late' : s.by # r /\ (s.by = None \/ s \in late)
  <2>1. \A s \in late : [s EXCEPT !.by = None].by = None
    BY DEF TfInv, TfTypes
  <2> QED BY <2>1, TfClients DEF TfArrives, Disowned, TfInv, TfTypes
<1>3. CASE r = "start"
  <2>1. /\ tfRequest' \in [TfRoute -> [at : {"off", "get_state", "set_mode"},
                                       target : Mode \union {"unknown"},
                                       told : {None, "active", "error", "restored", "inactive"}]]
        /\ tfRequest'["start"] = [tfRequest["start"] EXCEPT !.at = "get_state", !.told = None]
        /\ tfRequest'["stop"].at = tfRequest["stop"].at
    <3>1. /\ tfRequest' = [tfRequest EXCEPT !["start"].at = "get_state", !["start"].told = None,
                                            !["stop"].told = None]
          /\ TfRoute = {"start", "stop"}
      BY <1>3 DEF TfArrives, TfRoute
    <3>2. tfRequest \in [TfRoute -> [at : {"off", "get_state", "set_mode"},
                                     target : Mode \union {"unknown"},
                                     told : {None, "active", "error", "restored", "inactive"}]]
      BY DEF TfInv, TfTypes
    <3>3. /\ tfRequest'["start"] = [tfRequest["start"] EXCEPT !.at = "get_state", !.told = None]
          /\ tfRequest'["stop"] = [tfRequest["stop"] EXCEPT !.told = None]
          /\ DOMAIN tfRequest' = TfRoute /\ tfRequest' = [q \in TfRoute |-> tfRequest'[q]]
      BY <3>1, <3>2
    <3>4. \A q \in TfRoute : tfRequest'[q] \in
            [at : {"off", "get_state", "set_mode"}, target : Mode \union {"unknown"},
             told : {None, "active", "error", "restored", "inactive"}]
      BY <3>1, <3>2, <3>3
    <3> QED BY <3>1, <3>2, <3>3, <3>4
  <2>2. tfRequest'["start"].at = "get_state" /\ tfRequest'["start"].told = None
        /\ tfRequest'["start"].target = "measurement"
    BY <2>1 DEF TfInv, StartKnows, TfTypes, TfRoute
  <2>3. Free("start") /\ conn["start"].sent = <<>> /\ conn["start"].got = <<>>
    BY <1>3, TfClients DEF TfArrives, TfInv, TfAsksOnce
  <2>4. TfTypes'
    BY <1>1, <1>2, <2>1 DEF TfInv, TfTypes
  <2>5. TfAsksOnce'
    BY <1>1, <2>1, <2>2, TfClients DEF TfInv, TfAsksOnce, Free, TfRoute
  <2>6. StartKnows' /\ StartsInMeasurementMode'
    BY <1>1, <1>2, <1>3, <2>2, <2>3, TfClients DEF StartKnows, StartsInMeasurementMode, Free
  <2> QED BY <2>4, <2>5, <2>6 DEF TfInv
<1>4. CASE r = "stop"
  <2>1. /\ tfRequest' \in [TfRoute -> [at : {"off", "get_state", "set_mode"},
                                       target : Mode \union {"unknown"},
                                       told : {None, "active", "error", "restored", "inactive"}]]
        /\ tfRequest'["start"] = tfRequest["start"]
    BY <1>4, TfClients DEF TfArrives, TfInv, TfTypes, TfRoute, Mode
  <2>2. Free("stop")
    BY <1>4, TfClients DEF TfArrives, TfInv, TfAsksOnce
  <2>3. TfTypes'
    BY <1>1, <1>2, <2>1 DEF TfInv, TfTypes
  <2>4. TfAsksOnce'
    BY <1>1, <2>1, <2>2, TfClients DEF TfInv, TfAsksOnce, Free, TfRoute
  <2>5. \A s \in late' : s.by = "start" => s \in late
    BY <1>2, TfClients
  <2>6. StartKnows' /\ StartsInMeasurementMode'
    BY <1>1, <2>1, <2>5 DEF TfInv, StartKnows, StartsInMeasurementMode, Free
  <2> QED BY <2>3, <2>4, <2>6 DEF TfInv
<1> QED BY <1>3, <1>4 DEF TfRoute

LEMMA TfAsking ==
  ASSUME TfInv, NEW r \in TfRoute, TfAsk(r)
  PROVE  TfInv'
<1> DEFINE q == IF tfRequest[r].at = "set_mode"
                  THEN [cmd |-> "set_mode", mode |-> tfRequest[r].target]
                  ELSE [cmd |-> "get_state"]
           k == [Closed EXCEPT !.open = TRUE, !.sent = <<q>>, !.call = q.cmd]
<1>1. q \in TfQuery /\ q.cmd = tfRequest[r].at
  <2>1. tfRequest[r].at \in {"get_state", "set_mode"} /\ tfRequest[r].target \in Mode \union {"unknown"}
    BY DEF TfAsk, TfInv, TfTypes
  <2>2. CASE tfRequest[r].at = "set_mode"
    BY <2>1, <2>2 DEF TfQuery
  <2>3. CASE tfRequest[r].at = "get_state"
    BY <2>3 DEF TfQuery
  <2> QED BY <2>1, <2>2, <2>3
<1>2. conn' = [conn EXCEPT ![r] = k]
  BY DEF TfAsk
<1>3. q.cmd = "set_mode" => q.mode = tfRequest[r].target
  OBVIOUS
<1>4. q.cmd \in {"get_state", "set_mode"}
  OBVIOUS
<1> HIDE DEF q
<1>6. /\ conn' \in [Client -> TfConnection]
      /\ conn'[r].sent = <<q>> /\ conn'[r].got = <<>> /\ conn'[r].call = q.cmd
      /\ \A d \in Client \ {r} : conn'[d] = conn[d]
  <2>1. Closed \in [open : BOOLEAN, sent : {<<>>}, got : {<<>>}, call : {None}] /\ Closed.got = <<>>
    BY DEF Closed
  <2>2. k \in [open : BOOLEAN, sent : {<<q>>}, got : {<<>>}, call : {q.cmd}]
    BY <2>1
  <2>3. k.sent = <<q>> /\ k.got = <<>> /\ k.call = q.cmd
    BY <2>1
  <2>4. k \in TfConnection
    BY <1>1, <1>4, <2>2 DEF TfConnection
  <2> HIDE DEF k
  <2> QED BY <1>2, <2>3, <2>4, TfClients DEF TfInv, TfTypes
<1>7. UNCHANGED <<tf, tfRequest, gmUp, mode, gateOpen, venue, late, others>> /\ tfRequest[r].at # "off"
  BY DEF TfAsk, tfVars
<1>8. TfTypes'
  BY <1>6, <1>7 DEF TfInv, TfTypes
<1>9. TfAsksOnce'
  BY <1>4, <1>6, <1>7, TfClients DEF TfInv, TfAsksOnce, Free
<1>10. StartKnows' /\ StartsInMeasurementMode'
  <2>1. CASE r = "start"
    <3>1. conn'["start"].sent = <<q>> /\ conn'["start"].got = <<>> /\ conn'["start"].call = q.cmd
      BY <1>6, <2>1, TfClients
    <3>2. Head(<<q>>) = q
      BY OneTail
    <3> QED BY <1>1, <1>3, <1>7, <2>1, <3>1, <3>2 DEF TfInv, StartKnows, StartsInMeasurementMode, Free
  <2>2. CASE r # "start"
    BY <1>6, <1>7, <2>2, TfClients DEF TfInv, StartKnows, StartsInMeasurementMode, Free
  <2> QED BY <2>1, <2>2
<1> QED BY <1>8, <1>9, <1>10 DEF TfInv

TfBecomes(r, at, told) == tfRequest' = [tfRequest EXCEPT ![r].at = at, ![r].told = told]

(* The request goes on or ends, its connection closed.                     *)
LEMMA TfGoesOn ==
  ASSUME TfInv, NEW r \in TfRoute,
         conn' = [conn EXCEPT ![r] = Closed],
         UNCHANGED <<gmUp, mode, gateOpen, venue, others>>,
         late' \subseteq [by : Client \union {None}, sent : {<<q>> : q \in TfQuery}],
         tf' \in [active : BOOLEAN, previous : Mode \union {"unknown", None}],
         NEW at \in {"off", "set_mode"},
         NEW told \in {None, "active", "error", "restored", "inactive"},
         TfBecomes(r, at, told),
         \A s \in late' : s.by = "start" => s \in late \/ (r = "start" /\ at = "off" /\ told = "error"),
         r = "start" => /\ at = "set_mode" => told = None
                        /\ told = "active" => mode = "measurement" \/ others["start"],
         r = "start" => tfRequest["start"].at # "off"
  PROVE  TfInv'
<1>1. /\ conn' \in [Client -> TfConnection]
      /\ conn'[r].sent = <<>> /\ conn'[r].got = <<>> /\ conn'[r].call = None
      /\ \A d \in Client \ {r} : conn'[d] = conn[d]
  <2>1. Closed \in TfConnection
    BY DEF Closed, TfConnection
  <2> QED BY <2>1, TfClients DEF TfInv, TfTypes, Closed
<1>2. /\ tfRequest' \in [TfRoute -> [at : {"off", "get_state", "set_mode"},
                                     target : Mode \union {"unknown"},
                                     told : {None, "active", "error", "restored", "inactive"}]]
      /\ tfRequest'[r].at = at /\ tfRequest'[r].told = told /\ tfRequest'[r].target = tfRequest[r].target
      /\ \A p \in TfRoute \ {r} : tfRequest'[p] = tfRequest[p]
  BY DEF TfBecomes, TfInv, TfTypes
<1>3. TfTypes'
  BY <1>1, <1>2 DEF TfInv, TfTypes
<1>4. TfAsksOnce'
  BY <1>1, <1>2, TfClients DEF TfInv, TfAsksOnce, Free
<1>5. CASE r = "start"
  <2>1. \A s \in late : s.by # "start"
    BY <1>5 DEF TfInv, StartKnows
  <2>2. at # "off" \/ told = "active" => \A s \in late' : s.by # "start"
    BY <2>1
  <2>3. StartKnows' /\ StartsInMeasurementMode'
    BY <1>1, <1>2, <1>5, <2>2, TfClients DEF TfInv, StartKnows, StartsInMeasurementMode, Free
  <2> QED BY <1>3, <1>4, <2>3 DEF TfInv
<1>6. CASE r # "start"
  <2>1. conn'["start"] = conn["start"] /\ tfRequest'["start"] = tfRequest["start"]
    BY <1>1, <1>2, <1>6, TfClients
  <2>2. \A s \in late' : s.by = "start" => s \in late
    BY <1>6
  <2>3. StartKnows' /\ StartsInMeasurementMode'
    BY <2>1, <2>2 DEF TfInv, StartKnows, StartsInMeasurementMode, Free
  <2> QED BY <1>3, <1>4, <2>3 DEF TfInv
<1> QED BY <1>5, <1>6

LEMMA LeftIsTyped ==
  ASSUME TfInv, NEW r \in TfRoute
  PROVE  /\ Left(r) \subseteq [by : Client \union {None}, sent : {<<q>> : q \in TfQuery}]
         /\ \A s \in Left(r) : s \in late \/ s.by = r
<1>1. r \in Client /\ late \subseteq [by : Client \union {None}, sent : {<<q>> : q \in TfQuery}]
  BY TfClients DEF TfInv, TfTypes
<1>2. CASE conn[r].sent = <<>>
  BY <1>1, <1>2 DEF Left
<1>3. CASE conn[r].sent # <<>>
  <2>1. PICK q \in TfQuery : conn[r].sent = <<q>>
    BY <1>1, <1>3, TfConnectionIs
  <2>2. Left(r) = late \union {[by |-> r, sent |-> <<q>>]}
    BY <1>3, <2>1 DEF Left
  <2> QED BY <1>1, <2>2
<1> QED BY <1>2, <1>3

LEMMA TfSetting ==
  ASSUME TfInv, NEW r \in TfRoute, TfSets(r)
  PROVE  /\ TfBecomes(r, "set_mode", tfRequest[r].told)
         /\ tfRequest[r].told \in {None, "active", "error", "restored", "inactive"}
BY DEF TfSets, TfBecomes, TfInv, TfTypes

LEMMA TfEnding ==
  ASSUME TfInv, NEW r \in TfRoute, NEW told, TfEnds(r, told)
  PROVE  /\ TfBecomes(r, "off", told)
         /\ tf' \in [active : BOOLEAN, previous : Mode \union {"unknown", None}]
BY DEF TfEnds, TfBecomes, TfInv, TfTypes

(* Which of its two courses a request takes. *)
TfCourse(r, m, ok) ==
  \E at \in {"off", "set_mode"}, told \in {None, "active", "error", "restored", "inactive"} :
    /\ TfBecomes(r, at, told)
    /\ tf' \in [active : BOOLEAN, previous : Mode \union {"unknown", None}]
    /\ r = "start" =>
         /\ tfRequest[r].at \in {"get_state", "set_mode"}
         /\ at = "set_mode" => told = None
         /\ told = "active" =>
              \/ tfRequest[r].at = "get_state" /\ m = "measurement"
              \/ tfRequest[r].at = "set_mode" /\ ok = TRUE

LEMMA TfFollowing ==
  ASSUME TfInv, NEW r \in TfRoute, ~Free(r), NEW m \in Mode \union {"unknown"}, NEW ok \in BOOLEAN,
         TfFollows(r, [mode |-> m, ok |-> ok])
  PROVE  TfCourse(r, m, ok)
<1> DEFINE reply == [mode |-> m, ok |-> ok]
           q == tfRequest[r]
<1>1. reply.mode = m /\ reply.ok = ok
  OBVIOUS
<1> HIDE DEF reply
<1>2. CASE r = "start"
  <2>1. q.at \in {"get_state", "set_mode"} /\ q.told = None
    BY <1>2, TfClients DEF TfInv, TfTypes, TfAsksOnce, StartKnows
  <2>2. StartFollows(reply)
    BY <1>2 DEF TfFollows, reply
  <2>3. CASE q.at = "get_state" /\ m # "measurement"
    <3>1. TfSets(r) /\ tf' = [tf EXCEPT !.previous = m]
      BY <1>1, <1>2, <2>2, <2>3 DEF StartFollows
    <3>2. tf' \in [active : BOOLEAN, previous : Mode \union {"unknown", None}]
      BY <3>1 DEF TfInv, TfTypes
    <3> QED BY <2>1, <3>1, <3>2, TfSetting, TfClients DEF TfCourse
  <2>4. CASE q.at = "set_mode" /\ ~ok
    <3>1. TfEnds(r, "error")
      BY <1>1, <1>2, <2>2, <2>4 DEF StartFollows
    <3> QED BY <2>1, <3>1, TfEnding, TfClients DEF TfCourse
  <2>5. CASE \/ q.at = "get_state" /\ m = "measurement"
             \/ q.at = "set_mode" /\ ok
    <3>1. TfEnds(r, "active")
      BY <1>1, <1>2, <2>2, <2>5 DEF StartFollows
    <3> QED BY <2>1, <2>5, <3>1, TfEnding, TfClients DEF TfCourse
  <2> QED BY <2>1, <2>3, <2>4, <2>5
<1>3. CASE r # "start"
  <2>1. r = "stop" /\ StopFollows(reply)
    BY <1>3 DEF TfFollows, reply, TfRoute
  <2>2. CASE TfSets("stop") /\ UNCHANGED tf
    <3>1. tf' \in [active : BOOLEAN, previous : Mode \union {"unknown", None}]
      BY <2>2 DEF TfInv, TfTypes
    <3> QED BY <1>3, <2>1, <2>2, <3>1, TfSetting DEF TfCourse
  <2>3. CASE TfEnds("stop", "restored")
    BY <1>3, <2>1, <2>3, TfEnding DEF TfCourse
  <2> QED BY <2>1, <2>2, <2>3 DEF StopFollows
<1> QED BY <1>2, <1>3

LEMMA TfTakingAnswer ==
  ASSUME TfInv, NEW r \in TfRoute, TfTakesAnswer(r)
  PROVE  TfInv'
<1>1. PICK a \in TfReply : conn[r].got = <<a>>
  BY TfClients, TfConnectionIs DEF TfTakesAnswer, Answered
<1>2. Answer(r) = a /\ a.mode \in Mode
  BY <1>1, OneTail DEF Answer, TfReply
<1>3. PICK at \in {"off", "set_mode"}, told \in {None, "active", "error", "restored", "inactive"} :
        /\ TfBecomes(r, at, told)
        /\ tf' \in [active : BOOLEAN, previous : Mode \union {"unknown", None}]
        /\ r = "start" =>
             /\ tfRequest[r].at \in {"get_state", "set_mode"}
             /\ at = "set_mode" => told = None
             /\ told = "active" =>
                  \/ tfRequest[r].at = "get_state" /\ a.mode = "measurement"
                  \/ tfRequest[r].at = "set_mode"
  <2>1. a.mode \in Mode \union {"unknown"} /\ ~Free(r)
    BY <1>2 DEF TfTakesAnswer
  <2>2. TfFollows(r, [mode |-> a.mode, ok |-> TRUE]) \/ TfFollows(r, [mode |-> a.mode, ok |-> FALSE])
    <3>1. CASE tfRequest[r].target \in Mode
      <4>1. (tfRequest[r].target \in Mode) = TRUE
        BY <3>1
      <4> QED BY <1>2, <4>1 DEF TfTakesAnswer
    <3>2. CASE tfRequest[r].target \notin Mode
      <4>1. (tfRequest[r].target \in Mode) = FALSE
        BY <3>2
      <4> QED BY <1>2, <4>1 DEF TfTakesAnswer
    <3> QED BY <3>1, <3>2
  <2>3. TfCourse(r, a.mode, TRUE) \/ TfCourse(r, a.mode, FALSE)
    BY <2>1, <2>2, TfFollowing
  <2> QED BY <2>3 DEF TfCourse
<1>4. r = "start" /\ told = "active" => mode = "measurement" \/ others["start"]
  BY <1>1, <1>2, <1>3, OneTail DEF TfInv, StartKnows
<1>5. late' = late /\ UNCHANGED <<gmUp, mode, gateOpen, venue, others>> /\ conn' = [conn EXCEPT ![r] = Closed]
  BY DEF TfTakesAnswer
<1>6. late' \subseteq [by : Client \union {None}, sent : {<<q>> : q \in TfQuery}]
  BY <1>5 DEF TfInv, TfTypes
<1>7. \A s \in late' : s.by = "start" => s \in late
  BY <1>5
<1>8. r = "start" => /\ at = "set_mode" => told = None
                     /\ told = "active" => mode = "measurement" \/ others["start"]
  BY <1>3, <1>4
<1>9. r = "start" => tfRequest["start"].at # "off"
  BY <1>3
<1> QED BY <1>3, <1>5, <1>6, <1>7, <1>8, <1>9, TfGoesOn

LEMMA TfTakingEvent ==
  ASSUME TfInv, NEW r \in TfRoute, TfTakesEvent(r)
  PROVE  TfInv'
<1>1. PICK at \in {"off", "set_mode"}, told \in {None, "active", "error", "restored", "inactive"} :
        /\ TfBecomes(r, at, told)
        /\ tf' \in [active : BOOLEAN, previous : Mode \union {"unknown", None}]
        /\ r = "start" =>
             /\ tfRequest[r].at \in {"get_state", "set_mode"}
             /\ at = "set_mode" => told = None
             /\ told = "active" =>
                  \/ tfRequest[r].at = "get_state" /\ "unknown" = "measurement"
                  \/ tfRequest[r].at = "set_mode" /\ FALSE = TRUE
  BY TfFollowing DEF TfTakesEvent, Misread, TfCourse
<1>2. UNCHANGED <<gmUp, mode, gateOpen, venue, others>> /\ conn' = [conn EXCEPT ![r] = Closed]
  BY DEF TfTakesEvent
<1>3. /\ late' \subseteq [by : Client \union {None}, sent : {<<q>> : q \in TfQuery}]
      /\ \A s \in late' : s.by = "start" => s \in late
  <2>1. late' = {IF s.by = r THEN [s EXCEPT !.by = None] ELSE s : s \in Left(r)}
    BY DEF TfTakesEvent
  <2>2. \A s \in Left(r) : /\ s \in [by : Client \union {None}, sent : {<<q>> : q \in TfQuery}]
                           /\ s \in late \/ s.by = r
    BY LeftIsTyped
  <2>3. \A s \in Left(r) : /\ [s EXCEPT !.by = None] \in [by : Client \union {None}, sent : {<<q>> : q \in TfQuery}]
                           /\ [s EXCEPT !.by = None].by = None
    BY <2>2
  <2> QED BY <2>1, <2>2, <2>3, TfClients
<1>4. r = "start" => /\ at = "set_mode" => told = None
                     /\ told = "active" => mode = "measurement" \/ others["start"]
  BY <1>1
<1>5. r = "start" => tfRequest["start"].at # "off"
  BY <1>1
<1> QED BY <1>1, <1>2, <1>3, <1>4, <1>5, TfGoesOn

LEMMA TfFailing ==
  ASSUME TfInv, NEW r \in TfRoute, TfFails(r)
  PROVE  TfInv'
<1> DEFINE told == IF r = "stop" THEN "restored" ELSE "error"
<1>1. TfEnds(r, told)
  BY DEF TfFails
<1>2. told \in {None, "active", "error", "restored", "inactive"} /\ told # "active" /\ (r = "start" => told = "error")
  BY TfClients
<1> HIDE DEF told
<1>3. /\ TfBecomes(r, "off", told)
      /\ tf' \in [active : BOOLEAN, previous : Mode \union {"unknown", None}]
  BY <1>1, TfEnding
<1>4. UNCHANGED <<gmUp, mode, gateOpen, venue, others>> /\ conn' = [conn EXCEPT ![r] = Closed]
      /\ late' = Left(r) /\ tfRequest[r].at # "off"
  BY DEF TfFails
<1>5. \A s \in late' : s.by = "start" => s \in late \/ (r = "start" /\ told = "error")
  BY <1>2, <1>4, LeftIsTyped
<1>6. r = "start" => /\ "off" = "set_mode" => told = None
                     /\ told = "active" => mode = "measurement" \/ others["start"]
  BY <1>2
<1>7. \A s \in late' : s.by = "start" => s \in late \/ (r = "start" /\ "off" = "off" /\ told = "error")
  BY <1>5
<1>8. late' \subseteq [by : Client \union {None}, sent : {<<q>> : q \in TfQuery}]
  BY <1>4, LeftIsTyped
<1>9. "off" \in {"off", "set_mode"} /\ (r = "start" => tfRequest["start"].at # "off")
  BY <1>4
<1> QED BY <1>2, <1>3, <1>4, <1>6, <1>7, <1>8, <1>9, TfGoesOn

LEMMA TfStutters ==
  ASSUME TfInv, UNCHANGED <<gmVars, tfVars>>
  PROVE  TfInv'
BY DEF gmVars, tfVars, TfInv, TfTypes, TfAsksOnce, StartKnows, StartsInMeasurementMode, Free

(* Whoever is told that the measurement is active finds GraphManager in    *)
(* measurement mode.                                                       *)
THEOREM StartsInMeasurementModeHolds == TfModeSpec => []StartsInMeasurementMode
<1>1. GmInit /\ TfInit => TfInv
  BY TfStarts
<1>2. TfInv /\ [TfNext]_<<gmVars, tfVars>> => TfInv'
  <2> SUFFICES ASSUME TfInv, [TfNext]_<<gmVars, tfVars>>
               PROVE  TfInv'
    OBVIOUS
  <2>1. ASSUME NEW r \in TfRoute,
               TfArrives(r) \/ TfAsk(r) \/ TfTakesAnswer(r) \/ TfTakesEvent(r) \/ TfFails(r)
        PROVE  TfInv'
    BY <2>1, TfArriving, TfAsking, TfTakingAnswer, TfTakingEvent, TfFailing
  <2>2. ASSUME NEW m \in Mode, OthersSet(m)
        PROVE  TfInv'
    BY <2>2, TfOthers
  <2>3. CASE GmStep /\ UNCHANGED <<tf, tfRequest, tfAsked>>
    BY <2>3, TfServe, TfServeLate, TfPassOver, TfGmEnds, TfGmStarts DEF GmStep
  <2>4. CASE UNCHANGED <<gmVars, tfVars>>
    BY <2>4, TfStutters
  <2> QED BY <2>1, <2>2, <2>3, <2>4 DEF TfNext
<1>3. TfInv => StartsInMeasurementMode
  BY DEF TfInv
<1> QED BY <1>1, <1>2, <1>3, PTL DEF TfModeSpec

-----------------------------------------------------------------------------
(* The library that drives the signal generator.                           *)

(* Events given out, kept and unread, by their places. *)
IsEvent(m) == m.type = "event"

Numbered(pushed) == \A n \in DOMAIN pushed : pushed[n].n = n /\ IsEvent(pushed[n])

AsPushed(s, pushed) ==
  \A i \in DOMAIN s : IsEvent(s[i]) => s[i].n \in DOMAIN pushed /\ s[i] = pushed[s[i].n]

Earlier(a, b) == IsEvent(a) /\ IsEvent(b) /\ a.event = b.event => a.n < b.n

InOrder(s) == \A i, j \in DOMAIN s : i < j => Earlier(s[i], s[j])

Ahead(s, t) == \A i \in DOMAIN s, j \in DOMAIN t : Earlier(s[i], t[j])

Holds(s, e) == \E i \in DOMAIN s : s[i] = e

Once(g, k, l, pushed) ==
  /\ Numbered(pushed) /\ AsPushed(g, pushed) /\ AsPushed(k, pushed) /\ AsPushed(l, pushed)
  /\ InOrder(g) /\ InOrder(k) /\ InOrder(l) /\ Ahead(g, k) /\ Ahead(g, l) /\ Ahead(k, l)
  /\ \A n \in DOMAIN pushed : Holds(g, pushed[n]) \/ Holds(k, pushed[n]) \/ Holds(l, pushed[n])

EventMessage == [type : {"event"}, event : Event, n : Nat]

LineAsked == Command_ \union {"status", "playrec", "get_recording"}

Message ==
  EventMessage \union [type : {"ack"}, cmd : LineAsked, ok : BOOLEAN, busy : BOOLEAN]
    \union [type : {"state"}, busy : BOOLEAN]

(* One more at the end, or one less somewhere, or two of them joined. *)
Longer(s, e, t) ==
  /\ \A i \in DOMAIN s : i \in DOMAIN t /\ t[i] = s[i]
  /\ \E n \in DOMAIN t : /\ t[n] = e /\ \A i \in DOMAIN t : i \in DOMAIN s \/ i = n
                         /\ \A i \in DOMAIN s : i < n

Shorter(s, p, t) ==
  /\ \A i \in DOMAIN t : \/ i < p /\ i \in DOMAIN s /\ t[i] = s[i]
                         \/ i >= p /\ i + 1 \in DOMAIN s /\ t[i] = s[i + 1]
  /\ \A i \in DOMAIN s : \/ i = p
                         \/ \E j \in DOMAIN t : t[j] = s[i]

LEMMA AppendIsLonger ==
  ASSUME NEW S, NEW s \in Seq(S), NEW e \in S
  PROVE  Append(s, e) \in Seq(S) /\ Longer(s, e, Append(s, e)) /\ DOMAIN s \subseteq Nat
         /\ DOMAIN Append(s, e) \subseteq Nat
<1>1. /\ Append(s, e) \in Seq(S) /\ Len(Append(s, e)) = Len(s) + 1 /\ Len(s) \in Nat
      /\ \A i \in 1..Len(s) : Append(s, e)[i] = s[i]
      /\ Append(s, e)[Len(s) + 1] = e
  BY AppendProperties
<1>2. DOMAIN s = 1..Len(s) /\ DOMAIN Append(s, e) = 1..Len(s) + 1
  BY <1>1
<1>3. \A i \in DOMAIN s : i \in DOMAIN Append(s, e) /\ Append(s, e)[i] = s[i]
  BY <1>1, <1>2
<1>4. /\ Len(s) + 1 \in DOMAIN Append(s, e)
      /\ \A i \in DOMAIN Append(s, e) : i \in DOMAIN s \/ i = Len(s) + 1
      /\ \A i \in DOMAIN s : i < Len(s) + 1
  BY <1>1, <1>2
<1> QED BY <1>1, <1>2, <1>3, <1>4 DEF Longer

LEMMA TailIsShorter ==
  ASSUME NEW S, NEW s \in Seq(S), s # << >>
  PROVE  /\ Tail(s) \in Seq(S) /\ Shorter(s, 1, Tail(s)) /\ Head(s) = s[1] /\ 1 \in DOMAIN s
         /\ DOMAIN s \subseteq Nat \ {0} /\ DOMAIN Tail(s) \subseteq Nat \ {0} /\ Head(s) \in S
<1>1. /\ Tail(s) \in Seq(S) /\ Len(Tail(s)) = Len(s) - 1 /\ Len(s) \in Nat \ {0}
      /\ \A i \in 1..Len(Tail(s)) : Tail(s)[i] = s[i + 1]
  BY HeadTailProperties, EmptySeq
<1>2. DOMAIN s = 1..Len(s) /\ DOMAIN Tail(s) = 1..(Len(s) - 1)
  BY <1>1
<1>3. \A i \in DOMAIN Tail(s) : i >= 1 /\ i + 1 \in DOMAIN s /\ Tail(s)[i] = s[i + 1]
  BY <1>1, <1>2
<1>4. ASSUME NEW i \in DOMAIN s, i # 1 PROVE \E j \in DOMAIN Tail(s) : Tail(s)[j] = s[i]
  <2>1. i - 1 \in DOMAIN Tail(s) /\ Tail(s)[i - 1] = s[i]
    BY <1>1, <1>2, <1>4
  <2> QED BY <2>1
<1> QED BY <1>1, <1>2, <1>3, <1>4 DEF Shorter

LEMMA WithoutIsShorter ==
  ASSUME NEW S, NEW s \in Seq(S), NEW p \in DOMAIN s
  PROVE  /\ Without(s, p) \in Seq(S) /\ Shorter(s, p, Without(s, p))
         /\ DOMAIN s \subseteq Nat \ {0} /\ DOMAIN Without(s, p) \subseteq Nat \ {0}
<1> DEFINE a == SubSeq(s, 1, p - 1)
           b == SubSeq(s, p + 1, Len(s))
           t == a \o b
<1>1. Len(s) \in Nat /\ DOMAIN s = 1..Len(s) /\ p \in 1..Len(s)
  OBVIOUS
<1>2. a \in Seq(S) /\ Len(a) = p - 1 /\ \A i \in 1..p - 1 : a[i] = s[i]
  <2>1. p - 1 \in Int /\ \A i \in 1..p - 1 : s[i] \in S
    BY <1>1
  <2>2. /\ a \in Seq(S) /\ Len(a) = IF 1 <= p - 1 THEN (p - 1) - 1 + 1 ELSE 0
        /\ \A i \in 1..(p - 1) - 1 + 1 : a[i] = s[1 + i - 1]
    BY <2>1, SubSeqProperties
  <2> HIDE DEF a
  <2> QED BY <1>1, <2>2
<1>3. b \in Seq(S) /\ Len(b) = Len(s) - p /\ \A i \in 1..Len(s) - p : b[i] = s[p + i]
  <2>1. p + 1 \in Int /\ Len(s) \in Int /\ \A i \in p + 1..Len(s) : s[i] \in S
    BY <1>1
  <2>2. /\ b \in Seq(S) /\ Len(b) = IF p + 1 <= Len(s) THEN Len(s) - (p + 1) + 1 ELSE 0
        /\ \A i \in 1..Len(s) - (p + 1) + 1 : b[i] = s[(p + 1) + i - 1]
    BY <2>1, SubSeqProperties
  <2> HIDE DEF b
  <2>3. Len(b) = Len(s) - p
    BY <1>1, <2>2
  <2>4. ASSUME NEW i \in 1..Len(s) - p PROVE b[i] = s[p + i]
    <3>1. i \in 1..Len(s) - (p + 1) + 1 /\ (p + 1) + i - 1 = p + i
      BY <1>1
    <3> QED BY <2>2, <3>1
  <2> QED BY <2>2, <2>3, <2>4
<1> HIDE DEF a, b
<1>4. /\ t \in Seq(S) /\ Len(t) = Len(s) - 1
      /\ \A i \in 1..Len(s) - 1 : t[i] = IF i < p THEN s[i] ELSE s[i + 1]
  <2>1. /\ t \in Seq(S) /\ Len(t) = Len(a) + Len(b)
        /\ \A i \in 1..Len(a) + Len(b) : t[i] = IF i <= Len(a) THEN a[i] ELSE b[i - Len(a)]
    BY <1>2, <1>3, ConcatProperties
  <2> HIDE DEF t
  <2>2. Len(t) = Len(s) - 1
    BY <1>1, <1>2, <1>3, <2>1
  <2>3. ASSUME NEW i \in 1..Len(s) - 1 PROVE t[i] = IF i < p THEN s[i] ELSE s[i + 1]
    <3>1. t[i] = IF i <= Len(a) THEN a[i] ELSE b[i - Len(a)]
      BY <1>1, <1>2, <1>3, <2>1
    <3>2. CASE i < p
      BY <1>1, <1>2, <3>1, <3>2
    <3>3. CASE i >= p
      <4>1. i - Len(a) \in 1..Len(s) - p /\ p + (i - Len(a)) = i + 1 /\ ~(i <= Len(a))
        BY <1>1, <1>2, <3>3
      <4>2. b[i - Len(a)] = s[p + (i - Len(a))]
        BY <1>3, <4>1
      <4> QED BY <1>1, <3>1, <3>3, <4>1, <4>2
    <3> QED BY <1>1, <3>2, <3>3
  <2> QED BY <2>1, <2>2, <2>3
<1>5. Without(s, p) = t
  BY DEF Without, a, b
<1> HIDE DEF t
<1>6. DOMAIN t = 1..(Len(s) - 1)
  BY <1>1, <1>4
<1>7. ASSUME NEW i \in DOMAIN s, i # p PROVE \E j \in DOMAIN t : t[j] = s[i]
  <2>1. CASE i < p
    <3>1. i \in DOMAIN t /\ t[i] = s[i]
      BY <1>1, <1>4, <1>6, <2>1
    <3> QED BY <3>1
  <2>2. CASE i > p
    <3>1. i - 1 \in DOMAIN t /\ t[i - 1] = s[i]
      BY <1>1, <1>4, <1>6, <2>2
    <3> QED BY <3>1
  <2> QED BY <1>1, <1>7, <2>1, <2>2
<1>8. \A i \in DOMAIN t : \/ i < p /\ i \in DOMAIN s /\ t[i] = s[i]
                          \/ i >= p /\ i + 1 \in DOMAIN s /\ t[i] = s[i + 1]
  BY <1>1, <1>4, <1>6
<1> QED BY <1>1, <1>4, <1>5, <1>6, <1>7, <1>8 DEF Shorter

-----------------------------------------------------------------------------
(* An event moves on. *)

(* Of what s has, t has no more, in the same order. *)
LEMMA ShorterKeeps ==
  ASSUME NEW s, NEW t, NEW p \in Nat, Shorter(s, p, t), NEW pushed,
         DOMAIN s \subseteq Nat, DOMAIN t \subseteq Nat
  PROVE  /\ AsPushed(s, pushed) => AsPushed(t, pushed)
         /\ InOrder(s) => InOrder(t)
         /\ \A u : (Ahead(s, u) => Ahead(t, u)) /\ (Ahead(u, s) => Ahead(u, t))
<1>1. \A i \in DOMAIN t : \E k \in DOMAIN s : t[i] = s[k] /\ k = (IF i < p THEN i ELSE i + 1)
  BY DEF Shorter
<1>2. AsPushed(s, pushed) => AsPushed(t, pushed)
  BY <1>1 DEF AsPushed, IsEvent
<1>3. ASSUME InOrder(s), NEW i \in DOMAIN t, NEW j \in DOMAIN t, i < j
      PROVE  Earlier(t[i], t[j])
  <2>1. PICK k \in DOMAIN s : t[i] = s[k] /\ k = (IF i < p THEN i ELSE i + 1)
    BY <1>1
  <2>2. PICK m \in DOMAIN s : t[j] = s[m] /\ m = (IF j < p THEN j ELSE j + 1)
    BY <1>1
  <2>3. k < m
    BY <1>3, <2>1, <2>2
  <2> QED BY <1>3, <2>1, <2>2, <2>3 DEF InOrder
<1>4. \A u : (Ahead(s, u) => Ahead(t, u)) /\ (Ahead(u, s) => Ahead(u, t))
  BY <1>1 DEF Ahead
<1> QED BY <1>2, <1>3, <1>4 DEF InOrder

LEMMA LongerKeeps ==
  ASSUME NEW s, NEW e, NEW t, Longer(s, e, t), NEW pushed,
         DOMAIN s \subseteq Nat, DOMAIN t \subseteq Nat
  PROVE  /\ AsPushed(s, pushed) /\ (IsEvent(e) => e.n \in DOMAIN pushed /\ e = pushed[e.n])
              => AsPushed(t, pushed)
         /\ InOrder(s) /\ (\A i \in DOMAIN s : Earlier(s[i], e)) => InOrder(t)
         /\ \A u : Ahead(s, u) /\ (\A i \in DOMAIN u : Earlier(e, u[i])) => Ahead(t, u)
         /\ \A u : Ahead(u, s) /\ (\A i \in DOMAIN u : Earlier(u[i], e)) => Ahead(u, t)
<1>1. PICK n \in DOMAIN t : /\ t[n] = e /\ \A i \in DOMAIN t : i \in DOMAIN s \/ i = n
                            /\ \A i \in DOMAIN s : i < n
  BY DEF Longer
<1>2. \A i \in DOMAIN s : i \in DOMAIN t /\ t[i] = s[i]
  BY DEF Longer
<1>3. \A i \in DOMAIN t : (i \in DOMAIN s /\ t[i] = s[i]) \/ t[i] = e
  BY <1>1, <1>2
<1>4. AsPushed(s, pushed) /\ (IsEvent(e) => e.n \in DOMAIN pushed /\ e = pushed[e.n]) => AsPushed(t, pushed)
  BY <1>3 DEF AsPushed
<1>5. ASSUME InOrder(s), \A i \in DOMAIN s : Earlier(s[i], e),
             NEW i \in DOMAIN t, NEW j \in DOMAIN t, i < j
      PROVE  Earlier(t[i], t[j])
  <2>1. i \in DOMAIN s
    BY <1>1, <1>5
  <2> QED BY <1>1, <1>2, <1>5, <2>1 DEF InOrder
<1>6. \A u : Ahead(s, u) /\ (\A i \in DOMAIN u : Earlier(e, u[i])) => Ahead(t, u)
  BY <1>3 DEF Ahead
<1>7. \A u : Ahead(u, s) /\ (\A i \in DOMAIN u : Earlier(u[i], e)) => Ahead(u, t)
  BY <1>3 DEF Ahead
<1> QED BY <1>4, <1>5, <1>6, <1>7 DEF InOrder

LEMMA HoldsIs ==
  ASSUME NEW s, NEW t
  PROVE  /\ \A e : Longer(s, e, t) => Holds(t, e) /\ \A f : Holds(s, f) => Holds(t, f)
         /\ \A p : Shorter(s, p, t) => \A f : Holds(s, f) => f = s[p] \/ Holds(t, f)
BY DEF Longer, Shorter, Holds

(* What stands first in l, as long as it is not behind another of its name.*)
LEMMA HeadIs ==
  ASSUME NEW l \in Seq(Message), l # << >>, NEW pushed, AsPushed(l, pushed), InOrder(l)
  PROVE  /\ Head(l) = l[1] /\ 1 \in DOMAIN l /\ Shorter(l, 1, Tail(l)) /\ Tail(l) \in Seq(Message)
         /\ DOMAIN l \subseteq Nat /\ DOMAIN Tail(l) \subseteq Nat
         /\ IsEvent(Head(l)) => /\ Head(l) \in EventMessage
                                /\ Head(l).n \in DOMAIN pushed /\ Head(l) = pushed[Head(l).n]
         /\ \A i \in DOMAIN Tail(l) : Earlier(Head(l), Tail(l)[i])
<1>1. /\ Head(l) = l[1] /\ 1 \in DOMAIN l /\ Shorter(l, 1, Tail(l)) /\ Tail(l) \in Seq(Message)
      /\ DOMAIN l \subseteq Nat \ {0} /\ DOMAIN Tail(l) \subseteq Nat \ {0} /\ Head(l) \in Message
  BY TailIsShorter
<1>2. IsEvent(Head(l)) => Head(l) \in EventMessage
  BY <1>1 DEF IsEvent, Message
<1>3. IsEvent(Head(l)) => Head(l).n \in DOMAIN pushed /\ Head(l) = pushed[Head(l).n]
  BY <1>1 DEF AsPushed
<1>4. \A i \in DOMAIN Tail(l) : i + 1 \in DOMAIN l /\ Tail(l)[i] = l[i + 1] /\ 1 < i + 1
  BY <1>1 DEF Shorter
<1>5. \A i \in DOMAIN Tail(l) : Earlier(Head(l), Tail(l)[i])
  BY <1>1, <1>4 DEF InOrder
<1> QED BY <1>1, <1>2, <1>3, <1>5

LEMMA OnceTaken ==
  ASSUME NEW g \in Seq(EventMessage), NEW k \in Seq(EventMessage), NEW l \in Seq(Message),
         l # << >>, NEW pushed, Once(g, k, l, pushed), IsEvent(Head(l))
  PROVE  /\ Head(l) \in EventMessage /\ Tail(l) \in Seq(Message)
         /\ (\A i \in DOMAIN k : k[i].event # Head(l).event)
              => Once(Append(g, Head(l)), k, Tail(l), pushed)
         /\ Once(g, Append(k, Head(l)), Tail(l), pushed)
<1> DEFINE m == Head(l)
           t == Tail(l)
<1>1. /\ m = l[1] /\ 1 \in DOMAIN l /\ Shorter(l, 1, t) /\ t \in Seq(Message)
      /\ DOMAIN l \subseteq Nat /\ DOMAIN t \subseteq Nat
      /\ m \in EventMessage /\ m.n \in DOMAIN pushed /\ m = pushed[m.n] /\ IsEvent(m)
      /\ \A i \in DOMAIN t : Earlier(m, t[i])
  BY HeadIs DEF Once
<1> HIDE DEF m, t
<1>2. Once(g, k, l, pushed)
  OBVIOUS
<1>3. /\ AsPushed(t, pushed) /\ InOrder(t) /\ Ahead(g, t) /\ Ahead(k, t)
  BY <1>1, ShorterKeeps DEF Once
<1>4. (\A i \in DOMAIN g : Earlier(g[i], m)) /\ (\A i \in DOMAIN k : Earlier(k[i], m))
  BY <1>1, <1>2 DEF Once, Ahead
<1>5. \A f : Holds(l, f) => f = m \/ Holds(t, f)
  BY <1>1, HoldsIs
<1>6. ASSUME \A i \in DOMAIN k : k[i].event # m.event
      PROVE  Once(Append(g, m), k, t, pushed)
  <2> DEFINE h == Append(g, m)
  <2>1. Longer(g, m, h) /\ DOMAIN g \subseteq Nat /\ DOMAIN h \subseteq Nat
    BY <1>1, AppendIsLonger
  <2> HIDE DEF h
  <2>2. \A i \in DOMAIN k : Earlier(m, k[i])
    BY <1>6 DEF Earlier
  <2>3. AsPushed(h, pushed) /\ InOrder(h) /\ Ahead(h, k) /\ Ahead(h, t)
    BY <1>1, <1>2, <1>3, <1>4, <2>1, <2>2, LongerKeeps DEF Once
  <2>4. Holds(h, m) /\ \A f : Holds(g, f) => Holds(h, f)
    BY <2>1, HoldsIs
  <2> QED BY <1>2, <1>3, <1>5, <2>3, <2>4 DEF Once, h
<1>7. Once(g, Append(k, m), t, pushed)
  <2> DEFINE h == Append(k, m)
  <2>1. Longer(k, m, h) /\ DOMAIN k \subseteq Nat /\ DOMAIN h \subseteq Nat
    BY <1>1, AppendIsLonger
  <2> HIDE DEF h
  <2>2. AsPushed(h, pushed) /\ InOrder(h) /\ Ahead(g, h) /\ Ahead(h, t)
    BY <1>1, <1>2, <1>3, <1>4, <2>1, LongerKeeps DEF Once
  <2>3. Holds(h, m) /\ \A f : Holds(k, f) => Holds(h, f)
    BY <2>1, HoldsIs
  <2> QED BY <1>2, <1>3, <1>5, <2>2, <2>3 DEF Once, h
<1> QED BY <1>1, <1>6, <1>7 DEF m, t

LEMMA OnceDropped ==
  ASSUME NEW g, NEW k, NEW l \in Seq(Message), l # << >>, NEW pushed,
         Once(g, k, l, pushed), ~IsEvent(Head(l))
  PROVE  Once(g, k, Tail(l), pushed) /\ Tail(l) \in Seq(Message)
<1> DEFINE t == Tail(l)
<1>1. /\ Head(l) = l[1] /\ Shorter(l, 1, t) /\ t \in Seq(Message)
      /\ DOMAIN l \subseteq Nat /\ DOMAIN t \subseteq Nat
  BY HeadIs DEF Once
<1> HIDE DEF t
<1>2. /\ AsPushed(t, pushed) /\ InOrder(t) /\ Ahead(g, t) /\ Ahead(k, t)
  BY <1>1, ShorterKeeps DEF Once
<1>3. \A f : Holds(l, f) => f = Head(l) \/ Holds(t, f)
  BY <1>1, HoldsIs
<1>4. \A n \in DOMAIN pushed : pushed[n] # Head(l)
  BY DEF Once, Numbered
<1> QED BY <1>1, <1>2, <1>3, <1>4 DEF Once, t

LEMMA OnceGiven ==
  ASSUME NEW g \in Seq(EventMessage), NEW k \in Seq(EventMessage), NEW l, NEW pushed,
         Once(g, k, l, pushed), NEW p \in DOMAIN k,
         \A i \in DOMAIN k : i < p => k[i].event # k[p].event
  PROVE  Once(Append(g, k[p]), Without(k, p), l, pushed)
<1> DEFINE e == k[p]
           h == Append(g, e)
           t == Without(k, p)
<1>1. e \in EventMessage /\ IsEvent(e) /\ p \in Nat
  <2>1. DOMAIN k = 1..Len(k) /\ Len(k) \in Nat /\ e \in EventMessage
    OBVIOUS
  <2> QED BY <2>1 DEF EventMessage, IsEvent
<1>2. Longer(g, e, h) /\ DOMAIN g \subseteq Nat /\ DOMAIN h \subseteq Nat
  BY <1>1, AppendIsLonger
<1>3. Shorter(k, p, t) /\ DOMAIN k \subseteq Nat /\ DOMAIN t \subseteq Nat
  BY WithoutIsShorter
<1> HIDE DEF h, t
<1>4. Once(g, k, l, pushed)
  OBVIOUS
<1>5. AsPushed(t, pushed) /\ InOrder(t) /\ Ahead(g, t) /\ Ahead(t, l)
  BY <1>1, <1>3, <1>4, ShorterKeeps DEF Once
<1>6. \A i \in DOMAIN t : Earlier(e, t[i])
  <2> TAKE i \in DOMAIN t
  <2>1. CASE i < p /\ i \in DOMAIN k /\ t[i] = k[i]
    BY <2>1 DEF Earlier
  <2>2. CASE i >= p /\ i + 1 \in DOMAIN k /\ t[i] = k[i + 1]
    <3>1. p < i + 1
      BY <1>1, <1>3, <2>2
    <3> QED BY <1>4, <2>2, <3>1 DEF Once, InOrder
  <2> QED BY <1>3, <2>1, <2>2 DEF Shorter
<1>7. (\A i \in DOMAIN g : Earlier(g[i], e)) /\ (\A i \in DOMAIN l : Earlier(e, l[i]))
  BY <1>4 DEF Once, Ahead
<1>8. e.n \in DOMAIN pushed /\ e = pushed[e.n]
  BY <1>1, <1>4 DEF Once, AsPushed
<1> HIDE DEF e
<1>9. AsPushed(h, pushed) /\ InOrder(h) /\ Ahead(h, t) /\ Ahead(h, l)
  BY <1>2, <1>4, <1>5, <1>6, <1>7, <1>8, LongerKeeps DEF Once
<1>10. /\ Holds(h, e) /\ \A f : Holds(g, f) => Holds(h, f)
       /\ \A f : Holds(k, f) => f = e \/ Holds(t, f)
  BY <1>2, <1>3, HoldsIs DEF e
<1> QED BY <1>4, <1>5, <1>9, <1>10 DEF Once, e, h, t

LEMMA OnceDrained ==
  ASSUME NEW g \in Seq(EventMessage), NEW k \in Seq(EventMessage), NEW l, NEW pushed,
         Once(g, k, l, pushed)
  PROVE  Once(g \o k, << >>, l, pushed) /\ g \o k \in Seq(EventMessage)
<1> DEFINE h == g \o k
<1>1. /\ h \in Seq(EventMessage) /\ Len(h) = Len(g) + Len(k) /\ Len(g) \in Nat /\ Len(k) \in Nat
      /\ \A i \in 1..Len(g) + Len(k) : h[i] = IF i <= Len(g) THEN g[i] ELSE k[i - Len(g)]
  BY ConcatProperties
<1> HIDE DEF h
<1>2. DOMAIN h = 1..Len(g) + Len(k) /\ DOMAIN g = 1..Len(g) /\ DOMAIN k = 1..Len(k)
  BY <1>1
<1>3. \A i \in DOMAIN h : \/ i \in DOMAIN g /\ h[i] = g[i] /\ i <= Len(g)
                          \/ i - Len(g) \in DOMAIN k /\ h[i] = k[i - Len(g)] /\ i > Len(g)
  BY <1>1, <1>2
<1>4. \A f : Holds(g, f) \/ Holds(k, f) => Holds(h, f)
  <2>1. \A i \in DOMAIN g : i \in DOMAIN h /\ h[i] = g[i]
    BY <1>1, <1>2
  <2>2. \A i \in DOMAIN k : i + Len(g) \in DOMAIN h /\ h[i + Len(g)] = k[i]
    <3> TAKE i \in DOMAIN k
    <3>1. i + Len(g) \in DOMAIN h /\ ~(i + Len(g) <= Len(g)) /\ (i + Len(g)) - Len(g) = i
      BY <1>1, <1>2
    <3> QED BY <1>1, <1>2, <3>1
  <2> QED BY <2>1, <2>2 DEF Holds
<1>5. Once(g, k, l, pushed)
  OBVIOUS
<1>6. AsPushed(h, pushed) /\ Ahead(h, l)
  BY <1>3, <1>5 DEF Once, AsPushed, Ahead
<1>7. ASSUME NEW i \in DOMAIN h, NEW j \in DOMAIN h, i < j
      PROVE  Earlier(h[i], h[j])
  <2>1. CASE i \in DOMAIN g /\ h[i] = g[i] /\ j \in DOMAIN g /\ h[j] = g[j]
    BY <1>5, <1>7, <2>1 DEF Once, InOrder
  <2>2. CASE /\ i \in DOMAIN g /\ h[i] = g[i]
             /\ j - Len(g) \in DOMAIN k /\ h[j] = k[j - Len(g)]
    BY <1>5, <2>2 DEF Once, Ahead
  <2>3. CASE /\ i - Len(g) \in DOMAIN k /\ h[i] = k[i - Len(g)]
             /\ j - Len(g) \in DOMAIN k /\ h[j] = k[j - Len(g)]
    <3>1. i - Len(g) < j - Len(g)
      BY <1>1, <1>2, <1>7
    <3> QED BY <1>5, <2>3, <3>1 DEF Once, InOrder
  <2>4. \/ i <= Len(g) \/ j > Len(g)
    BY <1>1, <1>2, <1>7
  <2> QED BY <1>1, <1>2, <1>3, <1>7, <2>1, <2>2, <2>3, <2>4
<1>8. InOrder(h)
  BY <1>7 DEF InOrder
<1>9. AsPushed(<< >>, pushed) /\ InOrder(<< >>) /\ Ahead(h, << >>) /\ Ahead(<< >>, l)
  BY DEF AsPushed, InOrder, Ahead
<1> QED BY <1>1, <1>4, <1>5, <1>6, <1>8, <1>9 DEF Once, h

LEMMA OncePushed ==
  ASSUME NEW g, NEW k, NEW l \in Seq(Message), NEW pushed \in Seq(EventMessage),
         Once(g, k, l, pushed), NEW m \in EventMessage, m.n = Len(pushed) + 1
  PROVE  Once(g, k, Append(l, m), Append(pushed, m))
<1> DEFINE h == Append(l, m)
           after == Append(pushed, m)
<1>1. Longer(l, m, h) /\ DOMAIN l \subseteq Nat /\ DOMAIN h \subseteq Nat
  BY AppendIsLonger DEF Message
<1>2. /\ DOMAIN pushed = 1..Len(pushed) /\ Len(pushed) \in Nat
      /\ DOMAIN after = DOMAIN pushed \union {m.n} /\ after[m.n] = m
      /\ \A n \in DOMAIN pushed : after[n] = pushed[n] /\ n < m.n
  BY AppendProperties
<1> HIDE DEF h, after
<1>3. IsEvent(m) /\ Once(g, k, l, pushed)
  BY DEF EventMessage, IsEvent
<1>4. Numbered(after)
  BY <1>2, <1>3 DEF Once, Numbered
<1>5. AsPushed(g, after) /\ AsPushed(k, after) /\ AsPushed(l, after)
  BY <1>2, <1>3 DEF Once, AsPushed
<1>6. /\ \A i \in DOMAIN g : Earlier(g[i], m)
      /\ \A i \in DOMAIN k : Earlier(k[i], m)
      /\ \A i \in DOMAIN l : Earlier(l[i], m)
  BY <1>2, <1>3 DEF Once, AsPushed, Earlier
<1>7. AsPushed(h, after) /\ InOrder(h) /\ Ahead(g, h) /\ Ahead(k, h)
  BY <1>1, <1>2, <1>3, <1>5, <1>6, LongerKeeps DEF Once
<1>8. Holds(h, m) /\ \A f : Holds(l, f) => Holds(h, f)
  BY <1>1, HoldsIs
<1>9. \A n \in DOMAIN after : Holds(g, after[n]) \/ Holds(k, after[n]) \/ Holds(h, after[n])
  BY <1>2, <1>3, <1>8 DEF Once
<1> QED BY <1>3, <1>4, <1>5, <1>7, <1>9 DEF Once, h, after

LEMMA OnceAnswered ==
  ASSUME NEW g, NEW k, NEW l \in Seq(Message), NEW pushed, Once(g, k, l, pushed),
         NEW m \in Message, ~IsEvent(m)
  PROVE  Once(g, k, Append(l, m), pushed)
<1> DEFINE h == Append(l, m)
<1>1. Longer(l, m, h) /\ DOMAIN l \subseteq Nat /\ DOMAIN h \subseteq Nat
  BY AppendIsLonger
<1> HIDE DEF h
<1>2. \A e : Earlier(e, m)
  BY DEF Earlier
<1>3. AsPushed(h, pushed) /\ InOrder(h) /\ Ahead(g, h) /\ Ahead(k, h)
  BY <1>1, <1>2, LongerKeeps DEF Once
<1>4. \A f : Holds(l, f) => Holds(h, f)
  BY <1>1, HoldsIs
<1> QED BY <1>3, <1>4 DEF Once, h

LEMMA OnceNothing == Once(<< >>, << >>, << >>, << >>)
BY DEF Once, Numbered, AsPushed, InOrder, Ahead

-----------------------------------------------------------------------------
(* The library and its connection. *)

StateMessage == [type : {"state"}, busy : BOOLEAN]

LibCall == [cmd : LineAsked] \union [event : Event] \union [busy : BOOLEAN]

Doing == {"idle", "reconnect", "trying", "command", "playrec", "polling", "fetching", "waiting"}

LibRecord ==
  [open : BOOLEAN, does : Doing, call : LibCall \union {NoCall}, events : Seq(EventMessage),
   states : Seq(StateMessage), left : Int]

LinkRecord == [up : BOOLEAN, asked : Seq(LineAsked), lines : Seq(Message)]

GivenRecord == [pushed : Seq(EventMessage), events : Seq(EventMessage)]

LibTypes == lib \in LibRecord /\ link \in LinkRecord /\ given \in GivenRecord

(* Nobody waits for an event that is kept. *)
NoneKept ==
  lib.call # NoCall /\ lib.call \in [event : Event] =>
    \A i \in DOMAIN lib.events : lib.events[i].event # lib.call.event

OnceNow == Once(given.events, lib.events, link.lines, given.pushed)

LibInv == LibTypes /\ NoneKept /\ (lib.open => OnceNow) /\ (link.up => lib.open)

LEMMA DoingIs ==
  "idle" \in Doing /\ "reconnect" \in Doing /\ "trying" \in Doing /\ "command" \in Doing
    /\ "playrec" \in Doing /\ "polling" \in Doing /\ "fetching" \in Doing /\ "waiting" \in Doing
BY DEF Doing

LEMMA EmptyIs ==
  << >> \in Seq(EventMessage) /\ << >> \in Seq(StateMessage) /\ << >> \in Seq(LineAsked)
    /\ << >> \in Seq(Message)
OBVIOUS

(* Steps that leave the events alone. *)
LEMMA EventsAlone ==
  ASSUME LibInv, lib' \in LibRecord, link' \in LinkRecord, UNCHANGED given,
         lib'.events = lib.events, link'.lines = link.lines, lib'.open => lib.open,
         link'.up => link.up /\ lib'.open,
         lib'.call \in {lib.call, NoCall} \union [cmd : LineAsked] \union [busy : BOOLEAN]
  PROVE  LibInv'
<1>1. LibTypes' /\ (lib'.open => OnceNow') /\ (link'.up => lib'.open)
  BY DEF LibInv, LibTypes, OnceNow
<1>2. NoneKept'
  <2>1. CASE lib'.call = lib.call
    BY <2>1 DEF LibInv, NoneKept
  <2>2. CASE lib'.call = NoCall
    BY <2>2 DEF NoneKept
  <2>3. \A c \in [cmd : LineAsked] \union [busy : BOOLEAN] : c \notin [event : Event]
    OBVIOUS
  <2>4. CASE lib'.call \in [cmd : LineAsked] \union [busy : BOOLEAN]
    BY <2>3, <2>4 DEF NoneKept
  <2> QED BY <2>1, <2>2, <2>4
<1> QED BY <1>1, <1>2 DEF LibInv

(* A connection begins with nothing. *)
LEMMA OpenedIs ==
  ASSUME LibInv, Opened, lib' \in LibRecord, lib'.open, lib'.events = << >>
  PROVE  LibInv'
<1>1. link' = [up |-> TRUE, asked |-> << >>, lines |-> << >>] /\ given' = [pushed |-> << >>, events |-> << >>]
  BY DEF Opened, NoLink, NothingGiven
<1>2. link' \in LinkRecord /\ given' \in GivenRecord /\ link'.lines = << >>
      /\ given'.pushed = << >> /\ given'.events = << >>
  BY <1>1 DEF LinkRecord, GivenRecord
<1>3. OnceNow'
  BY <1>2, OnceNothing DEF OnceNow
<1>4. NoneKept'
  BY DEF NoneKept
<1> QED BY <1>2, <1>3, <1>4 DEF LibInv, LibTypes

LEMMA LibTypesAre ==
  ASSUME LibInv
  PROVE  /\ lib \in LibRecord /\ link \in LinkRecord /\ given \in GivenRecord
         /\ lib.events \in Seq(EventMessage) /\ lib.states \in Seq(StateMessage)
         /\ link.lines \in Seq(Message) /\ link.asked \in Seq(LineAsked)
         /\ given.events \in Seq(EventMessage) /\ given.pushed \in Seq(EventMessage)
BY DEF LibInv, LibTypes, LibRecord, LinkRecord, GivenRecord

LEMMA ConnectKeeps ==
  ASSUME LibInv, LibConnect \/ LibClose \/ Reconnect \/ Attempt \/ AttemptsOver
  PROVE  LibInv'
<1>1. lib \in LibRecord /\ link \in LinkRecord
  BY LibTypesAre
<1>2. NoLink \in LinkRecord /\ ~NoLink.up
  BY DEF NoLink, LinkRecord
<1>3. CASE LibConnect
  <2>1. lib' \in LibRecord /\ lib'.open /\ lib'.events = << >>
    BY <1>1, <1>3, EmptyIs DEF LibConnect, LibRecord
  <2> QED BY <1>3, <2>1, OpenedIs DEF LibConnect
<1>4. ASSUME lib' \in LibRecord, ~lib'.open, lib'.events = lib.events, lib'.call = lib.call,
             link' = NoLink, UNCHANGED given
      PROVE  LibInv'
  BY <1>2, <1>4 DEF LibInv, LibTypes, NoneKept
<1>5. CASE LibClose
  <2>1. lib' \in LibRecord /\ ~lib'.open /\ lib'.events = lib.events /\ lib'.call = lib.call
    BY <1>1, <1>5 DEF LibClose, LibRecord
  <2> QED BY <1>4, <1>5, <2>1 DEF LibClose
<1>6. CASE Reconnect
  <2>1. lib' \in LibRecord /\ ~lib'.open /\ lib'.events = lib.events /\ lib'.call = lib.call
    <3>1. MaxAttempts \in Int
      BY SigGenAssumption
    <3> QED BY <1>1, <1>6, <3>1, DoingIs DEF Reconnect, LibRecord
  <2> QED BY <1>4, <1>6, <2>1 DEF Reconnect
<1>7. CASE Attempt
  <2>1. CASE lib' = [lib EXCEPT !.left = @ - 1] /\ UNCHANGED <<link, count, given>>
    <3>1. /\ lib' \in LibRecord /\ lib'.events = lib.events /\ lib'.open = lib.open
          /\ lib'.call = lib.call
      BY <1>1, <2>1 DEF LibRecord
    <3> QED BY <1>1, <2>1, <3>1, EventsAlone DEF LibInv
  <2>2. CASE /\ Opened
             /\ lib' = [lib EXCEPT !.open = TRUE, !.events = <<>>, !.states = <<>>,
                                   !.does = "trying", !.left = @ - 1]
    <3>1. lib' \in LibRecord /\ lib'.open /\ lib'.events = << >>
      <4> DEFINE n == lib.left - 1
      <4>1. n \in Int
        BY <1>1 DEF LibRecord
      <4>2. lib' = [lib EXCEPT !.open = TRUE, !.events = <<>>, !.states = <<>>,
                               !.does = "trying", !.left = n]
        BY <2>2
      <4> HIDE DEF n
      <4> QED BY <1>1, <4>1, <4>2, DoingIs, EmptyIs DEF LibRecord
    <3> QED BY <2>2, <3>1, OpenedIs
  <2> QED BY <1>7, <2>1, <2>2 DEF Attempt
<1>8. CASE AttemptsOver
  <2>1. /\ lib' \in LibRecord /\ lib'.events = lib.events /\ lib'.open = lib.open
        /\ lib'.call = lib.call
    BY <1>1, <1>8, DoingIs DEF AttemptsOver, LibRecord
  <2> QED BY <1>1, <1>8, <2>1, EventsAlone DEF AttemptsOver, LibInv
<1> QED BY <1>3, <1>5, <1>6, <1>7, <1>8

LEMMA CallsKeeps ==
  ASSUME LibInv, NEW cmd \in LineAsked, NEW does \in Doing, Calls(cmd, does)
  PROVE  LibInv'
<1>1. lib \in LibRecord /\ link \in LinkRecord /\ link.asked \in Seq(LineAsked)
  BY LibTypesAre
<1> DEFINE queue == IF link.up THEN Append(link.asked, cmd) ELSE link.asked
           call == [cmd |-> cmd]
<1>2. queue \in Seq(LineAsked)
  BY <1>1
<1>3. call \in [cmd : LineAsked] /\ call \in LibCall
  BY DEF LibCall
<1>4. /\ link' = [link EXCEPT !.asked = queue] /\ UNCHANGED given
      /\ lib' = [lib EXCEPT !.call = call, !.does = does]
  BY DEF Calls, Asks
<1> HIDE DEF queue, call
<1>5. link' \in LinkRecord /\ link'.lines = link.lines /\ link'.up = link.up
  BY <1>1, <1>2, <1>4 DEF LinkRecord
<1>6. lib' \in LibRecord /\ lib'.events = lib.events /\ lib'.open = lib.open /\ lib'.call = call
  BY <1>1, <1>3, <1>4 DEF LibRecord
<1> QED BY <1>3, <1>4, <1>5, <1>6, EventsAlone DEF LibInv

LEMMA LibCommandKeeps ==
  ASSUME LibInv, LibCommand
  PROVE  LibInv'
<1>1. /\ Command_ \union {"status"} \subseteq LineAsked
      /\ "playrec" \in LineAsked /\ "status" \in LineAsked /\ "get_recording" \in LineAsked
  BY DEF LineAsked
<1> QED BY <1>1, CallsKeeps, DoingIs DEF LibCommand

LEMMA RaisesIs ==
  ASSUME LibInv
  PROVE  /\ Raises \in LibRecord /\ Raises.events = lib.events /\ Raises.open = lib.open
         /\ Raises.call = NoCall
<1>1. lib \in LibRecord
  BY LibTypesAre
<1> QED BY <1>1, DoingIs DEF Raises, LibRecord

LEMMA FailuresKeep ==
  ASSUME LibInv, CallTimesOut \/ ConnectionLost
  PROVE  LibInv'
<1>1. /\ Raises \in LibRecord /\ Raises.events = lib.events /\ Raises.open = lib.open
      /\ Raises.call = NoCall /\ link \in LinkRecord
  BY RaisesIs, LibTypesAre
<1>2. CASE CallTimesOut
  <2>1. lib' = Raises /\ UNCHANGED <<link, given>>
    BY <1>2 DEF CallTimesOut
  <2> QED BY <1>1, <2>1, EventsAlone DEF LibInv
<1>3. CASE ConnectionLost
  <2>1. lib' = [Raises EXCEPT !.open = FALSE] /\ UNCHANGED <<link, given>> /\ ~link.up
    BY <1>3 DEF ConnectionLost
  <2> HIDE DEF Raises
  <2>2. lib' \in LibRecord /\ lib'.events = lib.events /\ ~lib'.open /\ lib'.call = NoCall
    BY <1>1, <2>1 DEF LibRecord
  <2> QED BY <1>1, <2>1, <2>2, EventsAlone
<1> QED BY <1>2, <1>3

LEMMA TakeLineKeeps ==
  ASSUME LibInv, TakeLine
  PROVE  LibInv'
<1> DEFINE m == Head(link.lines)
           t == Tail(link.lines)
<1>1. /\ lib \in LibRecord /\ link \in LinkRecord /\ given \in GivenRecord
      /\ lib.events \in Seq(EventMessage) /\ lib.states \in Seq(StateMessage)
      /\ link.lines \in Seq(Message) /\ link.lines # << >>
      /\ given.events \in Seq(EventMessage) /\ given.pushed \in Seq(EventMessage)
  BY LibTypesAre DEF TakeLine
<1>2. m \in Message /\ t \in Seq(Message)
  BY <1>1, TailIsShorter
<1>3. /\ lib.call # NoCall /\ link' = [link EXCEPT !.lines = t]
      /\ \/ /\ IsAnswer(m)
            /\ \E does \in AfterAnswer(m) : lib' = [lib EXCEPT !.call = NoCall, !.does = does]
            /\ UNCHANGED given
         \/ /\ IsAwaited(m)
            /\ lib' = [lib EXCEPT !.call = NoCall, !.does = "idle"]
            /\ given' = IF m.type = "event" THEN [given EXCEPT !.events = Append(@, m)] ELSE given
         \/ ~IsAnswer(m) /\ ~IsAwaited(m) /\ lib' = Kept(m) /\ UNCHANGED given
  BY DEF TakeLine
<1>4. lib.open => OnceNow
  BY DEF LibInv
<1>5. /\ ~IsEvent(m) /\ lib.open => Once(given.events, lib.events, t, given.pushed)
      /\ IsEvent(m) => m \in EventMessage
      /\ IsEvent(m) /\ lib.open =>
           /\ (\A i \in DOMAIN lib.events : lib.events[i].event # m.event)
                => Once(Append(given.events, m), lib.events, t, given.pushed)
           /\ Once(given.events, Append(lib.events, m), t, given.pushed)
  <2>1. IsEvent(m) => m \in EventMessage
    BY <1>2 DEF IsEvent, Message
  <2>2. ~IsEvent(m) /\ lib.open => Once(given.events, lib.events, t, given.pushed)
    BY <1>1, <1>4, OnceDropped DEF OnceNow
  <2>3. IsEvent(m) /\ lib.open =>
           /\ (\A i \in DOMAIN lib.events : lib.events[i].event # m.event)
                => Once(Append(given.events, m), lib.events, t, given.pushed)
           /\ Once(given.events, Append(lib.events, m), t, given.pushed)
    BY <1>1, <1>4, OnceTaken DEF OnceNow
  <2> QED BY <2>1, <2>2, <2>3
<1> HIDE DEF m, t
<1>6. link' \in LinkRecord /\ link'.lines = t /\ link'.up = link.up
  BY <1>1, <1>2, <1>3 DEF LinkRecord
<1>7. CASE /\ IsAnswer(m)
           /\ \E does \in AfterAnswer(m) : lib' = [lib EXCEPT !.call = NoCall, !.does = does]
           /\ UNCHANGED given
  <2>1. AfterAnswer(m) \subseteq Doing
    BY DoingIs DEF AfterAnswer
  <2>2. PICK does \in Doing : lib' = [lib EXCEPT !.call = NoCall, !.does = does]
    BY <1>7, <2>1
  <2>3. lib' \in LibRecord /\ lib'.events = lib.events /\ lib'.open = lib.open /\ lib'.call = NoCall
    BY <1>1, <2>2 DEF LibRecord
  <2>4. ~IsEvent(m)
    BY <1>7 DEF IsAnswer, IsEvent
  <2>5. lib'.open => OnceNow'
    BY <1>5, <1>6, <1>7, <2>3, <2>4 DEF OnceNow
  <2> QED BY <1>1, <1>6, <1>7, <2>3, <2>5 DEF LibInv, LibTypes, NoneKept
<1>8. CASE /\ IsAwaited(m)
           /\ lib' = [lib EXCEPT !.call = NoCall, !.does = "idle"]
           /\ given' = IF m.type = "event" THEN [given EXCEPT !.events = Append(@, m)] ELSE given
  <2>1. lib' \in LibRecord /\ lib'.events = lib.events /\ lib'.open = lib.open /\ lib'.call = NoCall
    BY <1>1, <1>8, DoingIs DEF LibRecord
  <2>2. CASE IsEvent(m)
    <3>1. "event" \in DOMAIN lib.call /\ m.event = lib.call.event
      BY <1>8, <2>2 DEF IsAwaited, IsEvent
    <3>2. lib.call \in [event : Event]
      <4>1. lib.call \in LibCall
        BY <1>1, <1>3 DEF LibRecord
      <4> QED BY <3>1, <4>1 DEF LibCall
    <3>3. \A i \in DOMAIN lib.events : lib.events[i].event # m.event
      BY <1>3, <3>1, <3>2 DEF LibInv, NoneKept
    <3> DEFINE after == Append(given.events, m)
    <3>4. after \in Seq(EventMessage) /\ given' = [given EXCEPT !.events = after]
      BY <1>1, <1>5, <1>8, <2>2, AppendIsLonger DEF IsEvent
    <3>5. lib.open => Once(after, lib.events, t, given.pushed)
      BY <1>5, <2>2, <3>3
    <3> HIDE DEF after
    <3>6. given' \in GivenRecord /\ given'.events = after /\ given'.pushed = given.pushed
      BY <1>1, <3>4 DEF GivenRecord
    <3>7. lib'.open => OnceNow'
      BY <1>6, <2>1, <3>5, <3>6 DEF OnceNow
    <3> QED BY <1>6, <2>1, <3>6, <3>7 DEF LibInv, LibTypes, NoneKept
  <2>3. CASE ~IsEvent(m)
    <3>1. UNCHANGED given
      BY <1>8, <2>3 DEF IsEvent
    <3>2. lib'.open => OnceNow'
      BY <1>5, <1>6, <2>1, <2>3, <3>1 DEF OnceNow
    <3> QED BY <1>1, <1>6, <2>1, <3>1, <3>2 DEF LibInv, LibTypes, NoneKept
  <2> QED BY <2>2, <2>3
<1>9. CASE ~IsAnswer(m) /\ ~IsAwaited(m) /\ lib' = Kept(m) /\ UNCHANGED given
  <2>1. CASE IsEvent(m)
    <3> DEFINE after == Append(lib.events, m)
    <3>1. after \in Seq(EventMessage) /\ Longer(lib.events, m, after) /\ m \in EventMessage
      BY <1>1, <1>5, <2>1, AppendIsLonger
    <3>2. lib' = [lib EXCEPT !.events = after]
      BY <1>9, <2>1 DEF Kept, IsEvent
    <3>3. lib.open => Once(given.events, after, t, given.pushed)
      BY <1>5, <2>1
    <3> HIDE DEF after
    <3>4. lib' \in LibRecord /\ lib'.events = after /\ lib'.open = lib.open /\ lib'.call = lib.call
      BY <1>1, <3>1, <3>2 DEF LibRecord
    <3>5. NoneKept'
      <4> SUFFICES ASSUME lib.call # NoCall, lib.call \in [event : Event]
                   PROVE  \A i \in DOMAIN after : after[i].event # lib.call.event
        BY <3>4 DEF NoneKept
      <4>1. m.event # lib.call.event
        <5>1. "event" \in DOMAIN lib.call
          OBVIOUS
        <5> QED BY <1>9, <2>1, <5>1 DEF IsAwaited, IsEvent
      <4>2. \A i \in DOMAIN lib.events : lib.events[i].event # lib.call.event
        BY DEF LibInv, NoneKept
      <4> QED BY <3>1, <4>1, <4>2 DEF Longer
    <3>6. lib'.open => OnceNow'
      BY <1>6, <1>9, <3>3, <3>4 DEF OnceNow
    <3> QED BY <1>1, <1>6, <1>9, <3>4, <3>5, <3>6 DEF LibInv, LibTypes
  <2>2. CASE ~IsEvent(m)
    <3>1. lib' \in LibRecord /\ lib'.events = lib.events /\ lib'.open = lib.open /\ lib'.call = lib.call
      <4>1. CASE m.type = "state"
        <5> DEFINE after == Append(lib.states, m)
        <5>1. m \in StateMessage
          BY <1>2, <4>1 DEF Message, StateMessage, EventMessage
        <5>2. after \in Seq(StateMessage) /\ lib' = [lib EXCEPT !.states = after]
          BY <1>1, <1>9, <4>1, <5>1 DEF Kept
        <5> HIDE DEF after
        <5> QED BY <1>1, <5>2 DEF LibRecord
      <4>2. CASE m.type # "state"
        BY <1>1, <1>9, <2>2, <4>2 DEF Kept, IsEvent
      <4> QED BY <4>1, <4>2
    <3>2. lib'.open => OnceNow'
      BY <1>5, <1>6, <1>9, <2>2, <3>1 DEF OnceNow
    <3> QED BY <1>1, <1>6, <1>9, <3>1, <3>2 DEF LibInv, LibTypes, NoneKept
  <2> QED BY <2>1, <2>2
<1> QED BY <1>3, <1>7, <1>8, <1>9

LEMMA AwaitEventKeeps ==
  ASSUME LibInv, NEW names \in SUBSET Event, NEW name \in names, AwaitEvent(names, name)
  PROVE  LibInv'
<1> DEFINE hits == {i \in DOMAIN lib.events : lib.events[i].event \in names}
<1>1. /\ lib \in LibRecord /\ link \in LinkRecord /\ given \in GivenRecord
      /\ lib.events \in Seq(EventMessage) /\ given.events \in Seq(EventMessage)
      /\ UNCHANGED link
  BY LibTypesAre DEF AwaitEvent
<1>2. ASSUME NEW i \in FirstKept(hits), lib' = [lib EXCEPT !.events = Without(@, i)],
             given' = [given EXCEPT !.events = Append(@, lib.events[i])]
      PROVE  LibInv'
  <2> DEFINE kept == Without(lib.events, i)
             out  == Append(given.events, lib.events[i])
  <2>1. /\ i \in DOMAIN lib.events /\ lib.events[i].event \in names
        /\ \A j \in hits : i <= j
    BY DEF FirstKept
  <2>2. \A j \in DOMAIN lib.events : j < i => lib.events[j].event # lib.events[i].event
    <3>1. DOMAIN lib.events \subseteq Nat
      BY <1>1
    <3> QED BY <2>1, <3>1
  <2>3. /\ kept \in Seq(EventMessage) /\ Shorter(lib.events, i, kept)
    BY <1>1, <2>1, WithoutIsShorter
  <2>4. out \in Seq(EventMessage)
    BY <1>1, <2>1, AppendIsLonger
  <2>5. lib.open => Once(out, kept, link.lines, given.pushed)
    BY <1>1, <2>1, <2>2, OnceGiven DEF LibInv, OnceNow
  <2>6. lib' = [lib EXCEPT !.events = kept] /\ given' = [given EXCEPT !.events = out]
    BY <1>2
  <2> HIDE DEF kept, out
  <2>7. lib' \in LibRecord /\ lib'.events = kept /\ lib'.open = lib.open /\ lib'.call = lib.call
    BY <1>1, <2>3, <2>6 DEF LibRecord
  <2>8. given' \in GivenRecord /\ given'.events = out /\ given'.pushed = given.pushed
    BY <1>1, <2>4, <2>6 DEF GivenRecord
  <2>9. NoneKept'
    BY <2>3, <2>7 DEF LibInv, NoneKept, Shorter
  <2>10. lib'.open => OnceNow'
    BY <1>1, <2>5, <2>7, <2>8 DEF OnceNow
  <2> QED BY <1>1, <2>7, <2>8, <2>9, <2>10 DEF LibInv, LibTypes
<1>3. ASSUME hits = {}, lib' = [lib EXCEPT !.call = [event |-> name], !.does = "waiting"], UNCHANGED given
      PROVE  LibInv'
  <2> DEFINE call == [event |-> name]
  <2>1. call \in LibCall /\ call.event = name
    BY DEF LibCall
  <2>2. lib' = [lib EXCEPT !.call = call, !.does = "waiting"]
    BY <1>3
  <2> HIDE DEF call
  <2>3. lib' \in LibRecord /\ lib'.events = lib.events /\ lib'.open = lib.open /\ lib'.call = call
    BY <1>1, <2>1, <2>2, DoingIs DEF LibRecord
  <2>4. \A i \in DOMAIN lib.events : lib.events[i].event # name
    BY <1>3
  <2>5. NoneKept'
    BY <2>1, <2>3, <2>4 DEF NoneKept
  <2>6. lib'.open => OnceNow'
    BY <1>1, <1>3, <2>3 DEF LibInv, OnceNow
  <2> QED BY <1>1, <1>3, <2>3, <2>5, <2>6 DEF LibInv, LibTypes
<1> QED BY <1>2, <1>3 DEF AwaitEvent

LEMMA WaitForStateKeeps ==
  ASSUME LibInv, NEW busy \in BOOLEAN, WaitForState(busy)
  PROVE  LibInv'
<1> DEFINE hits == {i \in DOMAIN lib.states : lib.states[i].busy = busy}
<1>1. /\ lib \in LibRecord /\ link \in LinkRecord /\ lib.states \in Seq(StateMessage)
      /\ UNCHANGED <<link, given>>
  BY LibTypesAre DEF WaitForState
<1>2. ASSUME NEW i \in FirstKept(hits), lib' = [lib EXCEPT !.states = Without(@, i)]
      PROVE  LibInv'
  <2> DEFINE kept == Without(lib.states, i)
  <2>1. i \in DOMAIN lib.states
    BY DEF FirstKept
  <2>2. kept \in Seq(StateMessage) /\ lib' = [lib EXCEPT !.states = kept]
    BY <1>1, <1>2, <2>1, WithoutIsShorter
  <2> HIDE DEF kept
  <2>3. lib' \in LibRecord /\ lib'.events = lib.events /\ lib'.open = lib.open /\ lib'.call = lib.call
    BY <1>1, <2>2 DEF LibRecord
  <2> QED BY <1>1, <2>3, EventsAlone DEF LibInv
<1>3. ASSUME lib' = [lib EXCEPT !.call = [busy |-> busy], !.does = "waiting"]
      PROVE  LibInv'
  <2> DEFINE call == [busy |-> busy]
  <2>1. call \in LibCall /\ call \in [busy : BOOLEAN]
    BY DEF LibCall
  <2>2. lib' = [lib EXCEPT !.call = call, !.does = "waiting"]
    BY <1>3
  <2> HIDE DEF call
  <2>3. lib' \in LibRecord /\ lib'.events = lib.events /\ lib'.open = lib.open /\ lib'.call = call
    BY <1>1, <2>1, <2>2, DoingIs DEF LibRecord
  <2> QED BY <1>1, <2>1, <2>3, EventsAlone DEF LibInv
<1> QED BY <1>2, <1>3 DEF WaitForState

LEMMA DrainsKeep ==
  ASSUME LibInv, DrainEvents \/ DrainStates
  PROVE  LibInv'
<1>1. /\ lib \in LibRecord /\ link \in LinkRecord /\ given \in GivenRecord
      /\ lib.events \in Seq(EventMessage) /\ given.events \in Seq(EventMessage)
      /\ UNCHANGED link
  BY LibTypesAre DEF DrainEvents, DrainStates
<1>2. CASE DrainEvents
  <2> DEFINE out == given.events \o lib.events
  <2>1. out \in Seq(EventMessage)
    BY <1>1, ConcatProperties
  <2>2. lib.open => Once(out, << >>, link.lines, given.pushed)
    BY <1>1, OnceDrained DEF LibInv, OnceNow
  <2>3. lib' = [lib EXCEPT !.events = << >>] /\ given' = [given EXCEPT !.events = out]
    BY <1>2 DEF DrainEvents
  <2> HIDE DEF out
  <2>4. lib' \in LibRecord /\ lib'.events = << >> /\ lib'.open = lib.open
    BY <1>1, <2>3, EmptyIs DEF LibRecord
  <2>5. given' \in GivenRecord /\ given'.events = out /\ given'.pushed = given.pushed
    BY <1>1, <2>1, <2>3 DEF GivenRecord
  <2>6. NoneKept' /\ (lib'.open => OnceNow')
    BY <1>1, <2>2, <2>4, <2>5 DEF NoneKept, OnceNow
  <2> QED BY <1>1, <2>4, <2>5, <2>6 DEF LibInv, LibTypes
<1>3. CASE DrainStates
  <2>1. /\ lib' \in LibRecord /\ lib'.events = lib.events /\ lib'.open = lib.open
        /\ lib'.call = lib.call
    BY <1>1, <1>3, EmptyIs DEF DrainStates, LibRecord
  <2> QED BY <1>1, <1>3, <2>1, EventsAlone DEF DrainStates, LibInv
<1> QED BY <1>2, <1>3

LEMMA GeneratorKeeps ==
  ASSUME LibInv,
         \/ \E busy \in BOOLEAN, ok \in BOOLEAN : GeneratorAnswers(ok, busy)
         \/ GeneratorPushes \/ GeneratorGone
  PROVE  LibInv'
<1>1. /\ lib \in LibRecord /\ link \in LinkRecord /\ given \in GivenRecord
      /\ link.lines \in Seq(Message) /\ link.asked \in Seq(LineAsked)
      /\ given.pushed \in Seq(EventMessage)
  BY LibTypesAre
<1>2. UNCHANGED lib
  BY DEF GeneratorAnswers, GeneratorPushes, Pushes, GeneratorGone
<1>3. ASSUME NEW m \in Message, ~IsEvent(m), NEW queue \in Seq(LineAsked), UNCHANGED given,
             link' = [link EXCEPT !.asked = queue, !.lines = Append(@, m)]
      PROVE  LibInv'
  <2> DEFINE lines == Append(link.lines, m)
  <2>1. lines \in Seq(Message)
    BY <1>1, AppendIsLonger
  <2>2. lib.open => Once(given.events, lib.events, lines, given.pushed)
    BY <1>1, <1>3, OnceAnswered DEF LibInv, OnceNow
  <2>3. link' = [link EXCEPT !.asked = queue, !.lines = lines]
    BY <1>3
  <2> HIDE DEF lines
  <2>4. link' \in LinkRecord /\ link'.lines = lines /\ link'.up = link.up
    BY <1>1, <2>1, <2>3 DEF LinkRecord
  <2> QED BY <1>1, <1>2, <1>3, <2>2, <2>4 DEF LibInv, LibTypes, NoneKept, OnceNow
<1>4. ASSUME NEW ok \in BOOLEAN, NEW busy \in BOOLEAN, GeneratorAnswers(ok, busy)
      PROVE  LibInv'
  <2> DEFINE cmd == Head(link.asked)
             m == [type |-> "ack", cmd |-> cmd, ok |-> ok, busy |-> busy]
  <2>1. cmd \in LineAsked /\ Tail(link.asked) \in Seq(LineAsked)
    BY <1>1, <1>4, TailIsShorter DEF GeneratorAnswers
  <2>2. link' = [link EXCEPT !.asked = Tail(link.asked), !.lines = Append(@, m)] /\ UNCHANGED given
    BY <1>4 DEF GeneratorAnswers
  <2> HIDE DEF cmd
  <2>3. m \in Message /\ ~IsEvent(m)
    BY <2>1 DEF Message, IsEvent
  <2> HIDE DEF m
  <2> QED BY <1>3, <2>1, <2>2, <2>3
<1>5. ASSUME NEW busy \in BOOLEAN, Pushes([type |-> "state", busy |-> busy])
      PROVE  LibInv'
  <2> DEFINE m == [type |-> "state", busy |-> busy]
  <2>1. m \in Message /\ ~IsEvent(m) /\ m.type # "event"
    BY DEF Message, IsEvent
  <2>2. link' = [link EXCEPT !.lines = Append(@, m)] /\ UNCHANGED given
    BY <1>5, <2>1 DEF Pushes
  <2> HIDE DEF m
  <2>3. link' = [link EXCEPT !.asked = link.asked, !.lines = Append(@, m)]
    BY <1>1, <2>2 DEF LinkRecord
  <2> QED BY <1>1, <1>3, <2>1, <2>2, <2>3
<1>6. ASSUME NEW name \in Event,
             Pushes([type |-> "event", event |-> name, n |-> Len(given.pushed) + 1])
      PROVE  LibInv'
  <2> DEFINE m == [type |-> "event", event |-> name, n |-> Len(given.pushed) + 1]
             lines == Append(link.lines, m)
             pushed == Append(given.pushed, m)
  <2>1. m \in EventMessage /\ m.type = "event" /\ m.n = Len(given.pushed) + 1 /\ m \in Message
    <3>1. Len(given.pushed) + 1 \in Nat
      BY <1>1
    <3> QED BY <3>1 DEF EventMessage, Message
  <2>2. link.up /\ link' = [link EXCEPT !.lines = lines] /\ given' = [given EXCEPT !.pushed = pushed]
    BY <1>6, <2>1 DEF Pushes
  <2> HIDE DEF m
  <2>3. lines \in Seq(Message) /\ pushed \in Seq(EventMessage)
    BY <1>1, <2>1, AppendIsLonger
  <2>4. lib.open => Once(given.events, lib.events, lines, pushed)
    BY <1>1, <2>1, OncePushed DEF LibInv, OnceNow
  <2> HIDE DEF lines, pushed
  <2>5. link' \in LinkRecord /\ link'.lines = lines /\ link'.up = link.up
    BY <1>1, <2>2, <2>3 DEF LinkRecord
  <2>6. given' \in GivenRecord /\ given'.events = given.events /\ given'.pushed = pushed
    BY <1>1, <2>2, <2>3 DEF GivenRecord
  <2> QED BY <1>1, <1>2, <2>4, <2>5, <2>6 DEF LibInv, LibTypes, NoneKept, OnceNow
<1>7. CASE GeneratorGone
  <2>1. link' \in LinkRecord /\ link'.lines = link.lines /\ ~link'.up
    BY <1>1, <1>7, EmptyIs DEF GeneratorGone, LinkRecord
  <2> QED BY <1>1, <1>2, <1>7, <2>1, EventsAlone DEF GeneratorGone
<1> QED BY <1>4, <1>5, <1>6, <1>7 DEF GeneratorPushes

LEMMA LibInvHolds == LibSpec => []LibInv
<1>1. LibInit => LibInv
  <2> SUFFICES ASSUME LibInit PROVE LibInv
    OBVIOUS
  <2>1. /\ lib = [open |-> FALSE, does |-> "idle", call |-> NoCall, events |-> <<>>, states |-> <<>>, left |-> 0]
        /\ link = [up |-> FALSE, asked |-> <<>>, lines |-> <<>>]
        /\ given = [pushed |-> <<>>, events |-> <<>>]
    BY DEF LibInit, NoLink, NothingGiven
  <2>2. lib \in LibRecord /\ ~lib.open /\ lib.call = NoCall
    BY <2>1, DoingIs, EmptyIs DEF LibRecord
  <2>3. link \in LinkRecord /\ ~link.up /\ given \in GivenRecord
    BY <2>1, EmptyIs DEF LinkRecord, GivenRecord
  <2> QED BY <2>2, <2>3 DEF LibInv, LibTypes, NoneKept
<1>2. LibInv /\ [LibNext]_libVars => LibInv'
  <2> SUFFICES ASSUME LibInv, [LibNext]_libVars PROVE LibInv'
    OBVIOUS
  <2>1. CASE UNCHANGED libVars
    BY <2>1 DEF libVars, LibInv, LibTypes, NoneKept, OnceNow
  <2>2. CASE LibConnect \/ LibClose \/ Reconnect \/ Attempt \/ AttemptsOver
    BY <2>2, ConnectKeeps
  <2>3. CASE WaitForEvent
    BY <2>3, AwaitEventKeeps DEF WaitForEvent
  <2>4. CASE Wait
    <3>1. "playback_complete" \in Event
      BY DEF Event
    <3> QED BY <2>4, <3>1, AwaitEventKeeps DEF Wait
  <2>5. CASE \E busy \in BOOLEAN : WaitForState(busy)
    BY <2>5, WaitForStateKeeps
  <2>6. CASE \/ \E busy \in BOOLEAN, ok \in BOOLEAN : GeneratorAnswers(ok, busy)
             \/ GeneratorPushes \/ GeneratorGone
    BY <2>6, GeneratorKeeps
  <2> QED
    BY <2>1, <2>2, <2>3, <2>4, <2>5, <2>6, LibCommandKeeps, TakeLineKeeps, FailuresKeep, DrainsKeep
       DEF LibNext
<1> QED BY <1>1, <1>2, PTL DEF LibSpec

(* No event of a connection is lost, given out twice or overtaken. *)
THEOREM EventsOnceHolds == LibSpec => []EventsOnce
<1>1. LibInv => EventsOnce
  <2> SUFFICES ASSUME LibInv, lib.open PROVE EventsOnce
    BY DEF EventsOnce
  <2> DEFINE g == given.events
             k == lib.events
             l == link.lines
             pushed == given.pushed
  <2>1. Once(g, k, l, pushed)
    BY DEF LibInv, OnceNow
  <2>2. /\ g \in Seq(EventMessage) /\ k \in Seq(EventMessage)
        /\ \A i \in DOMAIN g : IsEvent(g[i])
        /\ \A i \in DOMAIN k : IsEvent(k[i])
    <3>1. g \in Seq(EventMessage) /\ k \in Seq(EventMessage)
      BY LibTypesAre
    <3>2. \A i \in DOMAIN g : g[i] \in EventMessage
      BY <3>1
    <3>3. \A i \in DOMAIN k : k[i] \in EventMessage
      BY <3>1
    <3> QED BY <3>1, <3>2, <3>3 DEF EventMessage, IsEvent
  <2>3. ASSUME NEW p \in Places
        PROVE  /\ \/ p[1] = 1 /\ p[2] \in DOMAIN g /\ EventAt(p) = g[p[2]]
                  \/ p[1] = 2 /\ p[2] \in DOMAIN k /\ EventAt(p) = k[p[2]]
                  \/ p[1] = 3 /\ p[2] \in DOMAIN l /\ EventAt(p) = l[p[2]]
               /\ IsEvent(EventAt(p))
    <3>1. CASE p \in {1} \X DOMAIN g
      BY <2>2, <3>1 DEF EventAt
    <3>2. CASE p \in {2} \X DOMAIN k
      BY <2>2, <3>2 DEF EventAt
    <3>3. CASE p \in {<<3, i>> : i \in {j \in DOMAIN l : l[j].type = "event"}}
      BY <3>3 DEF EventAt, IsEvent
    <3> QED BY <3>1, <3>2, <3>3 DEF Places
  <2>4. /\ \A i \in DOMAIN g : <<1, i>> \in Places /\ EventAt(<<1, i>>) = g[i]
        /\ \A i \in DOMAIN k : <<2, i>> \in Places /\ EventAt(<<2, i>>) = k[i]
        /\ \A i \in DOMAIN l : IsEvent(l[i]) => <<3, i>> \in Places /\ EventAt(<<3, i>>) = l[i]
    BY DEF Places, EventAt, IsEvent
  <2>5. {EventAt(p) : p \in Places} = {pushed[n] : n \in DOMAIN pushed}
    <3>1. ASSUME NEW p \in Places PROVE \E n \in DOMAIN pushed : EventAt(p) = pushed[n]
      BY <2>1, <2>3 DEF Once, AsPushed
    <3>2. ASSUME NEW n \in DOMAIN pushed PROVE \E p \in Places : EventAt(p) = pushed[n]
      <4>1. IsEvent(pushed[n]) /\ (Holds(g, pushed[n]) \/ Holds(k, pushed[n]) \/ Holds(l, pushed[n]))
        BY <2>1 DEF Once, Numbered
      <4> QED BY <2>4, <4>1 DEF Holds
    <3> QED BY <3>1, <3>2
  <2>6. ASSUME NEW p \in Places, NEW q \in Places, EventAt(p).event = EventAt(q).event, Before(p, q)
        PROVE  EventAt(p).n < EventAt(q).n
    <3>1. Earlier(EventAt(p), EventAt(q))
      <4>1. CASE p[1] < q[1]
        BY <2>1, <2>3, <4>1 DEF Once, Ahead
      <4>2. CASE p[1] = q[1] /\ p[2] < q[2]
        BY <2>1, <2>3, <4>2 DEF Once, InOrder
      <4> QED BY <2>6, <4>1, <4>2 DEF Before
    <3> QED BY <2>3, <2>6, <3>1 DEF Earlier
  <2> QED BY <2>5, <2>6 DEF EventsOnce
<1> QED BY <1>1, LibInvHolds, PTL

-----------------------------------------------------------------------------
(* The pads.                                                               *)

(* Whoever is asked for a second press has made the first as the last one, *)
(* unless there is nothing to run.                                         *)
MidiInv == grid = "confirming" => before = pending \/ pending \notin Known

LEMMA MidiKeeps ==
  ASSUME MidiInv, [MidiNext]_midiVars
  PROVE  MidiInv'
<1>1. CASE Shift \/ SystemTimeout \/ ConfirmationTimeout \/ MidiRestarts
  BY <1>1 DEF Shift, SystemTimeout, ConfirmationTimeout, MidiRestarts, EnterReaperMode,
              EnterSystemMode, MidiInv
<1>2. ASSUME NEW p \in Pad, Press(p)
      PROVE  MidiInv'
  BY <1>2 DEF Press, SystemButton, ConfirmButton, Execute, EnterConfirming, EnterSystemMode, MidiInv
<1>3. CASE UNCHANGED midiVars
  BY <1>3 DEF midiVars, MidiInv
<1> QED BY <1>1, <1>2, <1>3 DEF MidiNext

LEMMA MidiConfirms ==
  ASSUME MidiInv, MidiNext, ran'.action \in Destructive
  PROVE  before = ran'.action /\ ran'.press = ran'.action
<1>1. ran' # Nothing
  BY MidiAssumption DEF Nothing
<1>2. PICK p \in Pad : Press(p)
  BY <1>1 DEF MidiNext, Shift, SystemTimeout, ConfirmationTimeout, MidiRestarts, Unpressed
<1>3. ASSUME SystemButton(p) PROVE FALSE
  BY <1>1, <1>3 DEF SystemButton, EnterConfirming, Execute
<1>4. grid = "confirming" /\ p = pending /\ Execute(pending, p, "confirming")
  BY <1>1, <1>2, <1>3 DEF Press, ConfirmButton
<1> QED BY <1>1, <1>4 DEF Execute, MidiInv

(* A destructive action runs only when its pad was pressed twice in a row. *)
THEOREM ConfirmedTwiceHolds == MidiSpec => ConfirmedTwice
<1>1. MidiInit => MidiInv
  BY DEF MidiInit, MidiInv
<1>2. MidiInv /\ [MidiNext]_midiVars => MidiInv'
  BY MidiKeeps
<1>3. MidiInv /\ [MidiNext]_midiVars
        => [ran'.action \in Destructive => before = ran'.action /\ ran'.press = ran'.action]_midiVars
  BY MidiConfirms
<1> QED BY <1>1, <1>2, <1>3, PTL DEF MidiSpec, ConfirmedTwice

=============================================================================
