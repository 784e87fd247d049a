---------------------------- MODULE SessionProofs ----------------------------
(***************************************************************************)
(* What MeasurementSession promises, proved for every set of sessions and  *)
(* for every ramp.                                                         *)
(***************************************************************************)
EXTENDS MeasurementSession, TLAPS

--------------------------------------------------------------------------------
(* One session by itself: where its coroutine is, the state it shows and   *)
(* what its thread does.                                                   *)

Ends == {"complete", "aborted", "error"}

Past == {"cleaning", "leaving", "closing", "ended"}

States(at) ==
  CASE at \in {"none", "evicting", "entering", "stranded", "begun"} -> {"idle"}
    [] at = "connecting"               -> {"setup"}
    [] at \in {"querying", "switching", "settling", "undoing", "channel",
               "calibrating", "measure"} -> {"gain_cal"}
    [] at \in {"sweep", "sweeping"}    -> {"measuring"}
    [] at = "interrupting"             -> {"measuring", "verify"}
    [] at = "generating"               -> {"filter_gen"}
    [] at = "generated"                -> {"filter_gen", "deploy"}
    [] at = "deploying"                -> {"deploy"}
    [] at \in {"verify", "verifying"}  -> {"verify"}
    [] at = "completing"               -> {"complete"}
    [] at \in {"cleaning", "leaving", "closing"} -> Ends
    [] OTHER                           -> Ends \union {"idle"}

Ramping == {"check", "calibrate"}

Deploying == {"wavs", "conf"}

(* What the thread may be doing for a session that nobody aborted. *)
Threads(at) ==
  CASE at = "calibrating"               -> Ramping \union {"done", "raised"}
    [] at \in Sweeping                  -> {"warm", "roll", "playing", "done", "raised"}
    [] at = "generating"                -> {"generate", "good", "bad", "raised", "aborted"}
    [] at = "deploying"                 -> Deploying \union {"done", "raised", "aborted"}
    [] at \in Past                      -> Thread \ Working
    [] OTHER                            -> {"idle"}

(* Where a thread may have been left behind. *)
Verifying == {"interrupting", "verify", "completing"}

(* A thread that the coroutine left behind has the abort to thank for it. *)
Course(r) ==
  /\ r.state \in States(r.at)
  /\ ~(r.at \in Past \union Verifying /\ r.abort) => r.thread \in Threads(r.at)
  /\ r.at = "interrupting" => r.abort
  /\ r.thread \in Ramping => r.at \in Past \union {"calibrating"}
  /\ r.thread \in Deploying => r.at \in Past \union {"deploying"}
  /\ r.cal # Begun => r.at \in Past \union {"calibrating"}
  /\ r.at \in {"querying", "switching", "settling", "undoing"} => r.gm
  /\ r.filters # "none" =>
       r.at \in Past \union Sweeping \union Verifying \union {"generated", "deploying"}
  /\ r.state \in {"gain_cal", "measuring", "filter_gen"} /\ r.filters # "none" =>
       r.at = "generated"

Courses == \A s \in Session : Course(ses[s])

--------------------------------------------------------------------------------
(* A session that a request deploys has no deployment of its own. *)
Deployments ==
  \A s \in rest :
    /\ ses[s].thread \notin Deploying
    /\ ses[s].at \in Past \union {"generated"}
    /\ At(s, "generated") => ses[s].state = "deploy"

--------------------------------------------------------------------------------
(* The ramp of a channel. *)
Ramp(c, ceiling) ==
  /\ c.at = "ambient" => c.level = StartLevel
  /\ c.at \in {"verify", "passed"} => c.level <= ceiling
  /\ Calibrating(c) => Most(c.level, LoopbackFloor) <= c.played + MaxStep
  /\ c.at = "passed" =>
       /\ c.spl <= Target + Tolerance
       /\ c.played = Most(c.level, LoopbackFloor)

Ramps ==
  \A s \in Session :
    /\ Ramp(ses[s].cal, Ceiling[Channel(s)])
    /\ ses[s].thread = "calibrate" => Calibrating(ses[s].cal)

--------------------------------------------------------------------------------
(* The sessions and the daemon. *)

Live(s) == ses[s].at \notin {"none", "evicting", "closing", "ended"}

Entered(s) == Live(s) /\ ~At(s, "entering")

OneLive ==
  /\ daemon.up = "down" =>
       \A s \in Session : ses[s].at \in {"none", "ended"} /\ ses[s].pre = None
  /\ ~daemon.overlap =>
       /\ \A s, t \in Session : Live(s) /\ Live(t) => s = t
       /\ \A s \in Session : At(s, "entering") => daemon.mode = "standby"
       /\ \A s \in Session : Entered(s) => daemon.mode = "measurement" /\ daemon.active = s

Counted ==
  /\ daemon.up # "up" => upsets >= 1
  /\ ~daemon.gm => upsets >= 2

Switched ==
  {"settling", "channel", "calibrating", "measure", "sweep", "sweeping", "interrupting",
   "generating", "generated", "deploying", "verify", "verifying", "completing", "cleaning"}

(* Nothing has gone wrong. *)
Calm ==
  upsets = 0 /\ ~daemon.overlap =>
    /\ \A s \in Session :
         /\ Entered(s) => daemon.saved = home
         /\ ses[s].at \notin {"undoing"}
         /\ At(s, "switching") => ses[s].pre = home
         /\ ses[s].at \in Switched =>
              ses[s].gm /\ ses[s].pre = home /\ gmMode = "measurement"
    /\ (\A s \in Session : ses[s].at \notin Switched) => gmMode = home

(* Complete, and nothing turns it into an error or an abort any more.      *)
Finish(r) == r.state = "complete" /\ r.at # "completing"

Finished == \E s \in Session : Finish(ses[s])

WillRestore(s) ==
  \/ ses[s].at \in Switched \union {"switching", "undoing"} /\ ses[s].gm
  \/ At(s, "leaving") /\ upsets = 1

(* At most one thing has gone wrong. *)
Recovering ==
  upsets <= 1 /\ ~daemon.overlap /\ daemon.up # "down" /\ ~Finished =>
    /\ daemon.saved # "measurement"
    /\ \A s \in Session : ses[s].pre # "measurement"
    /\ gmMode = "measurement" => \E s \in Session : WillRestore(s)

--------------------------------------------------------------------------------
(* Records. *)

(* A calibration at its beginning, and one burst later, is a calibration. *)
LEMMA BegunType == Begun \in Calibration
  BY CalibrationAssumption DEF CalibrationAssumption, Begun, Calibration

LEMMA BurstType ==
  ASSUME NEW c \in Calibration, NEW ceiling \in Int, NEW abort \in BOOLEAN, NEW heard \in Heard
  PROVE  CalibrationStep(c, ceiling, abort, heard) \in Calibration
<1> USE CalibrationAssumption DEF CalibrationAssumption
<1>1. /\ heard.spl \in Int /\ c.level \in Int /\ c.step \in 1..MaxRampSteps
      /\ c.tries \in 1..MaxOvershoots /\ c.xruns \in 0..MaxXruns
  BY DEF Heard, Calibration
<1>2. ASSUME NEW d \in Calibration, NEW end \in {"ramp", "passed", "failed"}
      PROVE  Gives(d, end) \in Calibration
  BY DEF Gives, Calibration
<1>3. ASSUME NEW d \in Calibration, NEW level \in Int
      PROVE  Play(d, level) \in Calibration
  BY DEF Play, Calibration, Most
<1>a. ASSUME NEW d \in Calibration
      PROVE  /\ \A x \in Int : [d EXCEPT !.level = x] \in Calibration
             /\ \A x \in Int : [d EXCEPT !.spl = x] \in Calibration
             /\ \A x \in 1..MaxRampSteps : [d EXCEPT !.step = x] \in Calibration
             /\ \A x \in 1..MaxOvershoots : [d EXCEPT !.tries = x] \in Calibration
             /\ \A x \in 0..MaxXruns : [d EXCEPT !.xruns = x] \in Calibration
             /\ [d EXCEPT !.at = "verify"] \in Calibration
  BY DEF Calibration
<1>b. ASSUME NEW d \in Calibration
      PROVE  /\ d.level \in Int /\ d.spl \in Int
             /\ d.step \in 1..MaxRampSteps /\ d.tries \in 1..MaxOvershoots
  BY DEF Calibration
<1>4. ASSUME NEW d \in Calibration PROVE Again(d) \in Calibration
  <2>1. d.xruns < MaxXruns => [d EXCEPT !.xruns = @ + 1] \in Calibration
    BY DEF Calibration
  <2> QED BY <2>1, <1>2 DEF Again
<1>5. ASSUME NEW d \in Calibration PROVE BackOff(d) \in Calibration
  <2> DEFINE e == [d EXCEPT !.at = "verify"]
  <2>1. e \in Calibration /\ d.level - FineStep \in Int
    BY <1>a, <1>b, <1>5
  <2>2. BackOff(d) = [e EXCEPT !.level = d.level - FineStep]
    BY DEF BackOff
  <2> HIDE DEF e
  <2> QED BY <2>1, <2>2, <1>a
<1>6. ASSUME NEW d \in Calibration PROVE StepUp(d, ceiling) \in Calibration
  <2>1. StepSize(d.spl) \in Int
    BY DEF StepSize, Least, Calibration
  <2>2. d.step # MaxRampSteps =>
          [d EXCEPT !.level = Least(@ + StepSize(d.spl), ceiling), !.step = @ + 1] \in Calibration
    <3> DEFINE level == Least(d.level + StepSize(d.spl), ceiling)
               e     == [d EXCEPT !.level = level]
    <3>1. level \in Int
      BY <1>b, <1>6, <2>1 DEF Least
    <3>2. e \in Calibration
      BY <3>1, <1>a, <1>6
    <3>3. d.step # MaxRampSteps => d.step + 1 \in 1..MaxRampSteps
      BY <1>b, <1>6
    <3>4. [d EXCEPT !.level = Least(@ + StepSize(d.spl), ceiling), !.step = @ + 1]
            = [e EXCEPT !.step = d.step + 1]
      BY DEF Calibration
    <3> HIDE DEF e
    <3> QED BY <3>2, <3>3, <3>4, <1>a
  <2> QED BY <2>2, <1>2 DEF StepUp
<1>7. ASSUME NEW d \in Calibration PROVE AfterBurst(d, ceiling, heard) \in Calibration
  BY <1>2, <1>5, <1>6, <1>7 DEF AfterBurst
<1>8. ASSUME NEW d \in Calibration PROVE AfterVerify(d) \in Calibration
  <2>1. d.tries \in 1..MaxOvershoots /\ d.spl \in Int
    BY <1>8 DEF Calibration
  <2>2. ~(d.tries = MaxOvershoots) => [BackOff(d) EXCEPT !.tries = @ + 1] \in Calibration
    <3>1. BackOff(d).tries = d.tries /\ BackOff(d) \in Calibration
      BY <1>8, <1>5 DEF Calibration, BackOff
    <3>2. ~(d.tries = MaxOvershoots) => d.tries + 1 \in 1..MaxOvershoots
      BY <2>1
    <3> QED BY <3>1, <3>2, <1>a
  <2> QED BY <2>1, <2>2, <1>2 DEF AfterVerify
<1>9. BurstStep(c, ceiling, heard) \in Calibration
  <2> DEFINE at     == [c EXCEPT !.level = IF c.at = "ramp" THEN Least(@, ceiling) ELSE @]
             played == Play(at, at.level)
             whole  == [played EXCEPT !.spl = heard.spl, !.xruns = 0]
  <2>1. at \in Calibration /\ at.level \in Int
    BY <1>1 DEF Calibration, Least
  <2>2. played \in Calibration
    BY <2>1, <1>3
  <2>3. whole \in Calibration
    <3> DEFINE e == [played EXCEPT !.spl = heard.spl]
    <3>1. e \in Calibration
      BY <2>2, <1>1, <1>a
    <3>2. whole = [e EXCEPT !.xruns = 0] /\ 0 \in 0..MaxXruns
      OBVIOUS
    <3> HIDE DEF e
    <3> QED BY <3>1, <3>2, <1>a
  <2>4. BurstStep(c, ceiling, heard) =
          IF heard.xrun THEN Again(played)
          ELSE IF c.at = "ramp" THEN AfterBurst(whole, ceiling, heard) ELSE AfterVerify(whole)
    BY Zenon DEF BurstStep
  <2> HIDE DEF at, played, whole
  <2> QED BY <2>2, <2>3, <2>4, <1>4, <1>7, <1>8
<1>10. AfterAmbient(Play(c, LoopbackFloor), heard) \in Calibration
  BY <1>2, <1>3 DEF AfterAmbient
<1> QED BY <1>2, <1>9, <1>10 DEF CalibrationStep

(* The update of one session leaves the others alone. *)
LEMMA GoesOn ==
  ASSUME ses \in [Session -> SessionRecord], NEW s \in Session, NEW q \in SessionRecord, Goes(s, q)
  PROVE  /\ ses' \in [Session -> SessionRecord] /\ ses'[s] = q
         /\ \A t \in Session \ {s} : ses'[t] = ses[t]
  BY DEF Goes

--------------------------------------------------------------------------------
(* The steps of a session between the switch to measurement mode and its   *)
(* cleanup.                                                                *)

Spare(r) == r.at \in Past \/ (r.at = "generated" /\ r.state = "deploy")

(* What such a step does to the record r of its session. *)
Follows(r, q) ==
  /\ q.pre = r.pre /\ (q.gm <=> r.gm)
  /\ q.at = r.at \/ (r.at \in Switched /\ q.at \in Switched)
  /\ Finish(r) => Finish(q)
  /\ Spare(r) => Spare(q) /\ (q.thread \in Deploying => r.thread \in Deploying)

Inside(s) ==
  \/ PlayStep(s) \/ FilterStep(s) \/ ThreadStep(s)
  \/ WatchdogTimeout(s) \/ RequestAbort(s) \/ RestDeploy(s)

(* A call costs one upset at most. *)
LEMMA CallCosts ==
  ASSUME upsets \in 0..MaxUpsets, NEW ok \in BOOLEAN, Call(ok)
  PROVE  /\ upsets' \in 0..MaxUpsets /\ upsets' \in {upsets, upsets + 1}
         /\ ~ok => upsets' = upsets + 1
  BY SessionAssumption DEF SessionAssumption, Call

(* What becomes of a record is a record. *)
LEMMA RecordMoves ==
  ASSUME NEW r \in SessionRecord
  PROVE  /\ Erring(r) \in SessionRecord
         /\ Aborted(r) \in SessionRecord
         /\ [r EXCEPT !.thread = "idle"] \in SessionRecord
         /\ [r EXCEPT !.cal = Begun] \in SessionRecord
         /\ [r EXCEPT !.done = 0] \in SessionRecord
         /\ \A at \in Awaiting : [r EXCEPT !.at = at] \in SessionRecord
         /\ \A n \in Nat : [r EXCEPT !.done = n] \in SessionRecord
         /\ \A x \in {"good", "bad"} : [r EXCEPT !.filters = x] \in SessionRecord
         /\ r.done \in Nat /\ r.done + 1 \in Nat
<1>1. Erring(r) \in SessionRecord
  BY DEF Erring, SessionRecord, State
<1>2. Aborted(r) \in SessionRecord
  BY DEF Aborted, SessionRecord, State
<1>3. [r EXCEPT !.thread = "idle"] \in SessionRecord
  BY DEF SessionRecord, Thread
<1>4. [r EXCEPT !.cal = Begun] \in SessionRecord
  BY BegunType DEF SessionRecord
<1>5. ASSUME NEW at \in Awaiting PROVE [r EXCEPT !.at = at] \in SessionRecord
  BY DEF SessionRecord
<1>6. ASSUME NEW n \in Nat PROVE [r EXCEPT !.done = n] \in SessionRecord
  BY DEF SessionRecord
<1>7. r.done \in Nat /\ r.done + 1 \in Nat
  BY DEF SessionRecord
<1>8. ASSUME NEW x \in {"good", "bad"} PROVE [r EXCEPT !.filters = x] \in SessionRecord
  BY DEF SessionRecord
<1> QED BY <1>1, <1>2, <1>3, <1>4, <1>5, <1>6, <1>7, <1>8

LEMMA IntoType ==
  ASSUME NEW r \in SessionRecord, NEW state \in State, NEW at \in Awaiting, NEW thread \in Thread
  PROVE  /\ Into(r, state, at) \in SessionRecord
         /\ IntoThread(r, state, at, thread) \in SessionRecord
<1>1. Into(r, state, at) \in SessionRecord
  BY DEF Into, Erring, Aborted, SessionRecord, State
<1>2. ASSUME NEW q \in SessionRecord PROVE [q EXCEPT !.thread = thread] \in SessionRecord
  BY DEF SessionRecord
<1> QED BY <1>1, <1>2 DEF IntoThread

LEMMA PlayFollows ==
  ASSUME SessionTypeOK, Courses, NEW s \in Session, PlayStep(s)
  PROVE  /\ \E q \in SessionRecord : Goes(s, q) /\ Course(q) /\ Follows(ses[s], q)
         /\ UNCHANGED <<gmMode, home, daemon, rest, chain, sound>>
         /\ upsets' \in 0..MaxUpsets /\ upsets' \in {upsets, upsets + 1}
<1> DEFINE r == ses[s]
<1>0. r \in SessionRecord /\ Course(r) /\ upsets \in 0..MaxUpsets /\ Begun \in Calibration
  BY BegunType DEF SessionTypeOK, Courses
<1>c. ASSUME NEW ok \in BOOLEAN, Call(ok)
      PROVE  upsets' \in 0..MaxUpsets /\ upsets' \in {upsets, upsets + 1}
  BY <1>c, <1>0, CallCosts
<1> USE DEF Course, Follows, Finish, Spare, Started, Into, IntoThread, Erring, Aborted, SessionRecord, State,
            States, Threads, Past, Ramping, Deploying, Sweeping, Verifying, Switched, Ends, Working, Thread,
            Awaiting, Transitions, At
<1>1. CASE Calibrate(s)
  <2> DEFINE q == Started([r EXCEPT !.cal = Begun], "calibrating", "check")
  <2>1. Goes(s, q) /\ UNCHANGED <<gmMode, home, daemon, rest, chain, sound, upsets>> /\ r.at = "channel"
    BY <1>1 DEF Calibrate
  <2>2. q \in SessionRecord
    BY <1>0, <2>1
  <2>3. Course(q)
    BY <1>0, <2>1
  <2>4. Follows(r, q)
    BY <1>0, <2>1
  <2> HIDE DEF q
  <2> QED BY <1>0, <2>1, <2>2, <2>3, <2>4
<1>2. CASE Calibrated(s)
  <2> DEFINE b    == [r EXCEPT !.thread = "idle", !.cal = Begun]
             last == r.done + 1 = Channels
             q    == CASE r.thread = "done" /\ r.cal.at = "passed" ->
                            [b EXCEPT !.done = IF last THEN 0 ELSE @ + 1,
                                      !.at = IF last THEN "measure" ELSE "channel"]
                       [] r.thread = "done" /\ r.cal.at = "failed" /\ r.abort -> Aborted(b)
                       [] OTHER -> Erring(b)
  <2>1. Goes(s, q) /\ UNCHANGED <<gmMode, home, daemon, rest, chain, sound, upsets>> /\ r.at = "calibrating"
    BY <1>2, Zenon DEF Calibrated
  <2>2. q \in SessionRecord
    <3> DEFINE n == IF last THEN 0 ELSE r.done + 1
               e == [b EXCEPT !.done = n]
    <3> HIDE DEF SessionRecord, Erring, Aborted
    <3>1. b \in SessionRecord /\ Erring(b) \in SessionRecord /\ Aborted(b) \in SessionRecord
      <4> DEFINE c == [r EXCEPT !.thread = "idle"]
      <4>1. c \in SessionRecord /\ b = [c EXCEPT !.cal = Begun]
        BY <1>0, RecordMoves
      <4> HIDE DEF c
      <4> QED BY <4>1, RecordMoves
    <3>2. n \in Nat
      BY <1>0, RecordMoves
    <3>3. [b EXCEPT !.done = IF last THEN 0 ELSE @ + 1, !.at = IF last THEN "measure" ELSE "channel"]
            = [e EXCEPT !.at = IF last THEN "measure" ELSE "channel"]
      BY <1>0
    <3>4. e \in SessionRecord
      BY <1>0, <3>1, <3>2, RecordMoves
    <3> HIDE DEF e, n
    <3>5. [e EXCEPT !.at = IF last THEN "measure" ELSE "channel"] \in SessionRecord
      <4>1. (IF last THEN "measure" ELSE "channel") \in Awaiting
        OBVIOUS
      <4> QED BY <3>4, <4>1, RecordMoves
    <3> HIDE DEF last
    <3> QED BY <3>1, <3>3, <3>5
  <2>3. Course(q)
    BY <1>0, <2>1
  <2>4. Follows(r, q)
    BY <1>0, <2>1
  <2> HIDE DEF q
  <2> QED BY <1>0, <2>1, <2>2, <2>3, <2>4
<1>3. CASE Measure(s)
  <2> PICK ok \in BOOLEAN :
         /\ Call(ok)
         /\ Goes(s, IF SweepLevelAllowed /\ (r.gm /\ ok => gmMode = "measurement")
                      THEN [r EXCEPT !.state = "measuring", !.at = "sweep"]
                      ELSE Erring(r))
    BY <1>3, Zenon DEF Measure
  <2> DEFINE q == IF SweepLevelAllowed /\ (r.gm /\ ok => gmMode = "measurement")
                    THEN [r EXCEPT !.state = "measuring", !.at = "sweep"]
                    ELSE Erring(r)
  <2>1. Goes(s, q) /\ UNCHANGED <<gmMode, home, daemon, rest, chain, sound>> /\ r.at = "measure"
    BY <1>3, Zenon DEF Measure
  <2>2. q \in SessionRecord
    BY <1>0, <2>1
  <2>3. Course(q)
    BY <1>0, <2>1
  <2>4. Follows(r, q)
    BY <1>0, <2>1
  <2> HIDE DEF q
  <2> QED BY <1>c, <1>0, <2>1, <2>2, <2>3, <2>4
<1>4. CASE Sweep(s)
  <2> DEFINE q == Started(r, "sweeping", "warm")
  <2>1. Goes(s, q) /\ UNCHANGED <<gmMode, home, daemon, rest, chain, sound, upsets>> /\ r.at = "sweep"
    BY <1>4, Zenon DEF Sweep
  <2>2. q \in SessionRecord
    BY <1>0, <2>1
  <2>3. Course(q)
    BY <1>0, <2>1
  <2>4. Follows(r, q)
    BY <1>0, <2>1
  <2> HIDE DEF q
  <2> QED BY <1>0, <2>1, <2>2, <2>3, <2>4
<1>5. CASE Swept(s)
  <2> PICK ok \in {r.thread = "done", FALSE} :
       LET b    == [r EXCEPT !.thread = "idle"]
           last == r.done + 1 = Channels * Positions
       IN  /\ IF r.thread = "done" THEN Call(ok) ELSE UNCHANGED upsets
           /\ Goes(s, CASE ~ok          -> Erring(b)
                        [] ok /\ ~last  -> [b EXCEPT !.at = "sweep", !.done = @ + 1]
                        [] OTHER        -> IntoThread([b EXCEPT !.done = 0], "filter_gen",
                                                   "generating", "generate"))
    BY <1>5, Zenon DEF Swept
  <2> DEFINE b    == [r EXCEPT !.thread = "idle"]
             last == r.done + 1 = Channels * Positions
             q    == CASE ~ok          -> Erring(b)
                        [] ok /\ ~last  -> [b EXCEPT !.at = "sweep", !.done = @ + 1]
                        [] OTHER        -> IntoThread([b EXCEPT !.done = 0], "filter_gen",
                                                   "generating", "generate")
  <2>1. Goes(s, q) /\ UNCHANGED <<gmMode, home, daemon, rest, chain, sound>> /\ r.at = "sweeping" /\ ~r.abort
    BY <1>5, Zenon DEF Swept
  <2>2. q \in SessionRecord
    <3> DEFINE e == [b EXCEPT !.at = "sweep"]
               z == IntoThread([b EXCEPT !.done = 0], "filter_gen", "generating", "generate")
    <3>1. b \in SessionRecord /\ b.done = r.done
      BY <1>0
    <3>2. z \in SessionRecord
      <4> DEFINE c == [b EXCEPT !.done = 0]
      <4>1. c \in SessionRecord
        <5> HIDE DEF b, SessionRecord, Erring, Aborted
        <5> QED BY <3>1, RecordMoves
      <4>2. z = IntoThread(c, "filter_gen", "generating", "generate")
        OBVIOUS
      <4>3. "filter_gen" \in State /\ "generating" \in Awaiting /\ "generate" \in Thread
        OBVIOUS
      <4> HIDE DEF c, z, IntoThread, Into, SessionRecord, State, Awaiting, Thread
      <4> QED BY <4>1, <4>2, <4>3, IntoType
    <3> HIDE DEF SessionRecord, Erring, Aborted, IntoThread, Into
    <3>4. e \in SessionRecord /\ Erring(b) \in SessionRecord
      <4> HIDE DEF b
      <4> QED BY <3>1, RecordMoves
    <3>3. [b EXCEPT !.at = "sweep", !.done = @ + 1] = [e EXCEPT !.done = r.done + 1]
      BY <3>1
    <3> HIDE DEF e, z
    <3>5. [e EXCEPT !.done = r.done + 1] \in SessionRecord
      BY <1>0, <3>4, RecordMoves
    <3>6. q = CASE ~ok -> Erring(b)
                [] ok /\ ~last -> [e EXCEPT !.done = r.done + 1]
                [] OTHER -> z
      BY <3>3 DEF e, z
    <3> HIDE DEF b, last, q
    <3> QED BY <3>2, <3>4, <3>5, <3>6
  <2>3. Course(q)
    <3>1. CASE ~ok
      <4>1. q = Erring(b)
        BY <3>1, Zenon
      <4> HIDE DEF q, last
      <4> QED BY <1>0, <2>1, <4>1
    <3>2. CASE ok /\ ~last
      <4>1. q = [b EXCEPT !.at = "sweep", !.done = b.done + 1]
        BY <3>2, Zenon
      <4> HIDE DEF q, last
      <4> QED BY <1>0, <2>1, <4>1
    <3>3. CASE ok /\ last
      <4>1. q = IntoThread([b EXCEPT !.done = 0], "filter_gen", "generating", "generate")
        BY <3>3
      <4> HIDE DEF q, last
      <4> QED BY <1>0, <2>1, <4>1
    <3> QED BY <3>1, <3>2, <3>3, Zenon
  <2>4. Follows(r, q)
    BY <1>0, <2>1
  <2> HIDE DEF q
  <2>5. upsets' \in 0..MaxUpsets /\ upsets' \in {upsets, upsets + 1}
    BY <1>0, <1>c
  <2> QED BY <2>5, <1>0, <2>1, <2>2, <2>3, <2>4
<1>6. CASE SweepAborted(s)
  <2> DEFINE q == [r EXCEPT !.at = "interrupting"]
  <2>1. /\ Goes(s, q) /\ UNCHANGED <<gmMode, home, daemon, rest, chain, sound, upsets>>
        /\ r.at \in Sweeping /\ r.abort
    BY <1>6, Zenon DEF SweepAborted
  <2>2. q \in SessionRecord
    BY <1>0, <2>1
  <2>3. Course(q)
    BY <1>0, <2>1
  <2>4. Follows(r, q)
    BY <1>0, <2>1
  <2> HIDE DEF q
  <2> QED BY <1>0, <2>1, <2>2, <2>3, <2>4
<1>7. CASE Interrupted(s)
  <2> DEFINE b == Forget(r)
             q == IF b.state = "verify"
                    THEN [b EXCEPT !.at = "verify", !.done = @ + 1]
                    ELSE Aborted(b)
  <2>1. Goes(s, q) /\ UNCHANGED <<gmMode, home, daemon, rest, chain, sound, upsets>> /\ r.at = "interrupting"
    BY <1>7, Zenon DEF Interrupted
  <2> USE DEF Forget
  <2>2. q \in SessionRecord
    <3> DEFINE e == [b EXCEPT !.at = "verify"]
    <3>4. b \in SessionRecord /\ b.done = r.done
      BY <1>0
    <3> HIDE DEF SessionRecord, Aborted, Forget
    <3>1. e \in SessionRecord /\ Aborted(b) \in SessionRecord /\ b.done = r.done
      <4> HIDE DEF b
      <4> QED BY <3>4, RecordMoves
    <3>2. [b EXCEPT !.at = "verify", !.done = @ + 1] = [e EXCEPT !.done = r.done + 1]
      BY <3>1
    <3> HIDE DEF e
    <3> QED BY <1>0, <3>1, <3>2, RecordMoves
  <2>3. Course(q)
    BY <1>0, <2>1
  <2>4. Follows(r, q)
    BY <1>0, <2>1
  <2> HIDE DEF q
  <2> QED BY <1>0, <2>1, <2>2, <2>3, <2>4
<1>8. CASE Verify(s)
  <2> DEFINE q == IF r.done = Channels
                    THEN [r EXCEPT !.state = "complete", !.at = "completing"]
                    ELSE Started(r, "verifying", "warm")
  <2>1. Goes(s, q) /\ UNCHANGED <<gmMode, home, daemon, rest, chain, sound, upsets>> /\ r.at = "verify"
    BY <1>8, Zenon DEF Verify
  <2>2. q \in SessionRecord
    BY <1>0, <2>1
  <2>3. Course(q)
    BY <1>0, <2>1
  <2>4. Follows(r, q)
    BY <1>0, <2>1
  <2> HIDE DEF q
  <2> QED BY <1>0, <2>1, <2>2, <2>3, <2>4
<1>9. CASE Verified(s)
  <2> DEFINE q == [r EXCEPT !.thread = "idle", !.at = "verify", !.done = @ + 1]
  <2>1. Goes(s, q) /\ UNCHANGED <<gmMode, home, daemon, rest, chain, sound, upsets>> /\ r.at = "verifying"
    BY <1>9, Zenon DEF Verified
  <2>2. q \in SessionRecord
    <3> DEFINE c == [r EXCEPT !.thread = "idle"]
               e == [c EXCEPT !.at = "verify"]
    <3>0. q = [e EXCEPT !.done = r.done + 1]
      BY <1>0
    <3> HIDE DEF q, SessionRecord
    <3>1. c \in SessionRecord
      BY <1>0, RecordMoves
    <3>2. e \in SessionRecord
      <4> HIDE DEF c
      <4> QED BY <3>1, RecordMoves
    <3> HIDE DEF e
    <3> QED BY <1>0, <3>0, <3>2, RecordMoves
  <2>3. Course(q)
    BY <1>0, <2>1
  <2>4. Follows(r, q)
    BY <1>0, <2>1
  <2> HIDE DEF q
  <2> QED BY <1>0, <2>1, <2>2, <2>3, <2>4
<1>10. CASE Complete(s)
  <2> DEFINE q == [r EXCEPT !.at = "cleaning"]
  <2>1. /\ Goes(s, q) /\ UNCHANGED <<gmMode, home, daemon, rest, chain, sound, upsets>>
        /\ r.at = "completing"
    BY <1>10, Zenon DEF Complete
  <2>2. q \in SessionRecord
    BY <1>0, <2>1
  <2>3. Course(q)
    BY <1>0, <2>1
  <2>4. Follows(r, q)
    BY <1>0, <2>1
  <2> HIDE DEF q
  <2> QED BY <1>0, <2>1, <2>2, <2>3, <2>4
<1> QED BY <1>1, <1>2, <1>3, <1>4, <1>5, <1>6, <1>7, <1>8, <1>9, <1>10 DEF PlayStep

LEMMA FilterFollows ==
  ASSUME SessionTypeOK, Courses, NEW s \in Session, FilterStep(s)
  PROVE  /\ \E q \in SessionRecord : Goes(s, q) /\ Course(q) /\ Follows(ses[s], q)
         /\ UNCHANGED <<gmMode, home, daemon, rest, chain, sound, upsets>>
<1> DEFINE r == ses[s]
<1>0. r \in SessionRecord /\ Course(r)
  BY DEF SessionTypeOK, Courses
<1> USE DEF Course, Follows, Finish, Spare, Started, Into, IntoThread, Erring, Aborted, SessionRecord, State,
            States, Threads, Past, Ramping, Deploying, Sweeping, Verifying, Switched, Ends, Working, Thread,
            Awaiting, Transitions, At
<1>1. CASE Generated(s)
  <2> DEFINE b == [r EXCEPT !.thread = "idle"]
             q == CASE r.thread \in {"good", "bad"} ->
                         [b EXCEPT !.filters = r.thread, !.at = "generated"]
                    [] r.thread = "aborted" -> Aborted(b)
                    [] OTHER -> Erring(b)
  <2>1. /\ Goes(s, q) /\ UNCHANGED <<gmMode, home, daemon, rest, chain, sound, upsets>>
        /\ r.at = "generating" /\ r.thread \notin Working
    BY <1>1, Zenon DEF Generated
  <2>2. q \in SessionRecord
    BY <1>0, <2>1
  <2>3. Course(q)
    BY <1>0, <2>1
  <2>4. Follows(r, q)
    BY <1>0, <2>1
  <2> HIDE DEF q
  <2> QED BY <1>0, <2>1, <2>2, <2>3, <2>4
<1>2. CASE Deploy(s)
  <2> DEFINE q == IF r.filters = "bad" THEN Erring(r)
                  ELSE IntoThread(r, "deploy", "deploying", "wavs")
  <2>1. Goes(s, q) /\ UNCHANGED <<gmMode, home, daemon, rest, chain, sound, upsets>> /\ r.at = "generated"
    BY <1>2, Zenon DEF Deploy
  <2>2. q \in SessionRecord
    <3>1. "deploy" \in State /\ "deploying" \in Awaiting /\ "wavs" \in Thread
      OBVIOUS
    <3> HIDE DEF IntoThread, Into, Erring, SessionRecord, State, Awaiting, Thread
    <3> QED BY <1>0, <3>1, RecordMoves, IntoType
  <2>3. Course(q)
    BY <1>0, <2>1
  <2>4. Follows(r, q)
    <3>1. q.pre = r.pre /\ (q.gm <=> r.gm) /\ r.state # "complete" /\ q.at \in Switched
      BY <1>0, <2>1
    <3>2. Spare(r) => Spare(q)
      <4>1. ASSUME r.state = "deploy" PROVE q.at = "cleaning"
        <5>1. <<r.state, "deploy">> \notin Transitions
          BY <4>1
        <5> HIDE DEF Transitions
        <5>2. Into(r, "deploy", "deploying").at = "cleaning"
          BY <1>0, <5>1
        <5> QED BY <1>0, <5>2
      <4> HIDE DEF q
      <4> QED BY <2>1, <2>2, <4>1
    <3>3. Spare(r) => q.thread \notin Deploying
      BY <1>0, <2>1
    <3> HIDE DEF Spare, q
    <3> QED BY <2>1, <3>1, <3>2, <3>3
  <2> HIDE DEF q
  <2> QED BY <1>0, <2>1, <2>2, <2>3, <2>4
<1>3. CASE Deployed(s)
  <2> DEFINE b == [r EXCEPT !.thread = "idle", !.done = 0]
             q == CASE r.thread = "aborted" -> Aborted(b)
                    [] r.thread = "raised"  -> Erring(b)
                    [] OTHER                -> Into(b, "verify", "verify")
  <2>1. /\ Goes(s, q) /\ UNCHANGED <<gmMode, home, daemon, rest, chain, sound, upsets>>
        /\ r.at = "deploying" /\ r.thread \notin Working
    BY <1>3, Zenon DEF Deployed
  <2>2. q \in SessionRecord
    <3> DEFINE c == [r EXCEPT !.thread = "idle"]
    <3>1. b = [c EXCEPT !.done = 0]
      OBVIOUS
    <3>2. /\ r.thread = "aborted" => q = Aborted(b)
          /\ r.thread = "raised" => q = Erring(b)
          /\ r.thread \notin {"aborted", "raised"} => q = Into(b, "verify", "verify")
      OBVIOUS
    <3>3. "verify" \in State /\ "verify" \in Awaiting /\ "wavs" \in Thread
      OBVIOUS
    <3> HIDE DEF q, b, c, Into, Erring, Aborted, SessionRecord, State, Awaiting, Thread
    <3>4. c \in SessionRecord
      BY <1>0, RecordMoves DEF c
    <3>5. b \in SessionRecord
      BY <3>1, <3>4, RecordMoves
    <3> QED BY <3>2, <3>3, <3>5, RecordMoves, IntoType
  <2>3. Course(q)
    BY <1>0, <2>1
  <2>4. Follows(r, q)
    BY <1>0, <2>1
  <2> HIDE DEF q
  <2> QED BY <1>0, <2>1, <2>2, <2>3, <2>4
<1> QED BY <1>1, <1>2, <1>3 DEF FilterStep

(* Requests and the watchdog. *)
LEMMA AskFollows ==
  ASSUME SessionTypeOK, Courses, NEW s \in Session,
         WatchdogTimeout(s) \/ RequestAbort(s) \/ RestDeploy(s)
  PROVE  /\ \E q \in SessionRecord : Goes(s, q) /\ Course(q) /\ Follows(ses[s], q)
         /\ UNCHANGED <<gmMode, home, daemon, chain, sound, upsets>>
<1> DEFINE r == ses[s]
<1>0. r \in SessionRecord /\ Course(r)
  BY DEF SessionTypeOK, Courses
<1> USE DEF Course, Follows, Finish, Spare, Started, Into, IntoThread, Erring, Aborted, SessionRecord, State,
            States, Threads, Past, Ramping, Deploying, Sweeping, Verifying, Switched, Ends, Working, Thread,
            Awaiting, Transitions, At
<1>1. CASE WatchdogTimeout(s)
  <2> DEFINE q == [r EXCEPT !.abort = TRUE]
  <2>1. Goes(s, q) /\ UNCHANGED <<gmMode, home, daemon, chain, sound, upsets>> /\ TRUE
    BY <1>1, Zenon DEF WatchdogTimeout
  <2>2. q \in SessionRecord
    BY <1>0, <2>1
  <2>3. Course(q)
    BY <1>0, <2>1
  <2>4. Follows(r, q)
    BY <1>0, <2>1
  <2> HIDE DEF q
  <2> QED BY <1>0, <2>1, <2>2, <2>3, <2>4
<1>2. CASE RequestAbort(s)
  <2> DEFINE q == [r EXCEPT !.abort = TRUE]
  <2>1. Goes(s, q) /\ UNCHANGED <<gmMode, home, daemon, chain, sound, upsets>> /\ TRUE
    BY <1>2, Zenon DEF RequestAbort
  <2>2. q \in SessionRecord
    BY <1>0, <2>1
  <2>3. Course(q)
    BY <1>0, <2>1
  <2>4. Follows(r, q)
    BY <1>0, <2>1
  <2> HIDE DEF q
  <2> QED BY <1>0, <2>1, <2>2, <2>3, <2>4
<1>3. CASE RestDeploy(s)
  <2> DEFINE q == [r EXCEPT !.state = "deploy"]
  <2>1. Goes(s, q) /\ UNCHANGED <<gmMode, home, daemon, chain, sound, upsets>> /\ r.filters = "good" /\ <<r.state, "deploy">> \in Transitions
    BY <1>3, Zenon DEF RestDeploy
  <2>2. q \in SessionRecord
    BY <1>0, <2>1
  <2>3. Course(q)
    BY <1>0, <2>1
  <2>4. Follows(r, q)
    BY <1>0, <2>1
  <2> HIDE DEF q
  <2> QED BY <1>0, <2>1, <2>2, <2>3, <2>4
<1> QED BY <1>1, <1>2, <1>3

(* A thread that ends, or goes on to what its kind does next. *)
LEMMA ThreadGoesOn ==
  ASSUME ses \in [Session -> SessionRecord], Courses, NEW s \in Session,
         NEW from \in Working, NEW to \in Thread, ses[s].thread = from,
         \A at \in Awaiting \union Past : from \in Threads(at) => to \in Threads(at),
         to \in Ramping => from \in Ramping, to \in Deploying => from \in Deploying,
         Goes(s, [ses[s] EXCEPT !.thread = to])
  PROVE  \E q \in SessionRecord : Goes(s, q) /\ Course(q) /\ Follows(ses[s], q)
<1> DEFINE r == ses[s]
           q == [r EXCEPT !.thread = to]
<1>1. r \in SessionRecord /\ Course(r)
  BY DEF Courses
<1>2. q \in SessionRecord
  BY <1>1 DEF SessionRecord
<1>3. /\ q.at = r.at /\ q.state = r.state /\ (q.abort <=> r.abort) /\ q.pre = r.pre
      /\ (q.gm <=> r.gm) /\ q.thread = to /\ q.cal = r.cal /\ q.filters = r.filters
  BY <1>1 DEF SessionRecord
<1>4. r.at \notin Awaiting \union Past => from \notin Threads(r.at) /\ r.at \notin Past
  BY DEF Threads, Past, Awaiting, Sweeping, Working
<1> HIDE DEF q
<1>5. Course(q)
  <2>1. ~(q.at \in Past \union Verifying /\ q.abort) => q.thread \in Threads(q.at)
    BY <1>1, <1>3, <1>4 DEF Course
  <2> QED BY <1>1, <1>3, <2>1 DEF Course
<1>6. Follows(r, q)
  BY <1>3 DEF Follows, Finish, Spare
<1> QED BY <1>2, <1>5, <1>6 DEF q

(* Which ends, and which next jobs, become which thread. *)
LEMMA ThreadKinds ==
  /\ \A at \in Awaiting \union Past : \A to \in {"calibrate", "raised"} :
       "check" \in Threads(at) => to \in Threads(at)
  /\ \A at \in Awaiting \union Past : \A to \in {"calibrate", "done", "raised"} :
       "calibrate" \in Threads(at) => to \in Threads(at)
  /\ \A at \in Awaiting \union Past : \A from \in {"warm", "roll", "playing"} :
       \A to \in {"roll", "playing", "done", "raised"} :
         from \in Threads(at) => to \in Threads(at)
  /\ \A at \in Awaiting \union Past : \A to \in {"aborted", "good", "bad", "raised"} :
       "generate" \in Threads(at) => to \in Threads(at)
  /\ \A at \in Awaiting \union Past : \A from \in Deploying :
       \A to \in {"conf", "aborted", "done", "raised"} :
         from \in Threads(at) => to \in Threads(at)
  BY DEF Threads, Past, Sweeping, Thread, Working, Ramping, Deploying

LEMMA CeilingType == ASSUME NEW r \in SessionRecord PROVE (r.done % Channels) + 1 \in 1..Channels
<1>1. r.done \in Nat
  BY DEF SessionRecord
<1> QED BY <1>1, SessionAssumption DEF SessionAssumption

Sound == [by : Session \union {None},
          what : {"silence", "burst", "warmup", "sweep"}, level : Int]

LEMMA ThreadFollows ==
  ASSUME SessionTypeOK, Courses, NEW s \in Session, ThreadStep(s)
  PROVE  /\ \E q \in SessionRecord : Goes(s, q) /\ Course(q) /\ Follows(ses[s], q)
         /\ UNCHANGED <<gmMode, home, daemon, rest>>
         /\ upsets' \in 0..MaxUpsets /\ upsets' \in {upsets, upsets + 1}
         /\ sound' \in Sound
         /\ chain' \in {chain, [chain EXCEPT !.conf = s]}
<1> DEFINE r == ses[s]
           Moved == \E q \in SessionRecord : Goes(s, q) /\ Course(q) /\ Follows(r, q)
<1>0. /\ ses \in [Session -> SessionRecord] /\ r \in SessionRecord /\ Course(r)
      /\ upsets \in 0..MaxUpsets /\ sound \in Sound
  BY DEF SessionTypeOK, Courses, Sound
<1>c. ASSUME NEW ok \in BOOLEAN, Call(ok)
      PROVE  upsets' \in 0..MaxUpsets /\ upsets' \in {upsets, upsets + 1}
  BY <1>c, <1>0, CallCosts
<1>u. ASSUME UNCHANGED upsets PROVE upsets' \in 0..MaxUpsets /\ upsets' \in {upsets, upsets + 1}
  BY <1>u, <1>0
<1>k. /\ Working \subseteq Thread /\ {"done", "raised", "aborted", "good", "bad"} \subseteq Thread
      /\ Ramping \subseteq Working /\ Deploying \subseteq Working
      /\ {"warm", "roll", "playing", "generate"} \subseteq Working
      /\ {"warm", "roll", "playing", "generate", "done", "raised", "aborted", "good", "bad"}
           \intersect (Ramping \union Deploying) = {}
      /\ Ramping = {"check", "calibrate"} /\ Deploying = {"wavs", "conf"}
      /\ Ramping \intersect Deploying = {}
  BY DEF Working, Thread, Ramping, Deploying
<1>m. ASSUME NEW from \in Working, NEW to \in Thread, r.thread = from,
             Goes(s, [r EXCEPT !.thread = to]),
             \A at \in Awaiting \union Past : from \in Threads(at) => to \in Threads(at),
             to \in Ramping => from \in Ramping, to \in Deploying => from \in Deploying
      PROVE  Moved
  BY <1>0, <1>m, ThreadGoesOn
<1> HIDE DEF Moved
<1>1. CASE CheckMode(s)
  <2>1. PICK ok \in BOOLEAN, to \in {"calibrate", "raised"} :
          Call(ok) /\ Goes(s, [r EXCEPT !.thread = to])
    BY <1>1 DEF CheckMode
  <2>2. r.thread = "check" /\ UNCHANGED <<gmMode, home, daemon, rest, chain, sound>>
    BY <1>1 DEF CheckMode
  <2>3. Moved
    BY <2>1, <2>2, <1>k, <1>m, ThreadKinds
  <2> QED BY <1>0, <1>c, <2>1, <2>2, <2>3 DEF Moved
<1>3. ASSUME NEW from \in {"warm", "roll"}, NEW to \in {"roll", "playing"},
             NEW what \in {"warmup", "sweep"}, NEW level \in Int, Plays(s, from, to, what, level)
      PROVE  Moved /\ sound' \in Sound /\ UNCHANGED <<gmMode, home, daemon, rest, chain, upsets>>
  <2>1. PICK next \in {to, "raised"} : Goes(s, [r EXCEPT !.thread = next])
    BY <1>3 DEF Plays
  <2>2. r.thread = from /\ UNCHANGED <<gmMode, home, daemon, rest, chain, upsets>>
    BY <1>3 DEF Plays
  <2>3. Moved
    BY <2>1, <2>2, <1>k, <1>m, ThreadKinds
  <2>4. sound' \in Sound
    <3>1. sound' = sound \/ sound' = [by |-> s, what |-> what, level |-> level]
      BY <1>3 DEF Plays
    <3>2. [by |-> s, what |-> what, level |-> level] \in Sound
      BY DEF Sound
    <3> QED BY <1>0, <3>1, <3>2
  <2> QED BY <2>2, <2>3, <2>4
<1>4. CASE WarmUp(s)
  <2>1. LoopbackFloor \in Int
    BY CalibrationAssumption DEF CalibrationAssumption
  <2>2. Plays(s, "warm", "roll", "warmup", LoopbackFloor)
    BY <1>4 DEF WarmUp
  <2>3. Moved /\ sound' \in Sound /\ UNCHANGED <<gmMode, home, daemon, rest, chain, upsets>>
    BY <2>1, <2>2, <1>3
  <2> QED BY <2>3, <1>u DEF Moved
<1>5. CASE PlaySweep(s)
  <2>1. SweepLevel \in Int
    BY SessionAssumption DEF SessionAssumption
  <2>2. Plays(s, "roll", "playing", "sweep", SweepLevel)
    BY <1>5 DEF PlaySweep
  <2>3. Moved /\ sound' \in Sound /\ UNCHANGED <<gmMode, home, daemon, rest, chain, upsets>>
    BY <2>1, <2>2, <1>3
  <2> QED BY <2>3, <1>u DEF Moved
<1>6. CASE Recorded(s)
  <2>1. PICK from \in {"roll", "playing"}, to \in {"done", "raised"}, ok \in BOOLEAN :
          r.thread = from /\ Call(ok) /\ Goes(s, [r EXCEPT !.thread = to])
    BY <1>6 DEF Recorded
  <2>2. UNCHANGED <<gmMode, home, daemon, rest, chain, sound>>
    BY <1>6 DEF Recorded
  <2>3. Moved
    BY <2>1, <1>k, <1>m, ThreadKinds
  <2> QED BY <1>0, <1>c, <2>1, <2>2, <2>3 DEF Moved
<1>7. CASE GenerateThread(s)
  <2>1. PICK to \in {"aborted", "good", "bad", "raised"} : Goes(s, [r EXCEPT !.thread = to])
    BY <1>7 DEF GenerateThread
  <2>2. r.thread = "generate" /\ UNCHANGED <<gmMode, home, daemon, rest, chain, sound, upsets>>
    BY <1>7 DEF GenerateThread
  <2>3. Moved
    BY <2>1, <2>2, <1>k, <1>m, ThreadKinds
  <2> QED BY <1>0, <1>u, <2>2, <2>3 DEF Moved
<1>8. CASE DeployThread(s)
  <2>1. PICK from \in Deploying : r.thread = from
    BY <1>8 DEF DeployThread, Deploying
  <2>2. PICK to \in {"conf", "aborted", "done", "raised"} : Goes(s, [r EXCEPT !.thread = to])
    BY <1>8 DEF DeployThread
  <2>3. /\ UNCHANGED <<gmMode, home, daemon, rest, sound>>
        /\ UNCHANGED upsets \/ Call(FALSE)
    BY <1>8 DEF DeployThread
  <2>4. chain' \in {chain, [chain EXCEPT !.conf = s]}
    BY <1>8 DEF DeployThread, DeployConf
  <2>5. Moved
    BY <2>1, <2>2, <1>k, <1>m, ThreadKinds
  <2> QED BY <1>0, <1>c, <1>u, <2>3, <2>4, <2>5 DEF Moved
<1>9. CASE Burst(s)
  <2>1. r.thread = "calibrate" /\ UNCHANGED <<gmMode, home, daemon, rest, chain, upsets>>
    BY <1>9 DEF Burst
  <2>2. CASE Goes(s, [r EXCEPT !.thread = "raised"]) /\ UNCHANGED sound
    <3>1. Moved
      BY <2>1, <2>2, <1>k, <1>m, ThreadKinds
    <3> QED BY <1>0, <1>u, <2>1, <2>2, <3>1 DEF Moved
  <2>3. ASSUME NEW heard \in Heard,
               LET c == CalibrationStep(r.cal, Ceiling[Channel(s)], r.abort, heard) IN
               /\ Goes(s, [r EXCEPT !.cal = c, !.thread = IF Calibrating(c) THEN @ ELSE "done"])
               /\ sound' = IF Halted(r.cal, r.abort)
                             THEN sound
                             ELSE [by |-> s, what |-> "burst", level |-> c.played]
        PROVE  Moved /\ sound' \in Sound
    <3> DEFINE c  == CalibrationStep(r.cal, Ceiling[Channel(s)], r.abort, heard)
               to == IF Calibrating(c) THEN "calibrate" ELSE "done"
               b  == [r EXCEPT !.cal = c]
               q  == [b EXCEPT !.thread = to]
    <3>1. r.cal \in Calibration /\ r.abort \in BOOLEAN /\ Ceiling[Channel(s)] \in Int
      BY <1>0, CeilingType, SessionAssumption DEF SessionAssumption, SessionRecord, Channel
    <3>2. c \in Calibration
      BY <3>1, BurstType
    <3>3. c.played \in Int
      BY <3>2 DEF Calibration
    <3>4. Goes(s, q)
      BY <2>1, <2>3
    <3>5. sound' = sound \/ sound' = [by |-> s, what |-> "burst", level |-> c.played]
      BY <2>3
    <3>6. to \in {"calibrate", "done"}
      OBVIOUS
    <3> HIDE DEF c, to
    <3>7. sound' \in Sound
      <4>1. [by |-> s, what |-> "burst", level |-> c.played] \in Sound
        BY <3>3 DEF Sound
      <4> QED BY <1>0, <3>5, <4>1
    <3>8. b \in SessionRecord
      BY <1>0, <3>2 DEF SessionRecord
    <3>9. q \in SessionRecord
      <4>1. to \in Thread
        BY <3>6, <1>k
      <4> HIDE DEF b
      <4> QED BY <3>8, <4>1 DEF SessionRecord
    <3>10. /\ q.at = r.at /\ q.state = r.state /\ (q.abort <=> r.abort) /\ q.pre = r.pre
           /\ (q.gm <=> r.gm) /\ q.thread = to /\ q.filters = r.filters
      BY <1>0 DEF SessionRecord
    <3> HIDE DEF q
    <3>11. r.at \in Past \union {"calibrating"}
      BY <1>0, <1>k, <2>1 DEF Course
    <3>12. Course(q)
      <4>1. ~(q.at \in Past \union Verifying /\ q.abort) => q.thread \in Threads(q.at)
        <5>1. ASSUME ~(r.at \in Past \union Verifying /\ r.abort)
              PROVE  "calibrate" \in Threads(r.at)
          BY <1>0, <2>1, <5>1 DEF Course
        <5>2. r.at \in Awaiting \union Past
          BY <3>11 DEF Awaiting
        <5> QED BY <3>6, <3>10, <5>1, <5>2, ThreadKinds
      <4>2. q.thread \in Ramping => r.thread \in Ramping
        BY <1>k, <2>1
      <4>3. q.thread \notin Deploying
        BY <1>k, <3>6, <3>10
      <4> QED BY <1>0, <3>10, <3>11, <4>1, <4>2, <4>3 DEF Course
    <3>13. Follows(r, q)
      BY <3>6, <3>10, <1>k DEF Follows, Finish, Spare
    <3> QED BY <3>4, <3>7, <3>9, <3>12, <3>13 DEF Moved
  <2>4. (Moved /\ sound' \in Sound) \/ (Goes(s, [r EXCEPT !.thread = "raised"]) /\ UNCHANGED sound)
    BY <1>9, <2>3 DEF Burst
  <2> QED BY <1>u, <2>1, <2>2, <2>4 DEF Moved
<1> QED BY <1>1, <1>4, <1>5, <1>6, <1>7, <1>8, <1>9 DEF ThreadStep

LEMMA InsideStep ==
  ASSUME SessionTypeOK, Courses, NEW s \in Session, Inside(s)
  PROVE  /\ \E q \in SessionRecord : Goes(s, q) /\ Course(q) /\ Follows(ses[s], q)
         /\ UNCHANGED <<gmMode, home, daemon>>
         /\ upsets' \in 0..MaxUpsets /\ upsets' \in {upsets, upsets + 1}
         /\ sound' \in Sound
         /\ chain' \in {chain, [chain EXCEPT !.conf = s]}
         /\ rest' = rest \/ (RestDeploy(s) /\ rest' = rest \union {s})
<1> HIDE DEF SessionTypeOK, Courses
<1>0. upsets \in 0..MaxUpsets /\ sound \in Sound
  BY DEF SessionTypeOK, Sound
<1>1. CASE PlayStep(s)
  BY <1>0, <1>1, PlayFollows
<1>2. CASE FilterStep(s)
  BY <1>0, <1>2, FilterFollows
<1>3. CASE ThreadStep(s)
  BY <1>0, <1>3, ThreadFollows
<1>4. CASE WatchdogTimeout(s) \/ RequestAbort(s) \/ RestDeploy(s)
  <2>1. rest' = rest \/ (RestDeploy(s) /\ rest' = rest \union {s})
    BY <1>4 DEF WatchdogTimeout, RequestAbort, RestDeploy
  <2>2. /\ \E q \in SessionRecord : Goes(s, q) /\ Course(q) /\ Follows(ses[s], q)
        /\ UNCHANGED <<gmMode, home, daemon, chain, sound, upsets>>
    BY <1>4, AskFollows
  <2> QED BY <1>0, <2>1, <2>2
<1> QED BY <1>1, <1>2, <1>3, <1>4 DEF Inside

--------------------------------------------------------------------------------
(* The steps by which a session comes to measurement mode and leaves it. *)

Crossing(s) ==
  \/ Start(s) \/ Claim(s) \/ Enter(s) \/ EnterStep(s) \/ BroadcastFails(s)
  \/ Clean(s) \/ Leave(s) \/ Close(s)

(* What a broadcast that fails makes of its session. *)
LEMMA FailsIs ==
  ASSUME NEW s \in Session, ses[s] \in SessionRecord, Course(ses[s]), BroadcastFails(s)
  PROVE  \E q \in SessionRecord :
           /\ Goes(s, q) /\ Course(q)
           /\ q.at = "cleaning" /\ q.state = "error" /\ q.pre = ses[s].pre
           /\ q.cal = ses[s].cal /\ q.done = ses[s].done /\ q.thread = ses[s].thread
           /\ ses[s].gm => q.gm
<1> DEFINE r == ses[s]
<1>1. PICK gm \in BOOLEAN : (r.gm => gm) /\ Goes(s, Erring([r EXCEPT !.gm = gm]))
  BY DEF BroadcastFails, SessionRecord
<1> DEFINE q == Erring([r EXCEPT !.gm = gm])
<1>2. q \in SessionRecord
  BY DEF Erring, SessionRecord, State
<1>3. /\ q.at = "cleaning" /\ q.state = "error" /\ q.pre = r.pre /\ (q.gm <=> gm)
      /\ q.cal = r.cal /\ q.done = r.done /\ q.thread = r.thread
      /\ q.filters = r.filters /\ (q.abort <=> r.abort)
  BY DEF Erring, SessionRecord
<1>4. r.at \in Telling
  BY DEF BroadcastFails
<1>5. Goes(s, q)
  BY <1>1
<1> HIDE DEF q
<1>6. Course(q)
  BY <1>3, <1>4 DEF Course, States, Threads, Past, Ramping, Deploying, Sweeping, Verifying, Ends, Thread, Working,
                    Telling, SessionRecord
<1> QED BY <1>1, <1>2, <1>3, <1>5, <1>6

LEMMA NewKeeps ==
  /\ New \in SessionRecord /\ Course(New)
  /\ \A at \in {"evicting", "ended"} :
       [New EXCEPT !.at = at] \in SessionRecord /\ Course([New EXCEPT !.at = at])
  /\ LET q == [New EXCEPT !.at = "entering", !.siggen = TRUE] IN q \in SessionRecord /\ Course(q)
<1> USE DEF New, Course, States, Threads, Past, Ramping, Deploying, Ends, Sweeping, Verifying, Thread, Working
<1>1. New \in SessionRecord
  BY BegunType DEF SessionRecord, State
<1>2. Course(New)
  OBVIOUS
<1>3. ASSUME NEW at \in {"evicting", "ended"}
      PROVE  [New EXCEPT !.at = at] \in SessionRecord /\ Course([New EXCEPT !.at = at])
  <2>1. [New EXCEPT !.at = at] \in SessionRecord
    BY BegunType DEF SessionRecord, State
  <2>2. Course([New EXCEPT !.at = at])
    OBVIOUS
  <2> QED BY <2>1, <2>2
<1> DEFINE q == [New EXCEPT !.at = "entering", !.siggen = TRUE]
<1>4. q \in SessionRecord
  BY BegunType DEF SessionRecord, State
<1>5. Course(q)
  OBVIOUS
<1> HIDE DEF q, New, Course
<1> QED BY <1>1, <1>2, <1>3, <1>4, <1>5 DEF q

LEMMA CrossingStep ==
  ASSUME SessionTypeOK, Courses, NEW s \in Session, Crossing(s)
  PROVE  /\ \E q \in SessionRecord : Goes(s, q) /\ Course(q)
         /\ UNCHANGED <<home, rest, chain, sound>>
         /\ daemon' \in DaemonRecord /\ gmMode' \in GmMode
         /\ upsets' \in 0..MaxUpsets /\ upsets' \in {upsets, upsets + 1}
<1> DEFINE r == ses[s]
<1>0. /\ r \in SessionRecord /\ Course(r) /\ upsets \in 0..MaxUpsets
      /\ daemon \in DaemonRecord /\ gmMode \in GmMode
  BY DEF SessionTypeOK, Courses
<1>c. ASSUME NEW ok \in BOOLEAN, Call(ok)
      PROVE  upsets' \in 0..MaxUpsets /\ upsets' \in {upsets, upsets + 1}
  BY <1>c, <1>0, CallCosts
<1>u. ASSUME UNCHANGED upsets PROVE upsets' \in 0..MaxUpsets /\ upsets' \in {upsets, upsets + 1}
  BY <1>u, <1>0
<1>s. ASSUME NEW mode \in GmMode, NEW ok \in BOOLEAN, SetMode(mode, ok)
      PROVE  gmMode' \in GmMode /\ upsets' \in 0..MaxUpsets /\ upsets' \in {upsets, upsets + 1}
  BY <1>s, <1>c, <1>0 DEF SetMode
<1>g. /\ Mode \subseteq GmMode /\ "measurement" \in GmMode /\ "standby" \in GmMode
      /\ \A mode \in GmMode \union {None} : ModeOr(mode) \in GmMode
  BY SessionAssumption DEF SessionAssumption, GmMode, ModeOr
<1> DEFINE Moved == \E q \in SessionRecord : Goes(s, q) /\ Course(q)
<1> HIDE DEF Moved
<1>1. CASE Start(s)
  <2>1. Goes(s, [New EXCEPT !.at = "evicting"])
    BY <1>1 DEF Start
  <2>3. Moved
    BY <2>1, NewKeeps DEF Moved
  <2>4. UNCHANGED <<gmMode, home, daemon, rest, chain, sound, upsets>>
    BY <1>1 DEF Start
  <2> QED BY <1>0, <1>u, <2>3, <2>4 DEF Moved
<1>2. CASE Claim(s)
  <2>1. Goes(s, New) \/ Goes(s, [New EXCEPT !.at = "entering", !.siggen = TRUE])
    BY <1>2 DEF Claim
  <2>3. Moved
    BY <2>1, NewKeeps DEF Moved
  <2>4. UNCHANGED <<gmMode, home, rest, chain, sound>> /\ (UNCHANGED upsets \/ Call(FALSE))
    BY <1>2 DEF Claim
  <2>5. daemon' \in DaemonRecord
    <3>1. daemon' = daemon \/ daemon' = [daemon EXCEPT !.overlap = @ \/ Entering # {}]
      BY <1>2 DEF Claim
    <3>2. [daemon EXCEPT !.overlap = @ \/ Entering # {}] \in DaemonRecord
      BY <1>0 DEF DaemonRecord
    <3> QED BY <1>0, <3>1, <3>2
  <2> QED BY <1>0, <1>u, <1>c, <2>3, <2>4, <2>5 DEF Moved
<1>3. CASE Enter(s)
  <2>1. PICK ok \in BOOLEAN, told \in BOOLEAN :
          /\ Call(told /\ ok = daemon.gm)
          /\ daemon' = [daemon EXCEPT !.mode = "measurement", !.active = s, !.last = None,
                                      !.saved = IF ok THEN gmMode ELSE "standby"]
          /\ Goes(s, [r EXCEPT !.at = IF told THEN "begun" ELSE "stranded"])
    BY <1>0, <1>3 DEF Enter, DaemonRecord
  <2> DEFINE q == [r EXCEPT !.at = IF told THEN "begun" ELSE "stranded"]
  <2>2. daemon' \in DaemonRecord
    BY <1>0, <1>g, <2>1 DEF DaemonRecord
  <2>3. Goes(s, q) /\ r.at = "entering"
    BY <1>3, <2>1 DEF Enter, At
  <2>4. UNCHANGED <<gmMode, home, rest, chain, sound>>
    BY <1>3 DEF Enter
  <2>5. q \in SessionRecord
    BY <1>0 DEF SessionRecord, Awaiting
  <2>6. Course(q)
    BY <1>0, <2>3 DEF SessionRecord, Course, States, Threads, Past, Ramping, Deploying, Sweeping, Verifying, Ends,
                      Thread, Working
  <2>7. (told /\ ok = daemon.gm) \in BOOLEAN
    OBVIOUS
  <2> HIDE DEF q
  <2> QED BY <1>0, <1>c, <2>1, <2>2, <2>3, <2>4, <2>5, <2>6, <2>7
<1>d. ASSUME NEW q, Goes(s, q), q \in SessionRecord, Course(q) PROVE Moved
  BY <1>d DEF Moved
<1>4. CASE EnterStep(s)
  <2>0. UNCHANGED <<home, daemon, rest, chain, sound>>
    BY <1>4 DEF EnterStep, Begin, Connect, Query, Switch, Settle, Undo
  <2> USE DEF Course, States, Threads, Past, Ramping, Deploying, Sweeping, Verifying, Ends, Thread, Working,
              SessionRecord, Awaiting, State, At
  <2>1. CASE Begin(s)
    <3> DEFINE q == [r EXCEPT !.state = "setup", !.at = "connecting"]
    <3>1. Goes(s, q) /\ r.at = "begun" /\ UNCHANGED <<gmMode, upsets>>
      BY <2>1 DEF Begin
    <3>2. q \in SessionRecord
      BY <1>0, <3>1
    <3>3. Course(q)
      BY <1>0, <3>1
    <3> HIDE DEF q, Course, SessionRecord
    <3>4. Moved
      BY <3>1, <3>2, <3>3, <1>d
    <3> QED BY <1>0, <1>u, <2>0, <3>1, <3>4 DEF Moved
  <2>2. CASE Connect(s)
    <3>1. PICK ok \in BOOLEAN :
            /\ Call(ok)
            /\ Goes(s, [r EXCEPT !.gm = ok, !.state = "gain_cal",
                                 !.at = IF ok THEN "querying" ELSE "channel"])
      BY <2>2, Zenon DEF Connect
    <3> DEFINE q == [r EXCEPT !.gm = ok, !.state = "gain_cal",
                              !.at = IF ok THEN "querying" ELSE "channel"]
    <3>2. r.at = "connecting" /\ UNCHANGED gmMode
      BY <2>2 DEF Connect
    <3>3. q \in SessionRecord
      BY <1>0, <3>2
    <3>4. Course(q)
      BY <1>0, <3>2
    <3> HIDE DEF q, Course, SessionRecord
    <3>5. Moved
      BY <3>1, <3>3, <3>4, <1>d DEF q
    <3> QED BY <1>0, <1>c, <2>0, <3>1, <3>2, <3>5 DEF Moved
  <2>3. CASE Query(s)
    <3>1. PICK ok \in BOOLEAN :
            Call(ok) /\ Goes(s, [r EXCEPT !.pre = SavedMode(s, ok), !.at = "switching"])
      BY <2>3, Zenon DEF Query
    <3> DEFINE q == [r EXCEPT !.pre = SavedMode(s, ok), !.at = "switching"]
    <3>2. r.at = "querying" /\ UNCHANGED gmMode
      BY <2>3 DEF Query
    <3>3. SavedMode(s, ok) \in GmMode
      BY <1>0, <1>g DEF SavedMode
    <3>4. q \in SessionRecord
      BY <1>0, <3>2, <3>3
    <3>5. Course(q)
      BY <1>0, <3>2
    <3> HIDE DEF q, Course, SessionRecord
    <3>6. Moved
      BY <3>1, <3>4, <3>5, <1>d DEF q
    <3> QED BY <1>0, <1>c, <2>0, <3>1, <3>2, <3>6 DEF Moved
  <2>4. CASE Switch(s)
    <3>1. PICK ok \in BOOLEAN :
            /\ SetMode("measurement", ok)
            /\ Goes(s, [r EXCEPT !.at = IF ok THEN "settling" ELSE "undoing"])
      BY <2>4, Zenon DEF Switch
    <3> DEFINE q == [r EXCEPT !.at = IF ok THEN "settling" ELSE "undoing"]
    <3>2. r.at = "switching"
      BY <2>4 DEF Switch
    <3>3. q \in SessionRecord
      BY <1>0, <3>2
    <3>4. Course(q)
      BY <1>0, <3>2
    <3> HIDE DEF q, Course, SessionRecord
    <3>5. Moved
      BY <3>1, <3>3, <3>4, <1>d DEF q
    <3> QED BY <1>0, <1>g, <1>s, <2>0, <3>1, <3>5 DEF Moved
  <2>5. CASE Settle(s)
    <3>1. PICK ok \in BOOLEAN :
            /\ Call(ok)
            /\ Goes(s, [r EXCEPT !.at = IF ok THEN "channel" ELSE "undoing"])
      BY <2>5, Zenon DEF Settle
    <3> DEFINE q == [r EXCEPT !.at = IF ok THEN "channel" ELSE "undoing"]
    <3>2. r.at = "settling" /\ UNCHANGED gmMode
      BY <2>5 DEF Settle
    <3>3. q \in SessionRecord
      BY <1>0, <3>2
    <3>4. Course(q)
      BY <1>0, <3>2
    <3> HIDE DEF q, Course, SessionRecord
    <3>5. Moved
      BY <3>1, <3>3, <3>4, <1>d DEF q
    <3> QED BY <1>0, <1>c, <2>0, <3>1, <3>2, <3>5 DEF Moved
  <2>6. CASE Undo(s)
    <3>1. PICK ok \in BOOLEAN : SetMode(ModeOr(r.pre), ok)
      BY <2>6, Zenon DEF Undo
    <3> DEFINE q == Erring(r)
    <3>2. Goes(s, q) /\ r.at = "undoing"
      BY <2>6 DEF Undo
    <3>3. ModeOr(r.pre) \in GmMode
      BY <1>0, <1>g
    <3>4. q \in SessionRecord
      <4> HIDE DEF SessionRecord
      <4> QED BY <1>0, RecordMoves
    <3>5. Course(q)
      BY <1>0, <3>2 DEF Erring
    <3> HIDE DEF q, Course, SessionRecord
    <3>6. Moved
      BY <3>2, <3>4, <3>5, <1>d
    <3> QED BY <1>0, <1>s, <2>0, <3>1, <3>3, <3>6 DEF Moved
  <2> QED BY <1>4, <2>1, <2>2, <2>3, <2>4, <2>5, <2>6 DEF EnterStep
<1>5. CASE Clean(s)
  <2> DEFINE q == [r EXCEPT !.gm = FALSE, !.at = "leaving"]
  <2>1. Goes(s, q) /\ r.at = "cleaning" /\ UNCHANGED <<home, daemon, rest, chain, sound>>
    BY <1>5 DEF Clean, At
  <2>2. q \in SessionRecord
    BY <1>0 DEF SessionRecord
  <2>3. Course(q)
    BY <1>0, <2>1 DEF SessionRecord, Course, States, Threads, Past, Ramping, Deploying, Sweeping, Verifying, Ends,
                      Thread, Working
  <2>4. UNCHANGED <<gmMode, upsets>> \/ \E ok \in BOOLEAN : SetMode(ModeOr(r.pre), ok)
    BY <1>5 DEF Clean
  <2>5. ModeOr(r.pre) \in GmMode
    BY <1>0, <1>g DEF SessionRecord
  <2> HIDE DEF q
  <2>6. Moved
    BY <2>1, <2>2, <2>3, <1>d
  <2> QED BY <1>0, <1>s, <1>u, <2>1, <2>4, <2>5, <2>6 DEF Moved
<1>6. CASE Leave(s)
  <2> DEFINE q == [r EXCEPT !.at = "closing"]
  <2>1. Goes(s, q) /\ r.at = "leaving" /\ UNCHANGED <<home, rest, chain, sound>>
    BY <1>6 DEF Leave, At
  <2>2. q \in SessionRecord
    BY <1>0 DEF SessionRecord
  <2>3. Course(q)
    BY <1>0, <2>1 DEF SessionRecord, Course, States, Threads, Past, Ramping, Deploying, Sweeping, Verifying, Ends,
                      Thread, Working
  <2>4. UNCHANGED <<gmMode, upsets>> \/ \E ok \in BOOLEAN : SetMode(ModeOr(daemon.saved), ok)
    BY <1>6 DEF Leave
  <2>5. ModeOr(daemon.saved) \in GmMode
    BY <1>0, <1>g DEF DaemonRecord
  <2>6. daemon' \in DaemonRecord
    <3>1. InStandby(s) \in DaemonRecord
      BY <1>0 DEF InStandby, DaemonRecord
    <3>2. daemon' = daemon \/ daemon' = InStandby(s)
      BY <1>6 DEF Leave
    <3> QED BY <1>0, <3>1, <3>2
  <2> HIDE DEF q
  <2>7. Moved
    BY <2>1, <2>2, <2>3, <1>d
  <2> QED BY <1>0, <1>s, <1>u, <2>1, <2>4, <2>5, <2>6, <2>7 DEF Moved
<1>7. CASE BroadcastFails(s)
  <2>1. Moved
    BY <1>0, <1>7, FailsIs DEF Moved
  <2>2. Call(FALSE) /\ UNCHANGED <<gmMode, home, daemon, rest, chain, sound>>
    BY <1>7 DEF BroadcastFails
  <2> QED BY <1>0, <1>c, <2>1, <2>2 DEF Moved
<1>8. CASE Close(s)
  <2>1. PICK told \in BOOLEAN :
          Call(told) /\ Goes(s, [r EXCEPT !.at = "ended", !.siggen = r.siggen /\ ~told])
    BY <1>8, Zenon DEF Close
  <2> DEFINE q == [r EXCEPT !.at = "ended", !.siggen = r.siggen /\ ~told]
  <2>2. r.at = "closing" /\ UNCHANGED <<gmMode, home, daemon, rest, chain, sound>>
    BY <1>8 DEF Close, At
  <2>3. q \in SessionRecord
    BY <1>0 DEF SessionRecord
  <2>4. Course(q)
    BY <1>0, <2>2 DEF SessionRecord, Course, States, Threads, Past, Ramping, Deploying, Sweeping, Verifying, Ends,
                      Thread, Working
  <2>5. Goes(s, q)
    BY <2>1
  <2> HIDE DEF q
  <2>6. Moved
    BY <2>3, <2>4, <2>5, <1>d
  <2> QED BY <1>0, <1>c, <2>1, <2>2, <2>6 DEF Moved
<1> QED BY <1>1, <1>2, <1>3, <1>4, <1>5, <1>6, <1>7, <1>8 DEF Crossing

--------------------------------------------------------------------------------
(* The process. *)

LEMMA CancelledKeeps ==
  ASSUME NEW r \in SessionRecord, Course(r)
  PROVE  LET q == Cancelled(r) IN
         /\ q \in SessionRecord /\ Course(q)
         /\ q.pre = r.pre /\ (q.gm <=> r.gm)
         /\ Finish(r) => Finish(q)
         /\ Spare(r) => Spare(q)
         /\ q.thread = r.thread /\ q.cal = r.cal /\ q.done = r.done
         /\ q.at = CASE r.at \in Awaiting -> "cleaning"
                     [] r.at = "cleaning" -> "leaving"
                     [] r.at \in {"leaving", "closing"} -> "ended"
                     [] OTHER -> r.at
<1> DEFINE q == Cancelled(r)
<1> USE DEF Past
<1>1. CASE r.at \in Awaiting
  <2>0. r.at \notin {"cleaning", "leaving", "closing", "ended"}
    BY <1>1 DEF Awaiting
  <2>1. q = [Aborted(r) EXCEPT !.abort = TRUE]
    BY <1>1, <2>0 DEF Cancelled
  <2>2. q \in SessionRecord
    <3>1. ASSUME NEW a \in SessionRecord PROVE [a EXCEPT !.abort = TRUE] \in SessionRecord
      BY DEF SessionRecord
    <3> QED BY <2>1, <3>1, RecordMoves
  <2>3. /\ q.at = "cleaning" /\ q.state = "aborted" /\ q.thread = r.thread /\ q.cal = r.cal
        /\ q.done = r.done /\ q.pre = r.pre /\ q.filters = r.filters
    BY <2>1 DEF Aborted, SessionRecord
  <2>4. q.abort /\ (q.gm <=> r.gm)
    BY <2>1 DEF Aborted, SessionRecord
  <2> HIDE DEF q
  <2>5. Course(q)
    BY <1>1, <2>3, <2>4 DEF Course, States, Ends, Verifying
  <2>6. ~Finish(r)
    BY <1>1 DEF Course, States, Awaiting, Finish
  <2>7. Spare(q)
    BY <2>3 DEF Spare
  <2>8. q.at = CASE r.at \in Awaiting -> "cleaning"
                 [] r.at = "cleaning" -> "leaving"
                 [] r.at \in {"leaving", "closing"} -> "ended"
                 [] OTHER -> r.at
    BY <1>1, <2>0, <2>3
  <2> QED BY <2>2, <2>3, <2>4, <2>5, <2>6, <2>7, <2>8 DEF q
<1>2. CASE r.at = "cleaning"
  <2>1. q = [r EXCEPT !.abort = TRUE, !.at = "leaving"]
    BY <1>2, Zenon DEF Cancelled, Awaiting
  <2>2. q \in SessionRecord
    BY <2>1 DEF SessionRecord
  <2>3. /\ q.at = "leaving" /\ q.state = r.state /\ q.thread = r.thread /\ q.cal = r.cal
        /\ q.done = r.done /\ q.pre = r.pre /\ q.filters = r.filters
    BY <2>1 DEF SessionRecord
  <2>4. q.abort /\ (q.gm <=> r.gm)
    BY <2>1 DEF SessionRecord
  <2> HIDE DEF q
  <2>5. Course(q)
    BY <1>2, <2>3, <2>4 DEF Course, States, Ends
  <2> QED BY <1>2, <2>2, <2>3, <2>4, <2>5 DEF Spare, Finish, q, Awaiting
<1>3. CASE r.at \in {"leaving", "closing"}
  <2>1. q = [r EXCEPT !.abort = TRUE, !.at = "ended"]
    BY <1>3, Zenon DEF Cancelled, Awaiting
  <2>2. q \in SessionRecord
    BY <2>1 DEF SessionRecord
  <2>3. /\ q.at = "ended" /\ q.state = r.state /\ q.thread = r.thread /\ q.cal = r.cal
        /\ q.done = r.done /\ q.pre = r.pre /\ q.filters = r.filters
    BY <2>1 DEF SessionRecord
  <2>4. q.abort /\ (q.gm <=> r.gm)
    BY <2>1 DEF SessionRecord
  <2> HIDE DEF q
  <2>5. Course(q)
    BY <1>3, <2>3, <2>4 DEF Course, States, Ends
  <2> QED BY <1>3, <2>2, <2>3, <2>4, <2>5 DEF Spare, Finish, q, Awaiting
<1>4. CASE r.at \notin Awaiting \union {"cleaning", "leaving", "closing"}
  <2>1. q = r
    BY <1>4, Zenon DEF Cancelled
  <2> HIDE DEF q
  <2> QED BY <1>4, <2>1 DEF q
<1> QED BY <1>1, <1>2, <1>3, <1>4

LEMMA ProcessStep ==
  ASSUME SessionTypeOK, Courses, Process
  PROVE  SessionTypeOK' /\ Courses'
<1>0. /\ ses \in [Session -> SessionRecord] /\ Courses /\ upsets \in 0..MaxUpsets
      /\ daemon \in DaemonRecord /\ gmMode \in GmMode
  BY DEF SessionTypeOK
<1>c. ASSUME NEW ok \in BOOLEAN, Call(ok)
      PROVE  upsets' \in 0..MaxUpsets
  BY <1>c, <1>0, CallCosts
<1>a. /\ Standby(TRUE) \in DaemonRecord /\ Standby(FALSE) \in DaemonRecord
      /\ [Standby(TRUE) EXCEPT !.up = "down"] \in DaemonRecord
  BY DEF Standby, DaemonRecord
<1>1. CASE Shutdown
  <2>1. /\ daemon' = [daemon EXCEPT !.up = "stopping"]
        /\ ses' = [s \in Session |-> Cancelled(ses[s])]
        /\ UNCHANGED <<gmMode, home, rest, chain, sound>> /\ upsets' \in 0..MaxUpsets
    BY <1>1, <1>c DEF Shutdown
  <2>2. daemon' \in DaemonRecord
    BY <1>0, <2>1 DEF DaemonRecord
  <2>3. ASSUME NEW s \in Session PROVE Cancelled(ses[s]) \in SessionRecord /\ Course(Cancelled(ses[s]))
    BY <1>0, CancelledKeeps DEF Courses
  <2>4. ses' \in [Session -> SessionRecord] /\ Courses'
    BY <2>1, <2>3 DEF Courses
  <2> QED BY <2>1, <2>2, <2>4 DEF SessionTypeOK
<1>2. ASSUME Gone, upsets' \in 0..MaxUpsets PROVE SessionTypeOK' /\ Courses'
  <2>1. /\ daemon' = [Standby(TRUE) EXCEPT !.up = "down"]
        /\ ses' = [s \in Session |-> IF At(s, "none") THEN New ELSE [New EXCEPT !.at = "ended"]]
        /\ rest' = {} /\ UNCHANGED <<gmMode, home, chain, sound>>
    BY <1>2 DEF Gone
  <2>2. ses' \in [Session -> SessionRecord] /\ Courses'
    BY <2>1, NewKeeps DEF Courses
  <2> QED BY <1>2, <1>a, <2>1, <2>2 DEF SessionTypeOK
<1>3. CASE Exit
  BY <1>0, <1>2, <1>3 DEF Exit
<1>4. CASE Crash
  BY <1>2, <1>4, <1>c DEF Crash
<1>5. CASE Restart
  <2>1. UNCHANGED <<home, ses, rest, chain, sound>> /\ daemon' \in DaemonRecord
    BY <1>5, <1>a DEF Restart
  <2>2. gmMode' \in GmMode /\ upsets' \in 0..MaxUpsets
    BY <1>5, <1>0, <1>c, SessionAssumption DEF Restart, SetMode, SessionAssumption, GmMode
  <2> QED BY <2>1, <2>2 DEF SessionTypeOK, Courses
<1> QED BY <1>1, <1>3, <1>4, <1>5 DEF Process

LEMMA ControlStep ==
  ASSUME SessionTypeOK, Courses, [SessionNext]_sessionVars
  PROVE  SessionTypeOK' /\ Courses'
<1>0. /\ ses \in [Session -> SessionRecord] /\ Courses /\ upsets \in 0..MaxUpsets
      /\ daemon \in DaemonRecord /\ gmMode \in GmMode /\ home \in Mode /\ rest \subseteq Session
      /\ chain \in [conf : Session \union {None}, loaded : Session \union {None}]
      /\ sound \in Sound
  BY DEF SessionTypeOK, Sound
<1>1. ASSUME NEW s \in Session, NEW q \in SessionRecord, Goes(s, q), Course(q)
      PROVE  ses' \in [Session -> SessionRecord] /\ Courses'
  BY <1>0, <1>1, GoesOn DEF Courses
<1>2. ASSUME NEW s \in Session
      PROVE  [chain EXCEPT !.conf = s] \in [conf : Session \union {None}, loaded : Session \union {None}]
  BY <1>0
<1>3. ASSUME NEW s \in Session, Inside(s) PROVE SessionTypeOK' /\ Courses'
  BY <1>0, <1>1, <1>2, <1>3, InsideStep DEF SessionTypeOK, Sound
<1>4. ASSUME NEW s \in Session, Crossing(s) PROVE SessionTypeOK' /\ Courses'
  BY <1>0, <1>1, <1>4, CrossingStep DEF SessionTypeOK, Sound
<1>5. CASE RestThread
  <2>1. PICK s \in rest : chain' \in {chain, [chain EXCEPT !.conf = s]} /\ rest' = rest \ {s}
    BY <1>5 DEF RestThread, DeployConf
  <2>2. UNCHANGED <<gmMode, home, daemon, ses, sound>> /\ upsets' \in 0..MaxUpsets
    BY <1>0, <1>5, CallCosts DEF RestThread
  <2> QED BY <1>0, <1>2, <2>1, <2>2 DEF SessionTypeOK, Courses, Sound
<1>6. CASE Process
  BY <1>6, ProcessStep
<1>7. CASE Outside
  <2>1. UNCHANGED <<daemon, ses, rest>>
    BY <1>7 DEF Outside, SoundEnds, PipeWireRestart, OperatorMode
  <2>2. gmMode' \in GmMode /\ home' \in Mode /\ upsets' \in 0..MaxUpsets
    BY <1>0, <1>7, CallCosts DEF Outside, SoundEnds, PipeWireRestart, OperatorMode, GmMode
  <2>3. chain' \in [conf : Session \union {None}, loaded : Session \union {None}]
    BY <1>0, <1>7 DEF Outside, SoundEnds, PipeWireRestart, OperatorMode
  <2>4. sound' \in Sound
    <3>1. Quiet \in Sound
      BY CalibrationAssumption DEF CalibrationAssumption, Quiet, Sound
    <3> QED BY <1>0, <1>7, <3>1 DEF Outside, SoundEnds, PipeWireRestart, OperatorMode
  <2> QED BY <1>0, <2>1, <2>2, <2>3, <2>4 DEF SessionTypeOK, Courses, Sound
<1>8. CASE UNCHANGED sessionVars
  BY <1>8 DEF sessionVars, SessionTypeOK, Courses
<1> QED BY <1>3, <1>4, <1>5, <1>6, <1>7, <1>8 DEF SessionNext, Coroutine, Inside, Crossing

LEMMA ControlBegins == SessionInit => SessionTypeOK /\ Courses
<1> SUFFICES ASSUME SessionInit PROVE SessionTypeOK /\ Courses
  OBVIOUS
<1> USE SessionAssumption DEF SessionAssumption, SessionInit
<1>1. ses \in [Session -> SessionRecord] /\ Courses
  BY NewKeeps DEF Courses
<1>2. daemon \in DaemonRecord
  BY DEF Standby, DaemonRecord
<1>3. sound \in [by : Session \union {None},
                what : {"silence", "burst", "warmup", "sweep"}, level : Int]
  BY CalibrationAssumption DEF CalibrationAssumption, Quiet
<1>4. gmMode \in GmMode /\ home \in Mode
  BY DEF GmMode
<1>5. rest \subseteq Session /\ upsets \in 0..MaxUpsets
  OBVIOUS
<1>6. chain \in [conf : Session \union {None}, loaded : Session \union {None}]
  OBVIOUS
<1> HIDE DEF SessionInit
<1> QED BY <1>1, <1>2, <1>3, <1>4, <1>5, <1>6 DEF SessionTypeOK

LEMMA Controlled == SessionSpec => [](SessionTypeOK /\ Courses)
<1>1. SessionTypeOK /\ Courses /\ [SessionNext]_sessionVars => (SessionTypeOK /\ Courses)'
  BY ControlStep
<1> QED BY ControlBegins, <1>1, PTL DEF SessionSpec

(* Every variable of the measurement daemon keeps its type, whatever the   *)
(* number of sessions, channels and positions.                             *)
THEOREM SessionTypeHolds == SessionSpec => []SessionTypeOK
<1>1. SessionTypeOK /\ Courses => SessionTypeOK
  OBVIOUS
<1> QED BY Controlled, <1>1, PTL

--------------------------------------------------------------------------------
(* Deployments. *)

(* What one session owes to the set of those that a request deploys. *)
Undeploying(r) == Spare(r) /\ r.thread \notin Deploying

LEMMA DeploymentsMean ==
  Deployments <=> \A s \in rest : Undeploying(ses[s])
  BY DEF Deployments, Undeploying, Spare, At, Past

(* The session's own deployment and that of a request exclude each other:  *)
(* the request needs the state that the session leaves when it deploys.    *)
LEMMA DeploymentsStep ==
  ASSUME SessionTypeOK, Courses, Deployments, [SessionNext]_sessionVars
  PROVE  Deployments'
<1> DEFINE Kept(t) == t \in rest' => Undeploying(ses'[t])
<1>0. SUFFICES \A t \in Session : Kept(t)
  <2>1. rest' \subseteq Session
    BY ControlStep DEF SessionTypeOK
  <2> QED BY <1>0, <2>1 DEF Deployments, Undeploying, Spare, At, Past
<1>a. /\ ses \in [Session -> SessionRecord] /\ rest \subseteq Session
      /\ \A s \in Session : Course(ses[s])
      /\ \A s \in rest : Undeploying(ses[s])
  BY DeploymentsMean DEF SessionTypeOK, Courses
<1>b. ASSUME rest' \subseteq rest, UNCHANGED ses PROVE \A t \in Session : Kept(t)
  BY <1>a, <1>b
<1> USE <1>a
<1>1. ASSUME NEW s \in Session, Inside(s) PROVE \A t \in Session : Kept(t)
  <2>1. PICK q \in SessionRecord : Goes(s, q) /\ Course(q) /\ Follows(ses[s], q)
    BY <1>1, InsideStep
  <2>2. ses'[s] = q /\ \A t \in Session \ {s} : ses'[t] = ses[t]
    BY <2>1, GoesOn
  <2>3. rest' = rest \/ (RestDeploy(s) /\ rest' = rest \union {s})
    BY <1>1, InsideStep
  <2>4. Undeploying(ses[s]) => Undeploying(q)
    BY <2>1 DEF Undeploying, Follows
  <2>5. RestDeploy(s) => Undeploying(q)
    <3>1. SUFFICES ASSUME RestDeploy(s) PROVE Undeploying(q)
      OBVIOUS
    <3>2. /\ ses[s].filters = "good" /\ ses[s].state = "filter_gen"
          /\ Goes(s, [ses[s] EXCEPT !.state = "deploy"])
      BY <3>1 DEF RestDeploy, Transitions
    <3>3. ses[s].at = "generated" /\ ses[s].thread = "idle"
      BY <3>2 DEF Course, Threads, Past, Sweeping, Verifying
    <3>4. q = [ses[s] EXCEPT !.state = "deploy"]
      BY <2>1, <3>2 DEF Goes
    <3>5. q.at = "generated" /\ q.state = "deploy" /\ q.thread = "idle"
      BY <3>3, <3>4 DEF SessionRecord
    <3> QED BY <3>5 DEF Undeploying, Spare, Deploying
  <2> QED BY <2>2, <2>3, <2>4, <2>5
<1>2. ASSUME NEW s \in Session, Crossing(s) PROVE \A t \in Session : Kept(t)
  <2>1. rest' = rest
    BY <1>2, CrossingStep
  <2>2. PICK q \in SessionRecord : Goes(s, q)
    BY <1>2, CrossingStep
  <2>3. ses'[s] = q /\ \A t \in Session \ {s} : ses'[t] = ses[t]
    BY <2>2, GoesOn
  <2>4. Undeploying(ses[s]) => Undeploying(q)
    <3>1. SUFFICES ASSUME Undeploying(ses[s]) PROVE Undeploying(q)
      OBVIOUS
    <3>2. ses[s].at \in Past \union {"generated"}
      BY <3>1 DEF Undeploying, Spare
    <3>3. BroadcastFails(s) \/ Clean(s) \/ Leave(s) \/ Close(s)
      BY <1>2, <3>2 DEF Crossing, Start, Claim, Enter, EnterStep, Begin, Connect, Query, Switch, Settle,
                        Undo, At, Past
    <3>4. CASE BroadcastFails(s)
      <4>1. ses'[s].at = "cleaning" /\ ses'[s].thread = ses[s].thread
        BY <3>4, FailsIs, GoesOn
      <4>2. q.at = "cleaning" /\ q.thread = ses[s].thread
        BY <2>2, <4>1, GoesOn
      <4> QED BY <3>1, <4>2 DEF Undeploying, Spare, Past
    <3>5. CASE ~BroadcastFails(s)
      <4>1. \/ q = [ses[s] EXCEPT !.gm = FALSE, !.at = "leaving"]
            \/ q = [ses[s] EXCEPT !.at = "closing"]
            \/ \E told \in BOOLEAN :
                 q = [ses[s] EXCEPT !.at = "ended", !.siggen = ses[s].siggen /\ ~told]
        BY <2>2, <3>3, <3>5 DEF Clean, Leave, Close, Goes
      <4>2. q.at \in Past /\ q.thread = ses[s].thread
        BY <4>1 DEF Past, SessionRecord
      <4> QED BY <3>1, <4>2 DEF Undeploying, Spare
    <3> QED BY <3>4, <3>5
  <2> QED BY <2>1, <2>3, <2>4
<1>3. CASE RestThread
  BY <1>3, <1>b DEF RestThread
<1>4. CASE Shutdown
  <2>1. /\ ses' = [s \in Session |-> Cancelled(ses[s])] /\ rest' = rest
    BY <1>4 DEF Shutdown
  <2>2. ASSUME NEW t \in Session, Undeploying(ses[t]) PROVE Undeploying(Cancelled(ses[t]))
    BY <2>2, CancelledKeeps DEF Undeploying
  <2> QED BY <2>1, <2>2
<1>5. CASE Exit \/ Crash
  BY <1>5 DEF Exit, Crash, Gone
<1>6. CASE Restart \/ Outside
  <2>1. UNCHANGED <<ses, rest>>
    BY <1>6 DEF Restart, Outside, SoundEnds, PipeWireRestart, OperatorMode
  <2> QED BY <2>1, <1>b
<1>7. CASE UNCHANGED sessionVars
  BY <1>7, <1>b DEF sessionVars
<1> QED BY <1>1, <1>2, <1>3, <1>4, <1>5, <1>6, <1>7
        DEF SessionNext, Coroutine, Inside, Crossing, Process

(* A deployment asked for over HTTP and that of the session itself never   *)
(* write the filters and the configuration at the same time.               *)
THEOREM OneDeploymentHolds == SessionSpec => []OneDeployment
<1>1. SessionInit => Deployments
  BY DEF SessionInit, Deployments
<1>2. (SessionTypeOK /\ Courses) /\ Deployments /\ [SessionNext]_sessionVars => Deployments'
  BY DeploymentsStep
<1>3. Deployments => OneDeployment
  BY DEF Deployments, OneDeployment, Deploying
<1> QED BY Controlled, <1>1, <1>2, <1>3, PTL DEF SessionSpec

--------------------------------------------------------------------------------
(* The ramp. *)

(* After a burst of the ramp or of the verification: the level was played. *)
Sounded(c, ceiling) ==
  /\ c \in Calibration /\ c.at \in {"ramp", "verify"}
  /\ c.level <= ceiling /\ c.played = Most(c.level, LoopbackFloor)

(* What calibrate_channel makes of it keeps the promises of the ramp. *)
LEMMA JudgedRamp ==
  ASSUME NEW ceiling \in Int, NEW c, Sounded(c, ceiling), NEW heard \in Heard
  PROVE  /\ Ramp(Again(c), ceiling) /\ Again(c).played = c.played
         /\ Ramp(AfterVerify(c), ceiling) /\ AfterVerify(c).played = c.played
         /\ c.at = "ramp" => /\ Ramp(AfterBurst(c, ceiling, heard), ceiling)
                            /\ AfterBurst(c, ceiling, heard).played = c.played
<1> USE CalibrationAssumption DEF CalibrationAssumption
<1>1. /\ c \in Calibration /\ c.level \in Int /\ c.spl \in Int /\ c.played \in Int
      /\ c.at \in {"ramp", "verify"} /\ c.level <= ceiling
      /\ c.played = Most(c.level, LoopbackFloor)
  BY DEF Sounded, Calibration
<1>2. ASSUME NEW d, d.at = "failed", d.played = c.played
      PROVE  Ramp(d, ceiling) /\ d.played = c.played
  BY <1>2 DEF Ramp, Calibrating
<1>3. Gives(c, "failed").at = "failed" /\ Gives(c, "failed").played = c.played
  BY <1>1 DEF Gives, Calibration
<1>4. c.spl <= Target + Tolerance =>
        Ramp(Gives(c, "passed"), ceiling) /\ Gives(c, "passed").played = c.played
  BY <1>1 DEF Gives, Calibration, Ramp, Calibrating
<1>5. /\ BackOff(c).at = "verify" /\ BackOff(c).level = c.level - FineStep
      /\ BackOff(c).played = c.played
  BY <1>1 DEF BackOff, Calibration
<1>6. ASSUME NEW d, d.at = "verify", d.level = c.level - FineStep, d.played = c.played
      PROVE  Ramp(d, ceiling) /\ d.played = c.played
  BY <1>1, <1>6 DEF Ramp, Most, Calibrating
<1>7. ASSUME NEW d, d.at = c.at, d.level = c.level, d.played = c.played
      PROVE  Ramp(d, ceiling) /\ d.played = c.played
  BY <1>1, <1>7 DEF Ramp, Most, Calibrating
<1>8. Ramp(Again(c), ceiling) /\ Again(c).played = c.played
  <2> DEFINE d == [c EXCEPT !.xruns = @ + 1]
  <2>1. d.at = c.at /\ d.level = c.level /\ d.played = c.played
    BY <1>1 DEF Calibration
  <2> HIDE DEF d
  <2>2. Again(c) = d \/ Again(c) = Gives(c, "failed")
    BY DEF Again, d
  <2> QED BY <1>2, <1>3, <1>7, <2>1, <2>2
<1>9. Ramp(AfterVerify(c), ceiling) /\ AfterVerify(c).played = c.played
  <2> DEFINE d == [BackOff(c) EXCEPT !.tries = @ + 1]
  <2>1. d.at = "verify" /\ d.level = c.level - FineStep /\ d.played = c.played
    BY <1>1, <1>5 DEF BackOff, Calibration
  <2> HIDE DEF d
  <2>2. \/ AfterVerify(c) = Gives(c, "passed") /\ c.spl <= Target + Tolerance
        \/ AfterVerify(c) = Gives(c, "failed")
        \/ AfterVerify(c) = d
    BY <1>1 DEF AfterVerify, d
  <2> QED BY <1>2, <1>3, <1>4, <1>6, <2>1, <2>2
<1>10. c.at = "ramp" => Ramp(StepUp(c, ceiling), ceiling) /\ StepUp(c, ceiling).played = c.played
  <2>1. StepSize(c.spl) \in Int /\ StepSize(c.spl) <= MaxStep
    BY <1>1 DEF StepSize, Least
  <2> DEFINE d == [c EXCEPT !.level = Least(@ + StepSize(c.spl), ceiling), !.step = @ + 1]
  <2>2. d.at = c.at /\ d.played = c.played /\ d.level = Least(c.level + StepSize(c.spl), ceiling)
    BY <1>1 DEF Calibration
  <2> HIDE DEF d
  <2>3. StepUp(c, ceiling) = d \/ StepUp(c, ceiling) = Gives(c, "failed")
    BY DEF StepUp, d
  <2>4. c.at = "ramp" => Ramp(d, ceiling)
    BY <1>1, <2>1, <2>2 DEF Ramp, Most, Least, Calibrating
  <2> QED BY <1>2, <1>3, <2>2, <2>3, <2>4
<1>11. c.at = "ramp" => /\ Ramp(AfterBurst(c, ceiling, heard), ceiling)
                        /\ AfterBurst(c, ceiling, heard).played = c.played
  <2>1. Ramp(BackOff(c), ceiling) /\ BackOff(c).played = c.played
    BY <1>5, <1>6
  <2> DEFINE d == AfterBurst(c, ceiling, heard)
  <2>2. \/ d = Gives(c, "passed") /\ c.spl <= Target + Tolerance
        \/ d \in {Gives(c, "failed"), BackOff(c), StepUp(c, ceiling)}
    BY <1>1 DEF AfterBurst, AtTarget
  <2> HIDE DEF d
  <2>3. c.at = "ramp" => Ramp(d, ceiling) /\ d.played = c.played
    BY <1>2, <1>3, <1>4, <1>10, <2>1, <2>2
  <2> QED BY <2>3 DEF d
<1> QED BY <1>8, <1>9, <1>11

(* One burst keeps the promises, and is no louder than the last by more    *)
(* than a step.                                                            *)
LEMMA BurstRamp ==
  ASSUME NEW c \in Calibration, NEW ceiling \in Int, NEW abort \in BOOLEAN, NEW heard \in Heard,
         Ramp(c, ceiling), Calibrating(c)
  PROVE  LET d == CalibrationStep(c, ceiling, abort, heard) IN
         Ramp(d, ceiling) /\ d.played <= c.played + MaxStep
<1> USE CalibrationAssumption DEF CalibrationAssumption
<1>1. /\ c.level \in Int /\ c.played \in Int /\ c.at \in {"ambient", "ramp", "verify"}
      /\ Most(c.level, LoopbackFloor) <= c.played + MaxStep
      /\ c.at = "ambient" => c.level = StartLevel
      /\ c.at = "verify" => c.level <= ceiling
      /\ heard.spl \in Int
  BY DEF Calibration, Ramp, Calibrating, Heard
<1>2. CASE c.at = "ambient"
  <2> DEFINE d == AfterAmbient(Play(c, LoopbackFloor), heard)
  <2>1. d.at \in {"ramp", "failed"} /\ d.level = StartLevel /\ d.played = LoopbackFloor
    BY <1>1, <1>2 DEF AfterAmbient, Gives, Play, Most, Calibration
  <2>2. CalibrationStep(c, ceiling, abort, heard) = d
    BY <1>2 DEF CalibrationStep, Halted
  <2> HIDE DEF d
  <2>3. Ramp(d, ceiling) /\ d.played <= c.played + MaxStep
    BY <1>1, <2>1 DEF Ramp, Most, Calibrating
  <2> QED BY <2>2, <2>3
<1>3. CASE Halted(c, abort)
  <2> DEFINE d == Gives(c, "failed")
  <2>1. d.at = "failed" /\ d.level = c.level /\ d.played = c.played
    BY <1>1 DEF Gives, Calibration
  <2>2. CalibrationStep(c, ceiling, abort, heard) = d
    BY <1>3 DEF CalibrationStep, Halted
  <2> HIDE DEF d
  <2>3. Ramp(d, ceiling) /\ d.played <= c.played + MaxStep
    BY <1>1, <2>1 DEF Ramp, Most, Calibrating
  <2> QED BY <2>2, <2>3
<1>4. CASE c.at # "ambient" /\ ~Halted(c, abort)
  <2> DEFINE at     == [c EXCEPT !.level = IF c.at = "ramp" THEN Least(@, ceiling) ELSE @]
             played == Play(at, at.level)
             whole  == [played EXCEPT !.spl = heard.spl, !.xruns = 0]
  <2>1. at \in Calibration /\ at.level <= ceiling /\ at.level <= c.level /\ at.at = c.at
        /\ at.played = c.played /\ at.level \in Int
    BY <1>1, <1>4 DEF Calibration, Least
  <2>2. Sounded(played, ceiling) /\ played.at = c.at /\ played.played <= c.played + MaxStep
    <3> HIDE DEF at
    <3>1. played \in Calibration
      BY <2>1 DEF Play, Calibration, Most
    <3>2. /\ played.at = at.at /\ played.level = at.level
          /\ played.played = Most(at.level, LoopbackFloor)
      BY <2>1 DEF Play, Calibration
    <3>3. Most(at.level, LoopbackFloor) <= c.played + MaxStep
      BY <1>1, <2>1 DEF Most
    <3> QED BY <1>1, <1>4, <2>1, <3>1, <3>2, <3>3 DEF Sounded
  <2>3. Sounded(whole, ceiling) /\ whole.at = c.at /\ whole.played = played.played
    <3> HIDE DEF played
    <3>1. whole \in Calibration
      <4> DEFINE e == [played EXCEPT !.spl = heard.spl]
      <4>1. e \in Calibration
        BY <1>1, <2>2 DEF Calibration, Sounded
      <4>2. whole = [e EXCEPT !.xruns = 0]
        OBVIOUS
      <4>3. ASSUME NEW d \in Calibration PROVE [d EXCEPT !.xruns = 0] \in Calibration
        BY DEF Calibration
      <4> HIDE DEF e
      <4> QED BY <4>1, <4>2, <4>3
    <3>2. whole.at = played.at /\ whole.level = played.level /\ whole.played = played.played
      BY <2>2 DEF Calibration, Sounded
    <3> QED BY <2>2, <3>1, <3>2 DEF Sounded
  <2>4. BurstStep(c, ceiling, heard) =
          IF heard.xrun THEN Again(played)
          ELSE IF c.at = "ramp" THEN AfterBurst(whole, ceiling, heard) ELSE AfterVerify(whole)
    BY Zenon DEF BurstStep
  <2>5. CalibrationStep(c, ceiling, abort, heard) = BurstStep(c, ceiling, heard)
    BY <1>4, Zenon DEF CalibrationStep
  <2>6. played.played \in Int /\ whole.played \in Int
    BY <2>2, <2>3 DEF Sounded, Calibration
  <2> HIDE DEF at, played, whole
  <2> QED BY <2>2, <2>3, <2>4, <2>5, <2>6, JudgedRamp
<1> QED BY <1>2, <1>3, <1>4

(* What the ramp of a session owes. *)
Gradual(r) ==
  /\ Ramp(r.cal, Ceiling[(r.done % Channels) + 1])
  /\ r.thread = "calibrate" => Calibrating(r.cal)

Climbs(r, q) == Gradual(q) /\ (q.cal = Begun \/ q.cal.played <= r.cal.played + MaxStep)

Level(a) == a.cal = Begun /\ a.thread # "calibrate"

LEMMA BegunClimbs ==
  ASSUME NEW r, NEW q \in SessionRecord, Level(q)
  PROVE  Climbs(r, q)
<1>1. ASSUME NEW ceiling PROVE Ramp(Begun, ceiling)
  BY CalibrationAssumption DEF CalibrationAssumption, Ramp, Begun, Most, Calibrating
<1> QED BY <1>1 DEF Climbs, Gradual, Level

LEMMA StaysClimbs ==
  ASSUME NEW r \in SessionRecord, Gradual(r), NEW q, q.cal = r.cal, q.done = r.done,
         q.thread = "calibrate" => r.thread = "calibrate"
  PROVE  Climbs(r, q)
<1>1. r.cal.played \in Int /\ MaxStep \in Nat
  BY CalibrationAssumption DEF CalibrationAssumption, SessionRecord, Calibration
<1> QED BY <1>1 DEF Climbs, Gradual

LEMMA LevelMoves ==
  ASSUME NEW a \in SessionRecord, Level(a)
  PROVE  /\ Level(Erring(a)) /\ Level(Aborted(a)) /\ Level([a EXCEPT !.thread = "idle"])
         /\ \A state, at : Level([a EXCEPT !.state = state, !.at = at])
         /\ \A at : Level([a EXCEPT !.at = at])
         /\ \A at, done : Level([a EXCEPT !.at = at, !.done = done])
         /\ \A at, filters : Level([a EXCEPT !.filters = filters, !.at = at])
         /\ \A state, at : Level(Into(a, state, at))
         /\ \A at, thread : thread # "calibrate" => Level(Started(a, at, thread))
         /\ \A state, at, thread : thread # "calibrate" => Level(IntoThread(a, state, at, thread))
<1>1. Level(Erring(a)) /\ Level(Aborted(a)) /\ Level([a EXCEPT !.thread = "idle"])
  BY DEF Level, Erring, Aborted, SessionRecord
<1>2. ASSUME NEW state, NEW at, NEW done, NEW filters
      PROVE  /\ Level([a EXCEPT !.state = state, !.at = at]) /\ Level([a EXCEPT !.at = at])
             /\ Level([a EXCEPT !.at = at, !.done = done])
             /\ Level([a EXCEPT !.filters = filters, !.at = at])
  BY DEF Level, SessionRecord
<1>3. ASSUME NEW state, NEW at PROVE Level(Into(a, state, at))
  BY <1>1, <1>2 DEF Into
<1>4. ASSUME NEW at, NEW thread, thread # "calibrate" PROVE Level(Started(a, at, thread))
  <2>1. Level([a EXCEPT !.at = at, !.thread = thread])
    BY <1>4 DEF Level, SessionRecord
  <2> QED BY <1>1, <2>1 DEF Started
<1>5. ASSUME NEW state, NEW at, NEW thread, thread # "calibrate"
      PROVE  Level(IntoThread(a, state, at, thread))
  <2> DEFINE b == Into(a, state, at)
  <2>1. b.cal = Begun /\ Level(b)
    BY <1>3 DEF Level
  <2>2. b = Aborted(a) \/ b = Erring(a) \/ b = [a EXCEPT !.state = state, !.at = at]
    BY DEF Into
  <2>3. [b EXCEPT !.thread = thread].cal = Begun /\ [b EXCEPT !.thread = thread].thread = thread
    BY <2>1, <2>2 DEF Erring, Aborted, SessionRecord
  <2> HIDE DEF b
  <2>4. IntoThread(a, state, at, thread) = b \/ IntoThread(a, state, at, thread) = [b EXCEPT !.thread = thread]
    BY DEF IntoThread, b
  <2> QED BY <1>5, <2>1, <2>3, <2>4 DEF Level
<1> QED BY <1>1, <1>2, <1>3, <1>4, <1>5

LEMMA NewLevel ==
  /\ Level(New) /\ Level([New EXCEPT !.at = "evicting"]) /\ Level([New EXCEPT !.at = "ended"])
  /\ Level([New EXCEPT !.at = "entering", !.siggen = TRUE])
<1> HIDE DEF Begun
<1> QED BY DEF Level, New

(* What the coroutine does next begins with another ramp, or without one. *)
LEMMA PlayBegins ==
  ASSUME SessionTypeOK, Courses, NEW s \in Session, PlayStep(s) \/ FilterStep(s)
  PROVE  Level(ses'[s])
<1> DEFINE r == ses[s]
<1>0. ses \in [Session -> SessionRecord] /\ r \in SessionRecord /\ Course(r)
  BY DEF SessionTypeOK, Courses
<1>1. r.at \notin Past \union {"calibrating"} => Level(r)
  BY <1>0 DEF Course, Ramping, Level
<1>2. ASSUME NEW q, Goes(s, q) PROVE ses'[s] = q
  BY <1>0, <1>2 DEF Goes
<1>i. [r EXCEPT !.thread = "idle"] \in SessionRecord
  BY <1>0, RecordMoves
<1>a. ASSUME NEW n \in Nat, Level(r) PROVE [[r EXCEPT !.thread = "idle"] EXCEPT !.done = n] \in SessionRecord
                                      /\ Level([[r EXCEPT !.thread = "idle"] EXCEPT !.done = n])
  <2>1. Level([r EXCEPT !.thread = "idle"])
    BY <1>0, <1>a, LevelMoves
  <2>2. Level([[r EXCEPT !.thread = "idle"] EXCEPT !.done = n])
    BY <1>i, <2>1 DEF Level, SessionRecord
  <2> QED BY <1>i, <2>2, RecordMoves
<1>4. CASE Calibrate(s)
  <2> DEFINE a == [r EXCEPT !.cal = Begun]
  <2>1. Goes(s, Started(a, "calibrating", "check")) /\ r.at = "channel"
    BY <1>4 DEF Calibrate, At
  <2>2. a \in SessionRecord /\ Level(a)
    BY <1>0, <1>1, <2>1, RecordMoves DEF SessionRecord, Past, Level
  <2> HIDE DEF a, r
  <2>9. Level(Started(a, "calibrating", "check"))
    BY <2>2, LevelMoves
  <2> QED BY <1>2, <2>9, <2>1
<1>5. CASE Calibrated(s)
  <2> DEFINE a == [r EXCEPT !.thread = "idle", !.cal = Begun]
             last == r.done + 1 = Channels
  <2>1. \/ Goes(s, [a EXCEPT !.done = IF last THEN 0 ELSE @ + 1,
                             !.at = IF last THEN "measure" ELSE "channel"])
        \/ Goes(s, Aborted(a)) \/ Goes(s, Erring(a))
    BY <1>5, Zenon DEF Calibrated
  <2>2. a \in SessionRecord /\ Level(a)
    <3>1. a = [[r EXCEPT !.thread = "idle"] EXCEPT !.cal = Begun]
      BY <1>0
    <3>2. a \in SessionRecord
      BY <1>i, <3>1, RecordMoves
    <3> QED BY <1>0, <3>2 DEF SessionRecord, Level
  <2> HIDE DEF a, r
  <2>3. Level([a EXCEPT !.done = IF last THEN 0 ELSE @ + 1,
                        !.at = IF last THEN "measure" ELSE "channel"])
    BY <2>2 DEF Level, SessionRecord
  <2>9. Level(Aborted(a)) /\ Level(Erring(a))
    BY <2>2, LevelMoves
  <2> QED BY <1>2, <2>9, <2>1, <2>3
<1>6. CASE Measure(s)
  <2>1. Goes(s, [r EXCEPT !.state = "measuring", !.at = "sweep"]) \/ Goes(s, Erring(r))
    BY <1>6 DEF Measure
  <2>2. Level(r)
    BY <1>1, <1>6 DEF Measure, At, Past
  <2> HIDE DEF r
  <2>9. Level(Erring(r)) /\ Level([r EXCEPT !.state = "measuring", !.at = "sweep"])
    BY <1>0, <2>2, LevelMoves
  <2> QED BY <1>2, <2>9, <2>1
<1>7. CASE Sweep(s)
  <2>1. Goes(s, Started(r, "sweeping", "warm")) /\ Level(r)
    BY <1>1, <1>7 DEF Sweep, At, Past
  <2> HIDE DEF r
  <2>9. Level(Started(r, "sweeping", "warm"))
    BY <1>0, <2>1, LevelMoves
  <2> QED BY <1>2, <2>9, <2>1
<1>8. CASE Swept(s)
  <2> DEFINE a == [r EXCEPT !.thread = "idle"]
  <2>1. \/ Goes(s, Erring(a))
        \/ Goes(s, [a EXCEPT !.at = "sweep", !.done = @ + 1])
        \/ Goes(s, IntoThread([a EXCEPT !.done = 0], "filter_gen", "generating", "generate"))
    BY <1>8 DEF Swept
  <2>2. Level(r)
    BY <1>1, <1>8 DEF Swept, At, Past
  <2>3. a \in SessionRecord /\ Level(a) /\ [a EXCEPT !.done = 0] \in SessionRecord
        /\ Level([a EXCEPT !.done = 0])
    BY <1>0, <1>a, <1>i, <2>2, LevelMoves
  <2> HIDE DEF a, r
  <2>9. /\ Level(Erring(a)) /\ Level([a EXCEPT !.at = "sweep", !.done = @ + 1])
        /\ Level(IntoThread([a EXCEPT !.done = 0], "filter_gen", "generating", "generate"))
    BY <2>3, LevelMoves
  <2> QED BY <1>2, <2>9, <2>1
<1>9. CASE SweepAborted(s)
  <2>1. Goes(s, [r EXCEPT !.at = "interrupting"]) /\ Level(r)
    BY <1>1, <1>9 DEF SweepAborted, Sweeping, Past
  <2> HIDE DEF r
  <2> QED BY <1>0, <1>2, LevelMoves, <2>1
<1>10. CASE Interrupted(s)
  <2> DEFINE a == Forget(r)
  <2>1. Goes(s, [a EXCEPT !.at = "verify", !.done = @ + 1]) \/ Goes(s, Aborted(a))
    BY <1>10 DEF Interrupted
  <2>2. Level(r)
    BY <1>1, <1>10 DEF Interrupted, At, Past
  <2>3. a \in SessionRecord /\ Level(a)
    BY <1>0, <1>i, <2>2, LevelMoves DEF Forget
  <2> HIDE DEF a, r
  <2>9. Level(Aborted(a)) /\ Level([a EXCEPT !.at = "verify", !.done = @ + 1])
    BY <2>3, LevelMoves
  <2> QED BY <1>2, <2>9, <2>1
<1>11. CASE Verify(s)
  <2>1. \/ Goes(s, [r EXCEPT !.state = "complete", !.at = "completing"])
        \/ Goes(s, Started(r, "verifying", "warm"))
    BY <1>11 DEF Verify
  <2>2. Level(r)
    BY <1>1, <1>11 DEF Verify, At, Past
  <2> HIDE DEF r
  <2>9. /\ Level([r EXCEPT !.state = "complete", !.at = "completing"])
        /\ Level(Started(r, "verifying", "warm"))
    BY <1>0, <2>2, LevelMoves
  <2> QED BY <1>2, <2>9, <2>1
<1>12. CASE Verified(s)
  <2> DEFINE a == [r EXCEPT !.thread = "idle"]
  <2>1. Goes(s, [a EXCEPT !.at = "verify", !.done = @ + 1])
    BY <1>12 DEF Verified
  <2>2. Level(r)
    BY <1>1, <1>12 DEF Verified, At, Past
  <2>3. a \in SessionRecord /\ Level(a)
    BY <1>0, <1>i, <2>2, LevelMoves
  <2> HIDE DEF a, r
  <2>9. Level([a EXCEPT !.at = "verify", !.done = @ + 1])
    BY <2>3, LevelMoves
  <2> QED BY <1>2, <2>9, <2>1
<1>13. CASE Generated(s)
  <2> DEFINE a == [r EXCEPT !.thread = "idle"]
  <2>1. \/ Goes(s, [a EXCEPT !.filters = r.thread, !.at = "generated"])
        \/ Goes(s, Aborted(a)) \/ Goes(s, Erring(a))
    BY <1>13 DEF Generated
  <2>2. Level(r)
    BY <1>1, <1>13 DEF Generated, At, Past
  <2>3. a \in SessionRecord /\ Level(a)
    BY <1>0, <1>i, <2>2, LevelMoves
  <2> HIDE DEF a, r
  <2>9. /\ Level([a EXCEPT !.filters = r.thread, !.at = "generated"])
        /\ Level(Aborted(a)) /\ Level(Erring(a))
    BY <2>3, LevelMoves
  <2> QED BY <1>2, <2>9, <2>1
<1>14. CASE Deploy(s)
  <2>1. Goes(s, Erring(r)) \/ Goes(s, IntoThread(r, "deploy", "deploying", "wavs"))
    BY <1>14 DEF Deploy
  <2>2. Level(r)
    BY <1>1, <1>14 DEF Deploy, At, Past
  <2> HIDE DEF r
  <2>9. Level(Erring(r)) /\ Level(IntoThread(r, "deploy", "deploying", "wavs"))
    BY <1>0, <2>2, LevelMoves
  <2> QED BY <1>2, <2>9, <2>1
<1>15. CASE Deployed(s)
  <2> DEFINE a == [[r EXCEPT !.thread = "idle"] EXCEPT !.done = 0]
  <2>1. [r EXCEPT !.thread = "idle", !.done = 0] = a
    BY <1>0
  <2>2. Goes(s, Aborted(a)) \/ Goes(s, Erring(a)) \/ Goes(s, Into(a, "verify", "verify"))
    BY <1>15, <2>1 DEF Deployed
  <2>3. Level(r)
    BY <1>1, <1>15 DEF Deployed, At, Past
  <2>4. a \in SessionRecord /\ Level(a)
    BY <1>a, <2>3
  <2> HIDE DEF a, r
  <2>9. Level(Aborted(a)) /\ Level(Erring(a)) /\ Level(Into(a, "verify", "verify"))
    BY <2>4, LevelMoves
  <2> QED BY <1>2, <2>9, <2>2
<1>16. CASE Complete(s)
  <2>1. Goes(s, [r EXCEPT !.at = "cleaning"])
    BY <1>16 DEF Complete
  <2>2. Level(r)
    BY <1>1, <1>16 DEF Complete, At, Past
  <2> HIDE DEF r
  <2>9. Level([r EXCEPT !.at = "cleaning"])
    BY <1>0, <2>2, LevelMoves
  <2> QED BY <1>2, <2>9, <2>1
<1> QED BY <1>4, <1>5, <1>6, <1>7, <1>8, <1>9, <1>10, <1>11, <1>12, <1>13, <1>14, <1>15, <1>16
        DEF PlayStep, FilterStep

LEMMA RampsStep ==
  ASSUME SessionTypeOK, Courses, \A s \in Session : Gradual(ses[s]), [SessionNext]_sessionVars,
         ~(Exit \/ Crash)
  PROVE  \A s \in Session : Climbs(ses[s], ses'[s])
<1>0. /\ ses \in [Session -> SessionRecord] /\ \A s \in Session : Gradual(ses[s])
      /\ ses' \in [Session -> SessionRecord]
  BY ControlStep DEF SessionTypeOK
<1>s. ASSUME NEW s \in Session, ses'[s] = ses[s] PROVE Climbs(ses[s], ses'[s])
  BY <1>0, <1>s, StaysClimbs
<1>1. ASSUME NEW s \in Session, NEW q, Goes(s, q), Climbs(ses[s], q)
      PROVE  \A t \in Session : Climbs(ses[t], ses'[t])
  <2>1. ses'[s] = q /\ \A t \in Session \ {s} : ses'[t] = ses[t]
    BY <1>0, <1>1 DEF Goes
  <2> QED BY <1>1, <1>s, <2>1
<1>2. ASSUME NEW s \in Session, NEW q, Goes(s, q), q.cal = ses[s].cal, q.done = ses[s].done,
             q.thread = "calibrate" => ses[s].thread = "calibrate"
      PROVE  \A t \in Session : Climbs(ses[t], ses'[t])
  <2>1. Climbs(ses[s], q)
    BY <1>0, <1>2, StaysClimbs
  <2> QED BY <1>1, <1>2, <2>1
<1>3. ASSUME NEW s \in Session, NEW to, to # "calibrate", Goes(s, [ses[s] EXCEPT !.thread = to])
      PROVE  \A t \in Session : Climbs(ses[t], ses'[t])
  <2> DEFINE q == [ses[s] EXCEPT !.thread = to]
  <2>1. q.cal = ses[s].cal /\ q.done = ses[s].done /\ q.thread = to
    BY <1>0 DEF SessionRecord
  <2> HIDE DEF q
  <2>2. Goes(s, q)
    BY <1>3 DEF q
  <2> QED BY <1>2, <1>3, <2>1, <2>2
<1>4. ASSUME NEW s \in Session, Inside(s) PROVE \A t \in Session : Climbs(ses[t], ses'[t])
  <2> DEFINE r == ses[s]
  <2>0. r \in SessionRecord /\ Gradual(r)
    BY <1>0
  <2>1. CASE PlayStep(s) \/ FilterStep(s)
    <3>1. PICK q \in SessionRecord : Goes(s, q)
      BY <1>4, InsideStep
    <3>2. Level(ses'[s]) /\ ses'[s] = q
      BY <2>1, <3>1, <1>0, PlayBegins DEF Goes
    <3>3. Climbs(r, q)
      BY <3>2, BegunClimbs
    <3> QED BY <1>1, <3>1, <3>3
  <2>2. CASE CheckMode(s)
    <3>1. PICK to \in {"raised", "calibrate"} :
            /\ Goes(s, [r EXCEPT !.thread = to])
            /\ to = "calibrate" => Calibrating(r.cal)
      BY <2>2 DEF CheckMode
    <3> DEFINE q == [r EXCEPT !.thread = to]
    <3>2. q.cal = r.cal /\ q.done = r.done /\ q.thread = to
      BY <2>0 DEF SessionRecord
    <3>3. r.cal.played \in Int /\ MaxStep \in Nat
      BY <2>0, CalibrationAssumption DEF CalibrationAssumption, SessionRecord, Calibration
    <3> HIDE DEF q
    <3>4. Climbs(r, q)
      BY <2>0, <3>1, <3>2, <3>3 DEF Climbs, Gradual
    <3>5. Goes(s, q)
      BY <3>1 DEF q
    <3> QED BY <1>1, <3>4, <3>5
  <2>3. CASE Burst(s)
    <3>1. CASE Goes(s, [r EXCEPT !.thread = "raised"])
      BY <1>3, <3>1
    <3>2. ASSUME NEW heard \in Heard,
                 LET c == CalibrationStep(r.cal, Ceiling[Channel(s)], r.abort, heard) IN
                 Goes(s, [r EXCEPT !.cal = c, !.thread = IF Calibrating(c) THEN @ ELSE "done"])
          PROVE  \A t \in Session : Climbs(ses[t], ses'[t])
      <4> DEFINE c == CalibrationStep(r.cal, Ceiling[Channel(s)], r.abort, heard)
                 q == [r EXCEPT !.cal = c, !.thread = IF Calibrating(c) THEN @ ELSE "done"]
      <4>1. /\ q.cal = c /\ q.done = r.done /\ (q.thread = "calibrate" => Calibrating(c))
        BY <2>0, <2>3 DEF SessionRecord
      <4>2. /\ r.cal \in Calibration /\ r.abort \in BOOLEAN /\ Ceiling[Channel(s)] \in Int
            /\ Channel(s) = (r.done % Channels) + 1
        BY <2>0, CeilingType, SessionAssumption DEF SessionAssumption, SessionRecord, Channel
      <4>3. Ramp(r.cal, Ceiling[Channel(s)]) /\ Calibrating(r.cal)
        BY <2>0, <2>3, <4>2 DEF Gradual, Burst
      <4>4. Ramp(c, Ceiling[Channel(s)]) /\ c.played <= r.cal.played + MaxStep
        BY <4>2, <4>3, BurstRamp
      <4>5. Goes(s, q)
        BY <3>2
      <4> HIDE DEF c, q
      <4>6. Climbs(r, q)
        BY <4>1, <4>2, <4>4 DEF Climbs, Gradual
      <4> QED BY <1>1, <4>5, <4>6
    <3> QED BY <2>3, <3>1, <3>2 DEF Burst
  <2>4. CASE WarmUp(s) \/ PlaySweep(s) \/ Recorded(s) \/ GenerateThread(s) \/ DeployThread(s)
    <3>1. PICK to \in {"roll", "playing", "done", "raised", "aborted", "good", "bad", "conf"} :
            Goes(s, [r EXCEPT !.thread = to])
      BY <2>4 DEF WarmUp, PlaySweep, Plays, Recorded, GenerateThread, DeployThread
    <3> QED BY <1>3, <3>1
  <2>5. CASE WatchdogTimeout(s) \/ RequestAbort(s) \/ RestDeploy(s)
    <3>1. PICK q : Goes(s, q) /\ q \in {[r EXCEPT !.abort = TRUE], [r EXCEPT !.state = "deploy"]}
      BY <2>5 DEF WatchdogTimeout, RequestAbort, RestDeploy
    <3>2. q.cal = r.cal /\ q.done = r.done /\ q.thread = r.thread
      BY <2>0, <3>1 DEF SessionRecord
    <3> QED BY <1>2, <3>1, <3>2
  <2> QED BY <1>4, <2>1, <2>2, <2>3, <2>4, <2>5 DEF Inside, ThreadStep
<1>5. ASSUME NEW s \in Session, Crossing(s) PROVE \A t \in Session : Climbs(ses[t], ses'[t])
  <2> DEFINE r == ses[s]
  <2>0. r \in SessionRecord /\ Gradual(r)
    BY <1>0
  <2>1. CASE Start(s) \/ Claim(s)
    <3>1. PICK q : /\ Goes(s, q)
                   /\ q \in {New, [New EXCEPT !.at = "evicting"],
                             [New EXCEPT !.at = "entering", !.siggen = TRUE]}
      BY <2>1 DEF Start, Claim
    <3>2. q \in SessionRecord
      BY <3>1, NewKeeps
    <3>3. Level(q)
      BY <3>1, NewLevel
    <3>4. Climbs(r, q)
      BY <3>2, <3>3, BegunClimbs
    <3> QED BY <1>1, <3>1, <3>4
  <2>2. CASE Enter(s) \/ EnterStep(s) \/ BroadcastFails(s) \/ Clean(s) \/ Leave(s) \/ Close(s)
    <3>1. \E q : Goes(s, q) /\ q.cal = r.cal /\ q.done = r.done /\ q.thread = r.thread
      <4> HIDE DEF r
      <4>1. CASE Enter(s)
        <5>0. PICK told \in BOOLEAN : Goes(s, [r EXCEPT !.at = IF told THEN "begun" ELSE "stranded"])
          BY <4>1, Zenon DEF Enter, r
        <5> DEFINE q == [r EXCEPT !.at = IF told THEN "begun" ELSE "stranded"]
        <5>1. Goes(s, q)
          BY <5>0
        <5>2. q.cal = r.cal /\ q.done = r.done /\ q.thread = r.thread
          BY <2>0 DEF SessionRecord
        <5> HIDE DEF q
        <5> QED BY <5>1, <5>2
      <4>2. CASE Begin(s)
        <5> DEFINE q == [r EXCEPT !.state = "setup", !.at = "connecting"]
        <5>1. Goes(s, q)
          BY <4>2, Zenon DEF Begin, r
        <5>2. q.cal = r.cal /\ q.done = r.done /\ q.thread = r.thread
          BY <2>0 DEF SessionRecord
        <5> HIDE DEF q
        <5> QED BY <5>1, <5>2
      <4>3. CASE Connect(s)
        <5>1. PICK ok \in BOOLEAN : Goes(s, [r EXCEPT !.gm = ok, !.state = "gain_cal", !.at = IF ok THEN "querying" ELSE "channel"])
          BY <4>3, Zenon DEF Connect, r
        <5> DEFINE q == [r EXCEPT !.gm = ok, !.state = "gain_cal", !.at = IF ok THEN "querying" ELSE "channel"]
        <5>2. q.cal = r.cal /\ q.done = r.done /\ q.thread = r.thread
          BY <2>0 DEF SessionRecord
        <5>3. Goes(s, q)
          BY <5>1
        <5> HIDE DEF q
        <5> QED BY <5>2, <5>3
      <4>4. CASE Query(s)
        <5>1. PICK ok \in BOOLEAN : Goes(s, [r EXCEPT !.pre = SavedMode(s, ok), !.at = "switching"])
          BY <4>4, Zenon DEF Query, r
        <5> DEFINE q == [r EXCEPT !.pre = SavedMode(s, ok), !.at = "switching"]
        <5>2. q.cal = r.cal /\ q.done = r.done /\ q.thread = r.thread
          BY <2>0 DEF SessionRecord
        <5>3. Goes(s, q)
          BY <5>1
        <5> HIDE DEF q
        <5> QED BY <5>2, <5>3
      <4>5. CASE Switch(s)
        <5>1. PICK ok \in BOOLEAN : Goes(s, [r EXCEPT !.at = IF ok THEN "settling" ELSE "undoing"])
          BY <4>5, Zenon DEF Switch, r
        <5> DEFINE q == [r EXCEPT !.at = IF ok THEN "settling" ELSE "undoing"]
        <5>2. q.cal = r.cal /\ q.done = r.done /\ q.thread = r.thread
          BY <2>0 DEF SessionRecord
        <5>3. Goes(s, q)
          BY <5>1
        <5> HIDE DEF q
        <5> QED BY <5>2, <5>3
      <4>6. CASE Settle(s)
        <5>1. PICK ok \in BOOLEAN : Goes(s, [r EXCEPT !.at = IF ok THEN "channel" ELSE "undoing"])
          BY <4>6, Zenon DEF Settle, r
        <5> DEFINE q == [r EXCEPT !.at = IF ok THEN "channel" ELSE "undoing"]
        <5>2. q.cal = r.cal /\ q.done = r.done /\ q.thread = r.thread
          BY <2>0 DEF SessionRecord
        <5>3. Goes(s, q)
          BY <5>1
        <5> HIDE DEF q
        <5> QED BY <5>2, <5>3
      <4>7. CASE Undo(s)
        <5> DEFINE q == Erring(r)
        <5>1. Goes(s, q)
          BY <4>7, Zenon DEF Undo, r
        <5>2. q.cal = r.cal /\ q.done = r.done /\ q.thread = r.thread
          BY <2>0 DEF SessionRecord, Erring
        <5> HIDE DEF q
        <5> QED BY <5>1, <5>2
      <4>8. CASE Clean(s)
        <5> DEFINE q == [r EXCEPT !.gm = FALSE, !.at = "leaving"]
        <5>1. Goes(s, q)
          BY <4>8, Zenon DEF Clean, r
        <5>2. q.cal = r.cal /\ q.done = r.done /\ q.thread = r.thread
          BY <2>0 DEF SessionRecord
        <5> HIDE DEF q
        <5> QED BY <5>1, <5>2
      <4>9. CASE Leave(s)
        <5> DEFINE q == [r EXCEPT !.at = "closing"]
        <5>1. Goes(s, q)
          BY <4>9, Zenon DEF Leave, r
        <5>2. q.cal = r.cal /\ q.done = r.done /\ q.thread = r.thread
          BY <2>0 DEF SessionRecord
        <5> HIDE DEF q
        <5> QED BY <5>1, <5>2
      <4>10. CASE BroadcastFails(s)
        BY <1>0, <4>10, FailsIs DEF r, Courses
      <4>11. CASE Close(s)
        <5>1. PICK told \in BOOLEAN : Goes(s, [r EXCEPT !.at = "ended", !.siggen = r.siggen /\ ~told])
          BY <4>11, Zenon DEF Close, r
        <5> DEFINE q == [r EXCEPT !.at = "ended", !.siggen = r.siggen /\ ~told]
        <5>2. q.cal = r.cal /\ q.done = r.done /\ q.thread = r.thread
          BY <2>0 DEF SessionRecord
        <5>3. Goes(s, q)
          BY <5>1
        <5> HIDE DEF q
        <5> QED BY <5>2, <5>3
      <4> QED BY <2>2, <4>1, <4>2, <4>3, <4>4, <4>5, <4>6, <4>7, <4>8, <4>9, <4>10, <4>11 DEF EnterStep
    <3> QED BY <1>2, <3>1
  <2> QED BY <1>5, <2>1, <2>2 DEF Crossing
<1>6. CASE Shutdown
  <2>1. ses' = [s \in Session |-> Cancelled(ses[s])]
    BY <1>6 DEF Shutdown
  <2>2. ASSUME NEW s \in Session PROVE Climbs(ses[s], ses'[s])
    <3>1. ses[s] \in SessionRecord /\ Course(ses[s]) /\ Gradual(ses[s]) /\ ses'[s] = Cancelled(ses[s])
      BY <1>0, <2>1 DEF Courses
    <3>2. /\ ses'[s].cal = ses[s].cal /\ ses'[s].done = ses[s].done
          /\ ses'[s].thread = ses[s].thread
      BY <3>1, CancelledKeeps
    <3> QED BY <3>1, <3>2, StaysClimbs
  <2> QED BY <2>2
<1>7. CASE UNCHANGED ses
  BY <1>7, <1>s
<1>8. RestThread \/ Restart \/ Outside \/ UNCHANGED sessionVars => UNCHANGED ses
  BY DEF RestThread, Restart, Outside, SoundEnds, PipeWireRestart, OperatorMode, sessionVars
<1> QED BY <1>4, <1>5, <1>6, <1>7, <1>8 DEF SessionNext, Coroutine, Inside, Crossing, Process

LEMMA RampsKept ==
  ASSUME SessionTypeOK, Courses, Ramps, [SessionNext]_sessionVars
  PROVE  Ramps' /\ \A s \in Session : ses'[s].cal = Begun \/ Climbs(ses[s], ses'[s])
<1>1. Ramps <=> \A s \in Session : Gradual(ses[s])
  BY DEF Ramps, Gradual, Channel
<1>2. Ramps' <=> \A s \in Session : Gradual(ses'[s])
  BY DEF Ramps, Gradual, Channel
<1>3. CASE Exit \/ Crash
  <2>1. \A s \in Session : ses'[s] \in SessionRecord /\ Level(ses'[s])
    <3>1. ses' = [s \in Session |-> IF At(s, "none") THEN New ELSE [New EXCEPT !.at = "ended"]]
      BY <1>3 DEF Exit, Crash, Gone
    <3> QED BY <3>1, NewKeeps, NewLevel
  <2> QED BY <1>2, <2>1, BegunClimbs DEF Climbs, Level
<1>4. CASE ~(Exit \/ Crash)
  BY <1>1, <1>2, <1>4, RampsStep DEF Climbs
<1> QED BY <1>3, <1>4

LEMMA RampsHold == SessionSpec => []Ramps
<1>1. SessionInit => Ramps
  <2>1. SessionInit => \A s \in Session : ses[s] = New
    BY DEF SessionInit
  <2>2. New \in SessionRecord /\ Level(New)
    BY NewKeeps DEF Level, New
  <2> QED BY <2>1, <2>2, BegunClimbs DEF Ramps, Climbs, Gradual, Channel
<1>2. (SessionTypeOK /\ Courses) /\ Ramps /\ [SessionNext]_sessionVars => Ramps'
  BY RampsKept
<1> QED BY Controlled, <1>1, <1>2, PTL DEF SessionSpec

(* A level that is taken over was heard, at no more than the target, and   *)
(* is not above the ceiling of its channel: for every ramp and every room. *)
THEOREM PassedWasHeardHolds == SessionSpec => []PassedWasHeard
<1>1. Ramps => PassedWasHeard
  BY DEF Ramps, Ramp, PassedWasHeard
<1> QED BY RampsHold, <1>1, PTL

(* From one burst of a ramp to the next the level rises by MaxStep at      *)
(* most, with whatever steps and thresholds.                               *)
THEOREM RampIsGradualHolds == SessionSpec => RampIsGradual
<1>1. (SessionTypeOK /\ Courses) /\ Ramps /\ [SessionNext]_sessionVars =>
        [\A s \in Session :
           ses[s].cal # Begun /\ ses'[s].cal # Begun
             => ses'[s].cal.played <= ses[s].cal.played + MaxStep]_sessionVars
  BY RampsKept DEF Climbs
<1> QED BY Controlled, RampsHold, <1>1, PTL DEF SessionSpec, RampIsGradual

--------------------------------------------------------------------------------
(* GraphManager's mode. *)

Modes == OneLive /\ Counted /\ Calm /\ Recovering

(* What these proofs look at in the types. *)
LEMMA ModeTypes ==
  ASSUME SessionTypeOK
  PROVE  /\ ses \in [Session -> SessionRecord] /\ upsets \in Nat
         /\ daemon \in DaemonRecord /\ home \in Mode /\ gmMode \in GmMode
         /\ "measurement" \notin Mode /\ None \notin Mode /\ "standby" \in Mode
         /\ ModeOr(home) = home
         /\ \A mode : mode # "measurement" => ModeOr(mode) # "measurement"
  BY SessionAssumption DEF SessionTypeOK, SessionAssumption, ModeOr

(* A step of one session, that leaves it between the same places. *)
LEMMA InsideModes ==
  ASSUME SessionTypeOK, Courses, Modes, NEW s \in Session, Inside(s)
  PROVE  Modes'
<1>1. PICK q \in SessionRecord : Goes(s, q) /\ Follows(ses[s], q)
  BY InsideStep
<1>2. /\ ses'[s] = q /\ \A t \in Session : t # s => ses'[t] = ses[t]
  BY <1>1, GoesOn, ModeTypes
<1>3. UNCHANGED <<gmMode, home, daemon>> /\ upsets' \in {upsets, upsets + 1} /\ upsets \in Nat
  BY InsideStep, ModeTypes
<1>4. /\ q.pre = ses[s].pre /\ (q.gm <=> ses[s].gm)
      /\ q.at = ses[s].at \/ (ses[s].at \in Switched /\ q.at \in Switched)
      /\ Finish(ses[s]) => Finish(q)
  BY <1>1 DEF Follows
<1>5. \A t \in Session :
        /\ ses'[t].pre = ses[t].pre /\ (ses'[t].gm <=> ses[t].gm)
        /\ ses'[t].at = ses[t].at \/ (ses[t].at \in Switched /\ ses'[t].at \in Switched)
        /\ Finish(ses[t]) => Finish(ses'[t])
  BY <1>2, <1>4
<1>6. \A t \in Session :
        /\ ses[t].at \in {"none", "ended"} => ses'[t].at = ses[t].at
        /\ Live(t)' <=> Live(t)
        /\ Entered(t)' <=> Entered(t)
        /\ \A at \in {"entering", "undoing", "switching", "leaving"} : At(t, at)' <=> At(t, at)
        /\ (ses[t].at \in Switched)' <=> ses[t].at \in Switched
  BY <1>5 DEF Live, Entered, At, Switched
<1>7. OneLive'
  BY <1>3, <1>5, <1>6 DEF Modes, OneLive
<1>8. Counted'
  BY <1>3 DEF Modes, Counted
<1>9. Calm'
  BY <1>3, <1>5, <1>6 DEF Modes, Calm, At
<1>10. Recovering'
  <2>1. Finished => Finished'
    BY <1>5 DEF Finished
  <2>2. \A t \in Session : upsets' <= 1 /\ WillRestore(t) => WillRestore(t)'
    BY <1>3, <1>5, <1>6 DEF WillRestore, At
  <2> QED BY <1>3, <1>5, <2>1, <2>2 DEF Modes, Recovering
<1> QED BY <1>7, <1>8, <1>9, <1>10 DEF Modes

(* While one session is on its way, no other is. *)
LEMMA Alone ==
  ASSUME OneLive, ~daemon.overlap, NEW s \in Session, Live(s)
  PROVE  \A t \in Session : t # s => ~Live(t) /\ ~Entered(t) /\ ~WillRestore(t) /\ ses[t].at \notin Switched
<1>1. \A t \in Session : t # s => ~Live(t)
  BY DEF OneLive
<1> QED BY <1>1 DEF Live, Entered, WillRestore, Switched, At

(* Before a session has entered, the others see nothing of it. *)
LEMMA StartModes ==
  ASSUME SessionTypeOK, Courses, Modes, NEW s \in Session, Start(s) \/ Claim(s)
  PROVE  Modes'
<1>0. /\ ses \in [Session -> SessionRecord] /\ upsets \in Nat /\ daemon \in DaemonRecord
      /\ \A x \in {New, [New EXCEPT !.at = "evicting"],
                   [New EXCEPT !.at = "entering", !.siggen = TRUE]} : x \in SessionRecord
  BY ModeTypes, NewKeeps
<1>1. PICK q \in {New, [New EXCEPT !.at = "evicting"],
                  [New EXCEPT !.at = "entering", !.siggen = TRUE]} : Goes(s, q)
  BY DEF Start, Claim
<1>2. /\ ses'[s] = q /\ \A t \in Session : t # s => ses'[t] = ses[t]
  BY <1>0, <1>1, GoesOn
<1>3. q.at \in {"none", "evicting", "entering"} /\ q.pre = None /\ q.state = "idle"
  <2>1. New.at = "none" /\ New.pre = None /\ New.state = "idle"
    BY DEF New
  <2>2. ASSUME NEW x, x = [New EXCEPT !.at = "evicting"]
        PROVE  x.at = "evicting" /\ x.pre = None /\ x.state = "idle"
    BY <2>2 DEF New
  <2>3. ASSUME NEW x, x = [New EXCEPT !.at = "entering", !.siggen = TRUE]
        PROVE  x.at = "entering" /\ x.pre = None /\ x.state = "idle"
    BY <2>3 DEF New
  <2> QED BY <1>1, <2>1, <2>2, <2>3
<1>4. /\ ses[s].at \in {"none", "evicting"} /\ ses[s].state = "idle" /\ daemon.up # "down"
  <2>1. ses[s].at \in {"none", "evicting"} /\ (At(s, "evicting") \/ daemon.up = "up")
    BY DEF Start, Claim, At
  <2> QED BY <2>1 DEF Courses, Course, States, Modes, OneLive, Over, At
<1>5. /\ UNCHANGED <<gmMode, home>> /\ upsets' \in {upsets, upsets + 1}
      /\ daemon'.up = daemon.up /\ daemon'.mode = daemon.mode /\ daemon'.active = daemon.active
      /\ daemon'.saved = daemon.saved /\ (daemon'.gm <=> daemon.gm)
      /\ daemon.overlap => daemon'.overlap
  <2>1. UNCHANGED <<gmMode, home>> /\ (UNCHANGED upsets \/ Call(FALSE))
    BY DEF Start, Claim
  <2>2. daemon' = daemon \/ daemon' = [daemon EXCEPT !.overlap = @ \/ Entering # {}]
    BY DEF Start, Claim
  <2>3. upsets' \in {upsets, upsets + 1}
    BY <1>0, <2>1 DEF Call
  <2> QED BY <1>0, <2>1, <2>2, <2>3 DEF DaemonRecord
<1>6. q.at = "entering" => daemon.mode = "standby" /\ (~daemon'.overlap => Entering = {})
  <2>1. SUFFICES ASSUME q.at = "entering"
                 PROVE  daemon.mode = "standby" /\ (~daemon'.overlap => Entering = {})
    OBVIOUS
  <2>2. q # New /\ q # [New EXCEPT !.at = "evicting"]
    BY <2>1 DEF New
  <2>3. ses'[s] # New /\ ses'[s] # [New EXCEPT !.at = "evicting"]
    BY <1>2, <2>2
  <2>4. daemon.mode = "standby" /\ daemon' = [daemon EXCEPT !.overlap = @ \/ Entering # {}]
    BY <1>0, <2>3, GoesOn, NewKeeps DEF Start, Claim
  <2> QED BY <1>0, <2>4 DEF DaemonRecord
<1>7. \A t \in Session :
        /\ t # s => Live(t)' <=> Live(t)
        /\ Entered(t)' <=> Entered(t)
        /\ (ses[t].at \in Switched)' <=> ses[t].at \in Switched
        /\ Finish(ses[t]) <=> Finish(ses'[t])
        /\ ses'[t].pre # None => ses'[t].pre = ses[t].pre /\ (ses'[t].gm <=> ses[t].gm)
  BY <1>2, <1>3, <1>4 DEF Live, Entered, At, Switched, Finish
<1>8. OneLive'
  <2>1. SUFFICES ASSUME ~daemon'.overlap
                 PROVE  /\ \A t, u \in Session : Live(t)' /\ Live(u)' => t = u
                        /\ \A t \in Session : At(t, "entering")' => daemon'.mode = "standby"
                        /\ \A t \in Session : Entered(t)' =>
                             daemon'.mode = "measurement" /\ daemon'.active = t
    BY <1>4, <1>5 DEF OneLive
  <2>2. /\ \A t, u \in Session : Live(t) /\ Live(u) => t = u
        /\ \A t \in Session : At(t, "entering") => daemon.mode = "standby"
        /\ \A t \in Session : Entered(t) => daemon.mode = "measurement" /\ daemon.active = t
    BY <1>5, <2>1 DEF Modes, OneLive
  <2>3. Live(s)' => q.at = "entering"
    BY <1>2, <1>3 DEF Live
  <2>4. q.at = "entering" => \A t \in Session : ~Live(t)
    <3>1. q.at = "entering" => \A t \in Session : ~At(t, "entering") /\ ~Entered(t)
      BY <1>6, <2>1, <2>2 DEF Entering
    <3> QED BY <3>1 DEF Entered
  <2>5. \A t, u \in Session : Live(t)' /\ Live(u)' => t = u
    BY <1>7, <2>2, <2>3, <2>4
  <2>6. \A t \in Session : At(t, "entering")' => daemon'.mode = "standby"
    BY <1>2, <1>5, <1>6, <2>2 DEF At
  <2>7. \A t \in Session : Entered(t)' => daemon'.mode = "measurement" /\ daemon'.active = t
    BY <1>5, <1>7, <2>2
  <2> QED BY <2>5, <2>6, <2>7
<1>9. Counted'
  BY <1>0, <1>5 DEF Modes, Counted
<1>10. Calm'
  <2>1. SUFFICES ASSUME upsets' = 0, ~daemon'.overlap
                 PROVE  /\ \A t \in Session :
                             /\ Entered(t)' => daemon'.saved = home'
                             /\ ses'[t].at # "undoing"
                             /\ At(t, "switching")' => ses'[t].pre = home'
                             /\ ses'[t].at \in Switched =>
                                  ses'[t].gm /\ ses'[t].pre = home' /\ gmMode' = "measurement"
                        /\ (\A t \in Session : ses'[t].at \notin Switched) => gmMode' = home'
    BY DEF Calm
  <2>2. upsets = 0 /\ ~daemon.overlap
    BY <1>0, <1>5, <2>1
  <2>3. \A t \in Session : ses'[t] = ses[t] \/ ses'[t].at \in {"none", "evicting", "entering"}
    BY <1>2, <1>3
  <2> QED BY <1>5, <1>7, <2>2, <2>3 DEF Modes, Calm, At, Switched
<1>11. Recovering'
  <2>1. SUFFICES ASSUME upsets' <= 1, ~daemon'.overlap, ~Finished'
                 PROVE  /\ daemon'.saved # "measurement"
                        /\ \A t \in Session : ses'[t].pre # "measurement"
                        /\ gmMode' = "measurement" => \E t \in Session : WillRestore(t)'
    BY DEF Recovering
  <2>2. upsets <= 1 /\ ~daemon.overlap /\ ~Finished
    BY <1>0, <1>5, <1>7, <2>1 DEF Finished
  <2>3. /\ daemon.saved # "measurement"
        /\ \A t \in Session : ses[t].pre # "measurement"
        /\ gmMode = "measurement" => \E t \in Session : WillRestore(t)
    BY <1>4, <2>2 DEF Modes, Recovering
  <2>4. ~WillRestore(s)
    BY <1>4 DEF WillRestore, Switched, At
  <2>5. \A t \in Session : WillRestore(t) => WillRestore(t)'
    BY <1>0, <1>2, <1>5, <2>1, <2>4 DEF WillRestore, At
  <2>6. None # "measurement"
    BY SessionAssumption DEF SessionAssumption
  <2> QED BY <1>2, <1>3, <1>5, <2>3, <2>5, <2>6
<1> QED BY <1>8, <1>9, <1>10, <1>11 DEF Modes

(* What a step of the coroutine is about: a session on its way goes from   *)
(* one place to another, and nothing of the others changes.                *)
LEMMA TurnModes ==
  ASSUME SessionTypeOK, Courses, Modes, NEW s \in Session, NEW q \in SessionRecord, Goes(s, q),
         UNCHANGED <<home, daemon>>, Entered(s), q.at \in Awaiting \union {"cleaning", "leaving"},
         Finish(ses[s]) => Finish(q), upsets' \in {upsets, upsets + 1},
         ~daemon.overlap /\ upsets' = 0 =>
           /\ q.at # "undoing"
           /\ q.at = "switching" => q.pre = home
           /\ q.at \in Switched => q.gm /\ q.pre = home /\ gmMode' = "measurement"
           /\ q.at \notin Switched => gmMode' = home,
         ~daemon.overlap /\ upsets' <= 1 /\ ~Finished /\ daemon.up # "down" =>
           /\ q.pre # "measurement"
           /\ gmMode' = "measurement" => WillRestore(s)'
  PROVE  Modes'
<1>0. /\ ses \in [Session -> SessionRecord] /\ upsets \in Nat /\ daemon \in DaemonRecord
  BY ModeTypes
<1>1. /\ ses'[s] = q /\ \A t \in Session : t # s => ses'[t] = ses[t]
  BY <1>0, GoesOn
<1>2. daemon.up # "down" /\ Live(s)
  BY DEF Modes, OneLive, Entered, Over, Live
<1>3. \A t \in Session :
        /\ Live(t)' <=> Live(t)
        /\ Entered(t)' <=> Entered(t)
        /\ At(t, "entering")' <=> At(t, "entering")
        /\ Finish(ses[t]) => Finish(ses'[t])
  BY <1>1, <1>2 DEF Live, Entered, At, Awaiting
<1>4. ~daemon.overlap => \A t \in Session : t # s =>
        ~Live(t) /\ ~Entered(t) /\ ~WillRestore(t) /\ ses[t].at \notin Switched
  BY <1>2, Alone DEF Modes
<1>5. OneLive'
  BY <1>2, <1>3 DEF Modes, OneLive
<1>6. Counted'
  BY <1>0 DEF Modes, Counted
<1>7. Calm'
  <2>1. SUFFICES ASSUME upsets' = 0, ~daemon.overlap
                 PROVE  /\ \A t \in Session :
                             /\ Entered(t)' => daemon'.saved = home'
                             /\ ses'[t].at # "undoing"
                             /\ At(t, "switching")' => ses'[t].pre = home'
                             /\ ses'[t].at \in Switched =>
                                  ses'[t].gm /\ ses'[t].pre = home' /\ gmMode' = "measurement"
                        /\ (\A t \in Session : ses'[t].at \notin Switched) => gmMode' = home'
    BY DEF Calm
  <2>2. upsets = 0
    BY <1>0, <2>1
  <2>3. \A t \in Session : t # s => ses[t].at \notin Switched \union {"switching", "undoing"}
    BY <1>4, <2>1 DEF Live, Switched
  <2> QED BY <1>1, <1>3, <2>1, <2>2, <2>3 DEF Modes, Calm, At
<1>8. Recovering'
  <2>1. SUFFICES ASSUME upsets' <= 1, ~daemon.overlap, ~Finished'
                 PROVE  /\ daemon'.saved # "measurement"
                        /\ \A t \in Session : ses'[t].pre # "measurement"
                        /\ gmMode' = "measurement" => \E t \in Session : WillRestore(t)'
    BY DEF Recovering
  <2>2. upsets <= 1 /\ ~Finished
    BY <1>0, <1>3, <2>1 DEF Finished
  <2> QED BY <1>1, <1>2, <2>1, <2>2 DEF Modes, Recovering
<1> QED BY <1>5, <1>6, <1>7, <1>8 DEF Modes

(* What holds of a session on its way, when it has the daemon to itself. *)
LEMMA OnItsWay ==
  ASSUME SessionTypeOK, Courses, Modes, NEW s \in Session, Live(s), ~daemon.overlap
  PROVE  /\ upsets = 0 /\ ses[s].at \notin Switched => gmMode = home
         /\ upsets <= 1 /\ daemon.up # "down" /\ ~Finished =>
              /\ ses[s].pre # "measurement"
              /\ gmMode = "measurement" => WillRestore(s)
<1>1. \A t \in Session : t # s => ~WillRestore(t) /\ ses[t].at \notin Switched
  BY Alone DEF Modes
<1> QED BY <1>1 DEF Modes, Calm, Recovering

(* The switch to measurement mode, and the way back from it. *)
LEMMA SwitchModes ==
  ASSUME SessionTypeOK, Courses, Modes, NEW s \in Session,
         EnterStep(s) \/ BroadcastFails(s) \/ Clean(s)
  PROVE  Modes'
<1> DEFINE r == ses[s]
<1>0. /\ r \in SessionRecord /\ upsets \in 0..MaxUpsets /\ upsets \in Nat /\ Course(r)
      /\ "measurement" \notin Mode /\ None \notin Mode /\ "standby" \in Mode /\ home \in Mode
      /\ ModeOr(home) = home /\ home # "measurement"
      /\ \A mode : mode # "measurement" => ModeOr(mode) # "measurement"
  BY ModeTypes DEF SessionTypeOK, Courses
<1>c. ASSUME NEW ok \in BOOLEAN, Call(ok)
      PROVE  upsets' \in {upsets, upsets + 1} /\ (upsets' = upsets => ok)
  BY <1>c, <1>0, CallCosts
<1>m. ASSUME NEW mode, NEW ok \in BOOLEAN, SetMode(mode, ok)
      PROVE  /\ upsets' \in {upsets, upsets + 1} /\ (upsets' = upsets => ok)
             /\ gmMode' \in {mode, gmMode} /\ (ok => gmMode' = mode)
  BY <1>m, <1>c DEF SetMode
<1>t. ASSUME NEW q, Goes(s, q) PROVE ses'[s] = q /\ q \in SessionRecord
  <2>1. ses \in [Session -> SessionRecord] /\ ses' \in [Session -> SessionRecord]
    <3>1. SessionNext
      BY DEF SessionNext, Coroutine
    <3> QED BY <3>1, ControlStep DEF SessionTypeOK
  <2> QED BY <1>t, <2>1 DEF Goes
<1>h. UNCHANGED <<home, daemon>>
  BY DEF EnterStep, Begin, Connect, Query, Switch, Settle, Undo, BroadcastFails, Clean
<1>l. Live(s) /\ Entered(s)
  BY DEF EnterStep, Begin, Connect, Query, Switch, Settle, Undo, BroadcastFails, Telling, Clean,
         Live, Entered, At
<1>w. /\ ~daemon.overlap /\ upsets = 0 /\ r.at \notin Switched => gmMode = home
      /\ ~daemon.overlap /\ upsets <= 1 /\ daemon.up # "down" /\ ~Finished =>
           /\ r.pre # "measurement"
           /\ gmMode = "measurement" => WillRestore(s)
      /\ ~daemon.overlap /\ upsets = 0 =>
           /\ r.at # "undoing"
           /\ r.at = "switching" => r.pre = home
           /\ r.at \in Switched => r.gm /\ r.pre = home /\ gmMode = "measurement"
  BY <1>l, OnItsWay DEF Modes, Calm, At
<1>k. ASSUME NEW q, Goes(s, q), q.at \in Awaiting \union {"cleaning", "leaving"},
             Finish(r) => Finish(q), upsets' \in {upsets, upsets + 1},
             ~daemon.overlap /\ upsets' = 0 =>
               /\ q.at # "undoing"
               /\ q.at = "switching" => q.pre = home
               /\ q.at \in Switched => q.gm /\ q.pre = home /\ gmMode' = "measurement"
               /\ q.at \notin Switched => gmMode' = home,
             ~daemon.overlap /\ upsets' <= 1 /\ ~Finished /\ daemon.up # "down" =>
               /\ q.pre # "measurement"
               /\ gmMode' = "measurement" =>
                    \/ q.at \in Switched \union {"switching", "undoing"} /\ q.gm
                    \/ q.at = "leaving" /\ upsets' = 1
      PROVE  Modes'
  <2>1. ses'[s] = q /\ q \in SessionRecord
    BY <1>k, <1>t
  <2>2. ~daemon.overlap /\ upsets' <= 1 /\ ~Finished /\ daemon.up # "down" =>
          q.pre # "measurement" /\ (gmMode' = "measurement" => WillRestore(s)')
    BY <1>k, <2>1 DEF WillRestore, At
  <2> QED BY <1>k, <1>h, <1>l, <2>1, <2>2, TurnModes
<1>f. ASSUME NEW q, q.state = r.state, q.at \in {"cleaning", "leaving"} PROVE Finish(r) => Finish(q)
  BY <1>f DEF Finish
<1>n. ASSUME r.state # "complete" PROVE ~Finish(r)
  BY <1>n DEF Finish
<1>1. CASE Begin(s)
  <2> DEFINE q == [r EXCEPT !.state = "setup", !.at = "connecting"]
  <2>1. Goes(s, q) /\ r.at = "begun" /\ UNCHANGED <<gmMode, upsets>>
    BY <1>1 DEF Begin, At
  <2>2. q.at = "connecting" /\ q.pre = r.pre /\ r.state = "idle"
    BY <1>0, <2>1 DEF SessionRecord, Course, States
  <2>3. "connecting" \in Awaiting \ Switched /\ "begun" \notin Switched \union {"switching", "undoing"}
    BY DEF Awaiting, Switched
  <2>4. ~WillRestore(s)
    BY <2>1, <2>3 DEF WillRestore, At
  <2> HIDE DEF q
  <2> QED BY <1>0, <1>k, <1>f, <1>n, <1>w, <2>1, <2>2, <2>3, <2>4
<1>2. CASE Connect(s)
  <2>1. PICK ok \in BOOLEAN :
          /\ Call(ok)
          /\ Goes(s, [r EXCEPT !.gm = ok, !.state = "gain_cal",
                               !.at = IF ok THEN "querying" ELSE "channel"])
    BY <1>2, Zenon DEF Connect
  <2> DEFINE q == [r EXCEPT !.gm = ok, !.state = "gain_cal",
                            !.at = IF ok THEN "querying" ELSE "channel"]
  <2>2. Goes(s, q) /\ r.at = "connecting" /\ UNCHANGED gmMode
    BY <1>2, <2>1 DEF Connect, At
  <2>3. /\ q.at = (IF ok THEN "querying" ELSE "channel") /\ q.pre = r.pre /\ r.state = "setup"
    BY <1>0, <2>2 DEF SessionRecord, Course, States
  <2>4. /\ {"querying", "channel"} \subseteq Awaiting /\ "querying" \notin Switched
        /\ "connecting" \notin Switched \union {"switching", "undoing"}
    BY DEF Awaiting, Switched
  <2>5. ~WillRestore(s)
    BY <2>2, <2>4 DEF WillRestore, At
  <2>6. upsets' \in {upsets, upsets + 1} /\ (upsets' = upsets => ok)
    BY <1>c, <2>1
  <2> HIDE DEF q
  <2> QED BY <1>0, <1>k, <1>f, <1>n, <1>w, <2>2, <2>3, <2>4, <2>5, <2>6
<1>3. CASE Query(s)
  <2>1. PICK ok \in BOOLEAN :
          Call(ok) /\ Goes(s, [r EXCEPT !.pre = SavedMode(s, ok), !.at = "switching"])
    BY <1>3, Zenon DEF Query
  <2> DEFINE q == [r EXCEPT !.pre = SavedMode(s, ok), !.at = "switching"]
  <2>2. Goes(s, q) /\ r.at = "querying" /\ UNCHANGED gmMode
    BY <1>3, <2>1 DEF Query, At
  <2>3. /\ q.at = "switching" /\ q.pre = (IF ok THEN gmMode ELSE "standby")
        /\ (q.gm <=> r.gm) /\ r.gm /\ r.state = "gain_cal"
    BY <1>0, <2>2 DEF SessionRecord, Course, States, SavedMode
  <2>4. /\ "switching" \in Awaiting \ Switched
        /\ "querying" \notin Switched \union {"switching", "undoing"}
    BY DEF Awaiting, Switched
  <2>5. ~WillRestore(s)
    BY <2>2, <2>4 DEF WillRestore, At
  <2>6. upsets' \in {upsets, upsets + 1} /\ (upsets' = upsets => ok)
    BY <1>c, <2>1
  <2> HIDE DEF q
  <2> QED BY <1>0, <1>k, <1>f, <1>n, <1>w, <2>2, <2>3, <2>4, <2>5, <2>6
<1>4. CASE Switch(s)
  <2>1. PICK ok \in BOOLEAN :
          /\ SetMode("measurement", ok)
          /\ Goes(s, [r EXCEPT !.at = IF ok THEN "settling" ELSE "undoing"])
    BY <1>4, Zenon DEF Switch
  <2> DEFINE q == [r EXCEPT !.at = IF ok THEN "settling" ELSE "undoing"]
  <2>2. Goes(s, q) /\ r.at = "switching"
    BY <1>4, <2>1 DEF Switch, At
  <2>3. /\ q.at = (IF ok THEN "settling" ELSE "undoing") /\ q.pre = r.pre
        /\ (q.gm <=> r.gm) /\ r.gm /\ r.state = "gain_cal"
    BY <1>0, <2>2 DEF SessionRecord, Course, States
  <2>4. {"settling", "undoing"} \subseteq Awaiting /\ "settling" \in Switched /\ "switching" \notin Switched
    BY DEF Awaiting, Switched
  <2>6. /\ upsets' \in {upsets, upsets + 1} /\ (upsets' = upsets => ok)
        /\ (ok => gmMode' = "measurement")
    BY <1>m, <2>1
  <2> HIDE DEF q
  <2> QED BY <1>0, <1>k, <1>f, <1>n, <1>w, <2>2, <2>3, <2>4, <2>6
<1>5. CASE Settle(s)
  <2>1. PICK ok \in BOOLEAN :
          Call(ok) /\ Goes(s, [r EXCEPT !.at = IF ok THEN "channel" ELSE "undoing"])
    BY <1>5, Zenon DEF Settle
  <2> DEFINE q == [r EXCEPT !.at = IF ok THEN "channel" ELSE "undoing"]
  <2>2. Goes(s, q) /\ r.at = "settling" /\ UNCHANGED gmMode
    BY <1>5, <2>1 DEF Settle, At
  <2>3. /\ q.at = (IF ok THEN "channel" ELSE "undoing") /\ q.pre = r.pre
        /\ (q.gm <=> r.gm) /\ r.gm /\ r.state = "gain_cal"
    BY <1>0, <2>2 DEF SessionRecord, Course, States
  <2>4. {"channel", "undoing"} \subseteq Awaiting /\ {"channel", "settling"} \subseteq Switched
    BY DEF Awaiting, Switched
  <2>6. upsets' \in {upsets, upsets + 1} /\ (upsets' = upsets => ok)
    BY <1>c, <2>1
  <2> HIDE DEF q
  <2> QED BY <1>0, <1>k, <1>f, <1>n, <1>w, <2>2, <2>3, <2>4, <2>6
<1>6. CASE Undo(s)
  <2>1. PICK ok \in BOOLEAN : SetMode(ModeOr(r.pre), ok)
    BY <1>6, Zenon DEF Undo
  <2> DEFINE q == Erring(r)
  <2>2. Goes(s, q) /\ r.at = "undoing"
    BY <1>6 DEF Undo, At
  <2>3. q.at = "cleaning" /\ q.pre = r.pre /\ (q.gm <=> r.gm) /\ r.gm /\ r.state = "gain_cal"
    BY <1>0, <2>2 DEF SessionRecord, Course, States, Erring
  <2>4. "cleaning" \in Switched
    BY DEF Switched
  <2>6. upsets' \in {upsets, upsets + 1}
    BY <1>m, <2>1
  <2> HIDE DEF q
  <2> QED BY <1>0, <1>k, <1>f, <1>n, <1>w, <2>2, <2>3, <2>4, <2>6
<1>7. CASE Clean(s)
  <2> DEFINE q == [r EXCEPT !.gm = FALSE, !.at = "leaving"]
  <2>1. Goes(s, q) /\ r.at = "cleaning"
    BY <1>7 DEF Clean, At
  <2>2. q.at = "leaving" /\ q.pre = r.pre /\ q.state = r.state
    BY <1>0, <2>1 DEF SessionRecord
  <2>3. "leaving" \notin Switched /\ "cleaning" \in Switched
    BY DEF Switched
  <2> HIDE DEF q
  <2>4. CASE r.gm
    <3>1. PICK ok \in BOOLEAN : SetMode(ModeOr(r.pre), ok)
      BY <1>7, <2>4 DEF Clean
    <3>2. /\ upsets' \in {upsets, upsets + 1} /\ (upsets' = upsets => ok)
          /\ gmMode' \in {ModeOr(r.pre), gmMode} /\ (ok => gmMode' = ModeOr(r.pre))
      BY <1>m, <3>1
    <3> QED BY <1>0, <1>k, <1>f, <1>n, <1>w, <2>1, <2>2, <2>3, <2>4, <3>2
  <2>5. CASE ~r.gm
    <3>1. UNCHANGED <<gmMode, upsets>>
      BY <1>7, <2>5 DEF Clean
    <3>2. ~WillRestore(s)
      BY <2>1, <2>5 DEF WillRestore, At
    <3> QED BY <1>0, <1>k, <1>f, <1>n, <1>w, <2>1, <2>2, <2>3, <2>5, <3>1, <3>2
  <2> QED BY <2>4, <2>5
<1>8. CASE BroadcastFails(s)
  <2>1. PICK q \in SessionRecord :
          Goes(s, q) /\ q.at = "cleaning" /\ q.pre = r.pre /\ (r.gm => q.gm)
    BY <1>0, <1>8, FailsIs
  <2>2. r.at \in Telling /\ Call(FALSE) /\ UNCHANGED gmMode
    BY <1>8 DEF BroadcastFails
  <2>3. ~Finish(r)
    BY <1>0, <2>2 DEF Finish, Telling, Course, States
  <2>4. upsets' = upsets + 1
    BY <1>0, <2>2, CallCosts
  <2>5. "cleaning" \in Switched /\ r.at # "leaving"
    BY <2>2 DEF Switched, Telling
  <2>6. WillRestore(s) => r.gm
    BY <2>5 DEF WillRestore, At
  <2> QED BY <1>0, <1>k, <1>w, <2>1, <2>2, <2>3, <2>4, <2>5, <2>6
<1> QED BY <1>1, <1>2, <1>3, <1>4, <1>5, <1>6, <1>7, <1>8 DEF EnterStep

(* The mode manager, when a session enters and when it has left. *)
LEMMA EnterModes ==
  ASSUME SessionTypeOK, Courses, Modes, NEW s \in Session, Enter(s)
  PROVE  Modes'
<1> DEFINE r == ses[s]
<1>0. /\ ses \in [Session -> SessionRecord] /\ r \in SessionRecord /\ Course(r)
      /\ upsets \in 0..MaxUpsets /\ upsets \in Nat /\ daemon \in DaemonRecord
      /\ "measurement" \notin Mode /\ "standby" \in Mode
  BY ModeTypes DEF SessionTypeOK, Courses
<1>3. PICK ok \in BOOLEAN, told \in BOOLEAN :
        /\ Call(told /\ ok = daemon.gm)
        /\ daemon' = [daemon EXCEPT !.mode = "measurement", !.active = s, !.last = None,
                                    !.saved = IF ok THEN gmMode ELSE "standby"]
        /\ Goes(s, [r EXCEPT !.at = IF told THEN "begun" ELSE "stranded"])
  BY <1>0 DEF Enter, DaemonRecord
<1> DEFINE q == [r EXCEPT !.at = IF told THEN "begun" ELSE "stranded"]
<1>1. /\ Goes(s, q) /\ r.at = "entering" /\ UNCHANGED <<gmMode, home>>
  BY <1>3 DEF Enter, At
<1>2. /\ q.at \in {"begun", "stranded"} /\ q.pre = r.pre /\ q.state = "idle" /\ r.state = "idle" /\ q \in SessionRecord
  BY <1>0, <1>1 DEF SessionRecord, Course, States, Awaiting
<1>4. /\ daemon'.up = daemon.up /\ daemon'.mode = "measurement" /\ daemon'.active = s
      /\ daemon'.saved = (IF ok THEN gmMode ELSE "standby")
  BY <1>0, <1>3 DEF DaemonRecord
<1>5. (daemon'.gm <=> daemon.gm) /\ (daemon'.overlap <=> daemon.overlap)
  BY <1>0, <1>3 DEF DaemonRecord
<1>6. upsets' \in {upsets, upsets + 1} /\ (upsets' = upsets /\ daemon.gm => ok)
  <2>1. (told /\ ok = daemon.gm) \in BOOLEAN
    OBVIOUS
  <2>2. /\ upsets' \in {upsets, upsets + 1}
        /\ ~(told /\ ok = daemon.gm) => upsets' = upsets + 1
    BY <1>0, <1>3, <2>1, CallCosts
  <2> QED BY <1>0, <2>2
<1> HIDE DEF q, r
<1>7. /\ ses'[s] = q /\ \A t \in Session : t # s => ses'[t] = ses[t]
  BY <1>0, <1>1, <1>2, GoesOn
<1>8. Live(s) /\ daemon.up # "down" /\ ~WillRestore(s) /\ r.at \notin Switched
  BY <1>1 DEF Modes, OneLive, Over, Live, WillRestore, Switched, At, r
<1>9. ~daemon.overlap => \A t \in Session : t # s =>
        ~Live(t) /\ ~Entered(t) /\ ~WillRestore(t) /\ ses[t].at \notin Switched
  BY <1>8, Alone DEF Modes
<1>10. OneLive'
  <2>1. \A t \in Session :
          t # s =>
            /\ Live(t)' <=> Live(t)
            /\ Entered(t)' <=> Entered(t)
            /\ At(t, "entering")' <=> At(t, "entering")
    BY <1>7 DEF Live, Entered, At
  <2>2. ~At(s, "entering")'
    BY <1>2, <1>7 DEF At
  <2>3. ~daemon.overlap => \A t \in Session : t # s => ~Live(t)' /\ ~Entered(t)' /\ ~At(t, "entering")'
    BY <1>9, <2>1 DEF Live, At
  <2> QED BY <1>4, <1>5, <1>8, <2>2, <2>3 DEF OneLive
<1>11. Counted'
  BY <1>0, <1>4, <1>5, <1>6 DEF Modes, Counted
<1>12. Calm'
  <2>1. SUFFICES ASSUME upsets' = 0, ~daemon'.overlap
                 PROVE  /\ \A t \in Session :
                             /\ Entered(t)' => daemon'.saved = home'
                             /\ ses'[t].at # "undoing"
                             /\ At(t, "switching")' => ses'[t].pre = home'
                             /\ ses'[t].at \in Switched =>
                                  ses'[t].gm /\ ses'[t].pre = home' /\ gmMode' = "measurement"
                        /\ (\A t \in Session : ses'[t].at \notin Switched) => gmMode' = home'
    BY DEF Calm
  <2>2. upsets = 0 /\ ~daemon.overlap /\ daemon.gm /\ ok
    BY <1>0, <1>5, <1>6, <2>1 DEF Modes, Counted
  <2>3. gmMode = home
    BY <1>8, <2>2, OnItsWay DEF r
  <2>4. \A t \in Session : ses'[t].at \notin Switched \union {"switching", "undoing"}
    <3>1. q.at \notin Switched \union {"switching", "undoing"}
      BY <1>2 DEF Switched
    <3>2. \A t \in Session : t # s => ses[t].at \notin Switched \union {"switching", "undoing"}
      BY <1>9, <2>2 DEF Live, Switched
    <3> QED BY <1>7, <3>1, <3>2
  <2> QED BY <1>1, <1>4, <2>2, <2>3, <2>4 DEF At
<1>13. Recovering'
  <2>1. SUFFICES ASSUME upsets' <= 1, ~daemon'.overlap, ~Finished'
                 PROVE  /\ daemon'.saved # "measurement"
                        /\ \A t \in Session : ses'[t].pre # "measurement"
                        /\ gmMode' = "measurement" => \E t \in Session : WillRestore(t)'
    BY DEF Recovering
  <2>2. upsets <= 1 /\ ~daemon.overlap /\ ~Finished
    <3>1. \A t \in Session : Finish(ses[t]) => Finish(ses'[t])
      BY <1>2, <1>7 DEF r, Finish
    <3> QED BY <1>0, <1>5, <1>6, <2>1, <3>1 DEF Finished
  <2>3. gmMode # "measurement" /\ \A t \in Session : ses[t].pre # "measurement"
    BY <1>8, <2>2, OnItsWay DEF Modes, Recovering
  <2>4. "standby" # "measurement"
    OBVIOUS
  <2> QED BY <1>1, <1>2, <1>4, <1>7, <2>3 DEF r
<1> QED BY <1>10, <1>11, <1>12, <1>13 DEF Modes

LEMMA LeaveModes ==
  ASSUME SessionTypeOK, Courses, Modes, NEW s \in Session, Leave(s)
  PROVE  Modes'
<1> DEFINE r == ses[s]
           q == [r EXCEPT !.at = "closing"]
<1>0. /\ ses \in [Session -> SessionRecord] /\ r \in SessionRecord
      /\ upsets \in 0..MaxUpsets /\ upsets \in Nat /\ daemon \in DaemonRecord
      /\ "measurement" \notin Mode /\ None # "measurement"
      /\ ModeOr(home) = home
      /\ \A mode : mode # "measurement" => ModeOr(mode) # "measurement"
  BY ModeTypes, SessionAssumption DEF SessionTypeOK, SessionAssumption
<1>1. Goes(s, q) /\ r.at = "leaving" /\ UNCHANGED home
  BY DEF Leave, At
<1>2. q.at = "closing" /\ q.pre = r.pre /\ q.state = r.state /\ q \in SessionRecord
  BY <1>0, <1>1 DEF SessionRecord
<1>3. /\ daemon.active = s /\ r.state # "complete" /\ daemon.gm =>
           \E ok \in BOOLEAN : SetMode(ModeOr(daemon.saved), ok)
      /\ ~(daemon.active = s /\ r.state # "complete" /\ daemon.gm) => UNCHANGED <<gmMode, upsets>>
  BY DEF Leave
<1>4. /\ upsets' \in {upsets, upsets + 1}
      /\ daemon.active = s /\ r.state # "complete" /\ daemon.gm =>
           /\ gmMode' \in {ModeOr(daemon.saved), gmMode}
           /\ upsets' = upsets => gmMode' = ModeOr(daemon.saved)
  BY <1>0, <1>3, CallCosts DEF SetMode
<1>5. /\ daemon'.up = daemon.up /\ (daemon'.gm <=> daemon.gm) /\ (daemon'.overlap <=> daemon.overlap)
      /\ daemon'.saved \in {daemon.saved, None}
  <2>1. daemon' = daemon \/ daemon' = InStandby(s)
    BY DEF Leave
  <2>2. /\ InStandby(s).up = daemon.up /\ InStandby(s).saved = None
        /\ (InStandby(s).gm <=> daemon.gm) /\ (InStandby(s).overlap <=> daemon.overlap)
    BY <1>0 DEF InStandby, DaemonRecord
  <2> QED BY <2>1, <2>2
<1> HIDE DEF q, r
<1>6. /\ ses'[s] = q /\ \A t \in Session : t # s => ses'[t] = ses[t]
  BY <1>0, <1>1, <1>2, GoesOn
<1>7. Live(s) /\ Entered(s) /\ daemon.up # "down" /\ r.at \notin Switched
  BY <1>1 DEF Modes, OneLive, Over, Live, Entered, Switched, At, r
<1>8. ~daemon.overlap =>
        /\ daemon.active = s
        /\ \A t \in Session : t # s =>
             ~Live(t) /\ ~Entered(t) /\ ~WillRestore(t) /\ ses[t].at \notin Switched
  BY <1>7, Alone DEF Modes, OneLive
<1>9. ~daemon.overlap => \A t \in Session : ~Live(t)'
  BY <1>2, <1>6, <1>8 DEF Live
<1>10. OneLive'
  <2>1. \A t \in Session : Entered(t)' \/ At(t, "entering")' => Live(t)'
    BY DEF Entered, Live, At
  <2> QED BY <1>5, <1>7, <1>9, <2>1 DEF OneLive
<1>11. Counted'
  BY <1>0, <1>4, <1>5 DEF Modes, Counted
<1>12. Calm'
  <2>1. SUFFICES ASSUME upsets' = 0, ~daemon'.overlap
                 PROVE  /\ \A t \in Session :
                             /\ Entered(t)' => daemon'.saved = home'
                             /\ ses'[t].at # "undoing"
                             /\ At(t, "switching")' => ses'[t].pre = home'
                             /\ ses'[t].at \in Switched =>
                                  ses'[t].gm /\ ses'[t].pre = home' /\ gmMode' = "measurement"
                        /\ (\A t \in Session : ses'[t].at \notin Switched) => gmMode' = home'
    BY DEF Calm
  <2>2. upsets = 0 /\ ~daemon.overlap /\ upsets' = upsets
    BY <1>0, <1>4, <1>5, <2>1
  <2>3. gmMode = home
    BY <1>7, <2>2, OnItsWay DEF r
  <2>4. daemon.saved = home
    BY <1>7, <2>2 DEF Modes, Calm
  <2>5. gmMode' = home
    BY <1>0, <1>3, <1>4, <2>2, <2>3, <2>4
  <2>6. \A t \in Session : ~Live(t)'
    BY <1>9, <2>2
  <2>7. \A t \in Session : ~Entered(t)' /\ ses'[t].at \notin Switched \union {"undoing", "switching"}
    BY <2>6 DEF Live, Entered, Switched
  <2> QED BY <1>1, <2>5, <2>7 DEF At
<1>13. Recovering'
  <2>1. SUFFICES ASSUME upsets' <= 1, ~daemon'.overlap, ~Finished'
                 PROVE  /\ daemon'.saved # "measurement"
                        /\ \A t \in Session : ses'[t].pre # "measurement"
                        /\ gmMode' # "measurement"
    BY DEF Recovering
  <2>2. upsets <= 1 /\ ~daemon.overlap /\ ~Finished /\ r.state # "complete"
    <3>1. \A t \in Session : Finish(ses[t]) => Finish(ses'[t])
      BY <1>1, <1>2, <1>6 DEF r, Finish
    <3>2. r.state = "complete" => Finish(r)
      BY <1>1 DEF Finish
    <3> QED BY <1>0, <1>4, <1>5, <2>1, <3>1, <3>2 DEF Finished, r
  <2>3. daemon.saved # "measurement" /\ \A t \in Session : ses[t].pre # "measurement"
    BY <1>7, <2>2 DEF Modes, Recovering
  <2>4. gmMode = "measurement" => upsets = 1
    <3>1. gmMode = "measurement" => WillRestore(s)
      BY <1>7, <2>2, OnItsWay
    <3> QED BY <1>1, <3>1 DEF WillRestore, Switched, r
  <2>5. daemon.active = s /\ daemon.gm
    BY <1>0, <1>8, <2>2 DEF Modes, Counted
  <2>6. gmMode' # "measurement"
    BY <1>0, <1>4, <2>1, <2>2, <2>3, <2>4, <2>5
  <2> QED BY <1>0, <1>2, <1>5, <1>6, <2>3, <2>6 DEF r
<1> QED BY <1>10, <1>11, <1>12, <1>13 DEF Modes

(* What is left to do when a session has left. *)
LEMMA CloseModes ==
  ASSUME SessionTypeOK, Courses, Modes, NEW s \in Session, Close(s)
  PROVE  Modes'
<1> DEFINE r == ses[s]
<1>0. /\ ses \in [Session -> SessionRecord] /\ r \in SessionRecord
      /\ upsets \in 0..MaxUpsets /\ upsets \in Nat
  BY ModeTypes DEF SessionTypeOK
<1>1. PICK told \in BOOLEAN :
        Call(told) /\ Goes(s, [r EXCEPT !.at = "ended", !.siggen = r.siggen /\ ~told])
  BY Zenon DEF Close
<1> DEFINE q == [r EXCEPT !.at = "ended", !.siggen = r.siggen /\ ~told]
<1>2. /\ q \in SessionRecord /\ q.at = "ended" /\ q.pre = r.pre /\ q.state = r.state
      /\ (q.gm <=> r.gm)
  BY <1>0 DEF SessionRecord
<1>3. Goes(s, q) /\ r.at = "closing" /\ UNCHANGED <<gmMode, home, daemon>>
  BY <1>1 DEF Close, At
<1>4. upsets' \in {upsets, upsets + 1}
  BY <1>0, <1>1, CallCosts
<1> HIDE DEF q
<1>5. /\ ses'[s] = q /\ \A t \in Session : t # s => ses'[t] = ses[t]
  BY <1>0, <1>2, <1>3, GoesOn
<1>6. \A t \in Session :
        /\ ses'[t].pre = ses[t].pre
        /\ ses[t].at # "closing" => ses'[t].at = ses[t].at
        /\ ses[t].at = "closing" => ses'[t].at \in {"closing", "ended"}
        /\ (ses'[t].gm <=> ses[t].gm) /\ ses'[t].state = ses[t].state
  BY <1>2, <1>3, <1>5
<1>7. \A t \in Session :
        /\ Live(t)' <=> Live(t)
        /\ Entered(t)' <=> Entered(t)
        /\ \A at \in {"entering", "undoing", "switching", "leaving"} : At(t, at)' <=> At(t, at)
        /\ (ses[t].at \in Switched)' <=> ses[t].at \in Switched
        /\ Finish(ses[t]) <=> Finish(ses'[t])
  BY <1>6 DEF Live, Entered, At, Switched, Finish
<1>8. OneLive'
  BY <1>3, <1>6, <1>7 DEF Modes, OneLive
<1>9. Counted'
  BY <1>0, <1>3, <1>4 DEF Modes, Counted
<1>10. Calm'
  BY <1>0, <1>3, <1>4, <1>6, <1>7 DEF Modes, Calm, At
<1>11. Recovering'
  <2>1. Finished => Finished'
    BY <1>7 DEF Finished
  <2>2. \A t \in Session : upsets' <= 1 /\ WillRestore(t) => WillRestore(t)'
    BY <1>0, <1>4, <1>6, <1>7 DEF WillRestore, At
  <2> QED BY <1>0, <1>3, <1>4, <1>6, <2>1, <2>2 DEF Modes, Recovering
<1> QED BY <1>8, <1>9, <1>10, <1>11 DEF Modes

(* The process. *)
LEMMA ProcessModes ==
  ASSUME SessionTypeOK, Courses, Modes, Process
  PROVE  Modes'
<1>0. /\ ses \in [Session -> SessionRecord] /\ \A s \in Session : Course(ses[s])
      /\ upsets \in 0..MaxUpsets /\ upsets \in Nat /\ daemon \in DaemonRecord
      /\ "measurement" \notin Mode /\ None # "measurement"
  BY ModeTypes, SessionAssumption DEF SessionTypeOK, SessionAssumption, Courses
<1>c. ASSUME NEW ok \in BOOLEAN, Call(ok)
      PROVE  upsets' \in {upsets, upsets + 1} /\ (~ok => upsets' = upsets + 1)
  BY <1>c, <1>0, CallCosts
<1>1. CASE Shutdown
  <2>1. /\ ses' = [s \in Session |-> Cancelled(ses[s])]
        /\ UNCHANGED <<gmMode, home>> /\ upsets' = upsets + 1 /\ daemon.up = "up"
        /\ \A s \in Session : ses[s].at \notin {"evicting", "entering"}
    BY <1>1, <1>c DEF Shutdown
  <2>2. /\ daemon'.up = "stopping" /\ daemon'.mode = daemon.mode /\ daemon'.active = daemon.active
        /\ daemon'.saved = daemon.saved
        /\ (daemon'.gm <=> daemon.gm) /\ (daemon'.overlap <=> daemon.overlap)
    <3>1. daemon' = [daemon EXCEPT !.up = "stopping"]
      BY <1>1 DEF Shutdown
    <3> QED BY <1>0, <3>1 DEF DaemonRecord
  <2>3. ASSUME NEW s \in Session
        PROVE  /\ ses'[s].pre = ses[s].pre /\ (ses'[s].gm <=> ses[s].gm)
               /\ Finish(ses[s]) => Finish(ses'[s])
               /\ ses'[s].at = CASE ses[s].at \in Awaiting -> "cleaning"
                                 [] ses[s].at = "cleaning" -> "leaving"
                                 [] ses[s].at \in {"leaving", "closing"} -> "ended"
                                 [] OTHER -> ses[s].at
    BY <1>0, <2>1, CancelledKeeps
  <2>4. ASSUME NEW s \in Session
        PROVE  /\ ses[s].at \in Awaiting => ses'[s].at = "cleaning"
               /\ ses[s].at = "cleaning" => ses'[s].at = "leaving"
               /\ ses[s].at \in {"leaving", "closing"} => ses'[s].at = "ended"
               /\ ses[s].at \in {"none", "stranded", "ended"} => ses'[s].at = ses[s].at
               /\ ses[s].at \in Awaiting \union
                    {"cleaning", "leaving", "closing", "none", "stranded", "ended"}
    <3>1. ses[s].at \in Awaiting \union
            {"cleaning", "leaving", "closing", "none", "stranded", "ended"}
      BY <1>0, <2>1 DEF SessionRecord
    <3>2. {"cleaning", "leaving", "closing", "none", "stranded", "ended"} \intersect Awaiting = {}
      BY DEF Awaiting
    <3> QED BY <2>3, <3>1, <3>2
  <2>5. ASSUME NEW s \in Session
        PROVE  /\ Live(s)' => Live(s)
               /\ ~At(s, "entering")'
               /\ Entered(s)' => Entered(s)
    BY <2>4 DEF Live, Entered, At, Awaiting
  <2>6. OneLive'
    BY <2>2, <2>5 DEF Modes, OneLive
  <2>7. Counted' /\ Calm'
    BY <1>0, <2>1, <2>2 DEF Modes, Counted, Calm
  <2>8. Recovering'
    <3>1. SUFFICES ASSUME upsets = 0, ~daemon.overlap, ~Finished'
                   PROVE  /\ daemon.saved # "measurement"
                          /\ \A t \in Session : ses'[t].pre # "measurement"
                          /\ gmMode = "measurement" => \E t \in Session : WillRestore(t)'
      BY <1>0, <2>1, <2>2 DEF Recovering
    <3>2. ~Finished
      BY <2>3, <3>1 DEF Finished
    <3>3. /\ daemon.saved # "measurement"
          /\ \A t \in Session : ses[t].pre # "measurement"
          /\ gmMode = "measurement" => \E t \in Session : WillRestore(t)
      BY <2>1, <3>1, <3>2 DEF Modes, Recovering
    <3>4. ASSUME NEW t \in Session, WillRestore(t) PROVE WillRestore(t)'
      <4>1. ses[t].at \in Switched \union {"switching", "undoing"} /\ ses[t].gm
        BY <3>1, <3>4 DEF WillRestore
      <4>2. ses[t].at \in Awaiting \union {"cleaning"}
        BY <4>1 DEF Switched, Awaiting
      <4>3. (ses'[t].at = "cleaning" /\ ses'[t].gm) \/ ses'[t].at = "leaving"
        BY <2>3, <2>4, <4>1, <4>2
      <4> QED BY <2>1, <3>1, <4>3 DEF WillRestore, Switched, At
    <3> QED BY <2>3, <3>3, <3>4
  <2> QED BY <2>6, <2>7, <2>8 DEF Modes
<1>2. CASE Exit \/ Crash
  <2>1. /\ daemon' = [Standby(TRUE) EXCEPT !.up = "down"]
        /\ ses' = [s \in Session |-> IF At(s, "none") THEN New ELSE [New EXCEPT !.at = "ended"]]
    BY <1>2 DEF Exit, Crash, Gone
  <2>2. upsets' \in Nat /\ upsets' >= 1
    <3>1. Exit => daemon.up # "up" /\ upsets' = upsets
      BY DEF Exit
    <3>2. Crash => upsets' = upsets + 1
      BY <1>c DEF Crash
    <3> QED BY <1>0, <1>2, <3>1, <3>2 DEF Modes, Counted
  <2>3. daemon'.up = "down" /\ daemon'.gm
    BY <2>1 DEF Standby
  <2>4. \A s \in Session : ses'[s].at \in {"none", "ended"} /\ ses'[s].pre = None
    BY <2>1 DEF New
  <2>5. OneLive'
    BY <2>4 DEF OneLive, Live, Entered, At
  <2>6. Counted' /\ Calm' /\ Recovering'
    BY <2>2, <2>3 DEF Counted, Calm, Recovering
  <2> QED BY <2>5, <2>6 DEF Modes
<1>3. CASE Restart
  <2>1. UNCHANGED <<home, ses>> /\ daemon.up = "down"
    BY <1>3 DEF Restart
  <2>2. /\ upsets >= 1
        /\ \A s \in Session : ses[s].at \in {"none", "ended"} /\ ses[s].pre = None
    BY <2>1 DEF Modes, Counted, OneLive
  <2>3. /\ upsets' \in {upsets, upsets + 1} /\ daemon' \in {Standby(TRUE), Standby(FALSE)}
        /\ daemon' = Standby(FALSE) => upsets' = upsets + 1
        /\ upsets' = upsets => gmMode' # "measurement"
    <3>0. Call(FALSE) => upsets' = upsets + 1
      BY <1>c
    <3>1. CASE gmMode = "measurement" /\ \E ok \in BOOLEAN : SetMode("standby", ok)
      <4>1. PICK ok \in BOOLEAN : SetMode("standby", ok)
        BY <3>1
      <4>2. Call(ok) /\ (ok => gmMode' = "standby")
        BY <4>1 DEF SetMode
      <4>3. upsets' \in {upsets, upsets + 1} /\ (~ok => upsets' = upsets + 1)
        BY <1>c, <4>2
      <4>4. daemon' = Standby(TRUE) \/ (daemon' = Standby(FALSE) /\ Call(FALSE))
        BY <1>3 DEF Restart
      <4>5. upsets' = upsets => ok
        BY <1>0, <4>3
      <4>6. daemon' = Standby(FALSE) => upsets' = upsets + 1
        <5>1. Standby(TRUE) # Standby(FALSE)
          <6>1. Standby(TRUE).gm /\ ~Standby(FALSE).gm
            BY DEF Standby
          <6> QED BY <6>1
        <5> QED BY <3>0, <4>4, <5>1
      <4> QED BY <4>2, <4>3, <4>4, <4>5, <4>6
    <3>2. CASE gmMode # "measurement" /\ Call(TRUE) /\ UNCHANGED gmMode /\ daemon' = Standby(TRUE)
      <4>1. Standby(TRUE) # Standby(FALSE)
        <5>1. Standby(TRUE).gm /\ ~Standby(FALSE).gm
          BY DEF Standby
        <5> QED BY <5>1
      <4> QED BY <1>c, <3>2, <4>1
    <3>3. CASE Call(FALSE) /\ daemon' = Standby(FALSE)
      BY <1>0, <3>0, <3>3
    <3> QED BY <1>3, <3>1, <3>2, <3>3 DEF Restart
  <2>4. /\ daemon'.up = "up" /\ daemon'.saved = None /\ upsets' \in Nat /\ upsets' >= 1
        /\ ~daemon'.gm => upsets' >= 2
        /\ upsets' <= 1 => gmMode' # "measurement"
    <3>1. /\ Standby(TRUE).up = "up" /\ Standby(TRUE).saved = None /\ Standby(TRUE).gm
          /\ Standby(FALSE).up = "up" /\ Standby(FALSE).saved = None
      BY DEF Standby
    <3>2. /\ daemon'.up = "up" /\ daemon'.saved = None
      BY <2>3, <3>1
    <3>3. upsets' \in Nat /\ upsets' >= 1 /\ (daemon' = Standby(TRUE) \/ upsets' >= 2)
      <4>1. upsets' \in Nat /\ upsets' >= 1 /\ (upsets' = upsets + 1 => upsets' >= 2)
        BY <1>0, <2>2, <2>3
      <4> QED BY <2>3, <4>1
    <3>4. ~daemon'.gm => upsets' >= 2
      BY <3>1, <3>3
    <3>5. upsets' <= 1 => gmMode' # "measurement"
      BY <1>0, <2>2, <2>3
    <3> QED BY <3>2, <3>3, <3>4, <3>5
  <2>5. OneLive'
    BY <2>1, <2>2, <2>4 DEF OneLive, Over, Live, Entered, At
  <2>6. Counted' /\ Calm'
    BY <2>4 DEF Counted, Calm
  <2>7. Recovering'
    BY <1>0, <2>1, <2>2, <2>4 DEF Recovering
  <2> QED BY <2>5, <2>6, <2>7 DEF Modes
<1> QED BY <1>1, <1>2, <1>3 DEF Process

LEMMA ModesStep ==
  ASSUME SessionTypeOK, Courses, Modes, [SessionNext]_sessionVars
  PROVE  Modes'
<1>0. "measurement" \notin Mode /\ upsets \in 0..MaxUpsets /\ upsets \in Nat
  BY ModeTypes DEF SessionTypeOK
<1>1. ASSUME NEW s \in Session, Inside(s) PROVE Modes'
  BY <1>1, InsideModes
<1>2. ASSUME NEW s \in Session, Crossing(s) PROVE Modes'
  BY <1>2, StartModes, SwitchModes, EnterModes, LeaveModes, CloseModes DEF Crossing
<1>3. CASE Process
  BY <1>3, ProcessModes
<1>4. CASE UNCHANGED <<gmMode, home, daemon, ses>> /\ upsets' \in {upsets, upsets + 1}
  <2>1. OneLive'
    BY <1>4 DEF Modes, OneLive, Live, Entered, At
  <2>2. Counted' /\ Calm'
    BY <1>0, <1>4 DEF Modes, Counted, Calm, Live, Entered, At
  <2>3. Recovering'
    BY <1>0, <1>4 DEF Modes, Recovering, Finished, WillRestore, At
  <2> QED BY <2>1, <2>2, <2>3 DEF Modes
<1>5. ASSUME NEW mode \in Mode, OperatorMode(mode) PROVE Modes'
  <2>1. gmMode' # "measurement" /\ UNCHANGED <<daemon, ses>> /\ upsets' = upsets + 1
    BY <1>0, <1>5, CallCosts DEF OperatorMode
  <2>2. OneLive'
    BY <2>1 DEF Modes, OneLive, Live, Entered, Over, At
  <2>3. Counted' /\ Calm'
    BY <1>0, <2>1 DEF Modes, Counted, Calm
  <2>4. Recovering'
    BY <1>0, <2>1 DEF Modes, Recovering, Finished
  <2> QED BY <2>2, <2>3, <2>4 DEF Modes
<1>6. RestThread \/ SoundEnds \/ PipeWireRestart \/ UNCHANGED sessionVars =>
        UNCHANGED <<gmMode, home, daemon, ses>> /\ upsets' \in {upsets, upsets + 1}
  BY <1>0, CallCosts DEF RestThread, SoundEnds, PipeWireRestart, sessionVars
<1> QED BY <1>1, <1>2, <1>3, <1>4, <1>5, <1>6
        DEF SessionNext, Coroutine, Inside, Crossing, Outside

LEMMA ModesBegin == SessionInit => Modes
<1> SUFFICES ASSUME SessionInit PROVE Modes
  OBVIOUS
<1>1. /\ \A s \in Session : ses[s].at = "none" /\ ses[s].pre = None
      /\ gmMode = home /\ home \in Mode /\ upsets = 0
  BY DEF SessionInit, New
<1>2. daemon.up = "up" /\ daemon.gm /\ daemon.saved = None
  BY DEF SessionInit, Standby
<1>3. \A s \in Session : ~Live(s) /\ ~Entered(s) /\ ses[s].at \notin Switched
  BY <1>1 DEF Live, Entered, Switched
<1>4. "measurement" \notin Mode /\ None # "measurement"
  BY SessionAssumption DEF SessionAssumption
<1>5. OneLive
  BY <1>1, <1>2, <1>3 DEF OneLive, At
<1>6. Counted
  BY <1>2 DEF Counted
<1>7. Calm
  BY <1>1, <1>3 DEF Calm, At
<1>8. Recovering
  BY <1>1, <1>2, <1>4 DEF Recovering
<1> QED BY <1>5, <1>6, <1>7, <1>8 DEF Modes

LEMMA ModesHold == SessionSpec => []Modes
<1>1. (SessionTypeOK /\ Courses) /\ Modes /\ [SessionNext]_sessionVars => Modes'
  BY ModesStep
<1> QED BY Controlled, ModesBegin, <1>1, PTL DEF SessionSpec

(* However the sessions end, completed, aborted or in an error, GraphManager *)
(* is back in the operator's mode once they are over, provided that no call  *)
(* fails, nobody else changes the mode and no two sessions entered at once.  *)
THEOREM ModeComesBackHolds == SessionSpec => []ModeComesBack
<1>1. Modes => ModeComesBack
  <2>1. AllOver => \A s \in Session : ses[s].at \notin Switched
    BY DEF AllOver, Over, Switched
  <2> QED BY <2>1 DEF Modes, Calm, ModeComesBack
<1> QED BY ModesHold, <1>1, PTL

(* One failed call, stop or crash, wherever it falls, does not leave         *)
(* GraphManager in measurement mode once the sessions are over and the       *)
(* process lives, except after a completed session or overlapping starts.    *)
THEOREM NoOrphanHolds == SessionSpec => []NoOrphan
<1>1. Modes => NoOrphan
  <2>1. AllOver => \A s \in Session : ~WillRestore(s)
    BY DEF AllOver, Over, WillRestore, Switched, At
  <2>2. daemon.up = "up" => daemon.up # "down"
    OBVIOUS
  <2> QED BY <2>1, <2>2 DEF Modes, Recovering, NoOrphan, Finished, Finish
<1> QED BY ModesHold, <1>1, PTL

(* What a session that nobody aborted plays, a burst, a warm-up or a sweep,  *)
(* it plays in measurement mode, under the same conditions.                  *)
THEOREM PlaysInMeasurementModeHolds == SessionSpec => PlaysInMeasurementMode
<1>1. ASSUME SessionTypeOK, Courses, Modes, SessionNext, sound' \notin {sound, Quiet}, upsets = 0,
             ~daemon.overlap, ~ses[sound'.by].abort
      PROVE  gmMode = "measurement"
  <2>2. PICK s \in Session : Burst(s) \/ WarmUp(s) \/ PlaySweep(s)
    <3>1. ASSUME NEW s \in Session, Inside(s), ~(Burst(s) \/ WarmUp(s) \/ PlaySweep(s))
          PROVE  sound' = sound
      <4>1. PlayStep(s) \/ FilterStep(s) \/ WatchdogTimeout(s) \/ RequestAbort(s) \/ RestDeploy(s) =>
              sound' = sound
        BY <1>1, PlayFollows, FilterFollows, AskFollows
      <4>2. CheckMode(s) \/ Recorded(s) \/ GenerateThread(s) \/ DeployThread(s) => sound' = sound
        BY DEF CheckMode, Recorded, GenerateThread, DeployThread
      <4> QED BY <3>1, <4>1, <4>2 DEF Inside, ThreadStep
    <3>2. ASSUME NEW s \in Session, Crossing(s) PROVE sound' = sound
      BY <1>1, <3>2, CrossingStep
    <3>3. RestThread \/ Process \/ Outside => sound' \in {sound, Quiet}
      BY DEF RestThread, Process, Shutdown, Exit, Crash, Gone, Restart, Outside, SoundEnds,
             PipeWireRestart, OperatorMode
    <3> QED BY <1>1, <3>1, <3>2, <3>3 DEF SessionNext, Coroutine, Inside, Crossing
  <2>3. sound'.by = s /\ ses[s].thread \in {"calibrate", "warm", "roll"}
    <3>1. ASSUME NEW what, NEW level, sound' = [by |-> s, what |-> what, level |-> level]
          PROVE  sound'.by = s
      BY <3>1
    <3>2. sound' # sound
      BY <1>1
    <3>3. CASE Burst(s)
      BY <3>1, <3>2, <3>3 DEF Burst
    <3>4. CASE WarmUp(s) \/ PlaySweep(s)
      BY <3>1, <3>2, <3>4 DEF WarmUp, PlaySweep, Plays
    <3> QED BY <2>2, <3>3, <3>4
  <2>4. ses[s].thread \in Threads(ses[s].at)
    BY <1>1, <2>3 DEF Courses, Course
  <2>5. ses[s].at \in {"calibrating"} \union Sweeping
    BY <2>3, <2>4 DEF Threads, Past, Thread, Working, Ramping, Deploying, Sweeping
  <2>6. ses[s].at \in Switched
    BY <2>5 DEF Switched, Sweeping
  <2> QED BY <1>1, <2>6 DEF Modes, Calm
<1>2. (SessionTypeOK /\ Courses) /\ Modes /\ [SessionNext]_sessionVars =>
        [sound' \notin {sound, Quiet} /\ upsets = 0 /\ ~daemon.overlap /\ ~ses[sound'.by].abort
           => gmMode = "measurement"]_sessionVars
  BY <1>1
<1> QED BY Controlled, ModesHold, <1>2, PTL DEF SessionSpec, PlaysInMeasurementMode

================================================================================
