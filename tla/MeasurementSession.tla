-------------------------- MODULE MeasurementSession --------------------------
(***************************************************************************)
(* The measurement daemon inside the web UI: the mode manager              *)
(* (mode_manager.py), the requests of measurement/routes.py and the        *)
(* session that plays, records, generates and deploys                      *)
(* (measurement/session.py) through the signal generator                   *)
(* (PI4AUDIO_SIGGEN=1).  The coroutines share one event loop: a step runs  *)
(* from one await to the next.  What to_thread starts runs beside them,    *)
(* and goes on when nobody awaits it any more.                             *)
(***************************************************************************)
EXTENDS GainCalibration, Naturals, FiniteSets

CONSTANTS
  Session,     (* the sessions that requests may start                      *)
  None,
  Channels,    (* len(config.channels)                                      *)
  Positions,   (* config.positions                                          *)
  Ceiling,     (* thermal_ceiling_dbfs of each channel                      *)
  SweepLevel,  (* sweep_level_dbfs                                          *)
  Mode,        (* what the operator may choose                              *)
  MaxUpsets    (* bound: calls that fail, stops, crashes, mode changes       *)

ASSUME SessionAssumption ==
  /\ None \notin Session /\ Channels \in Nat \ {0} /\ Positions \in Nat \ {0}
  /\ Ceiling \in [1..Channels -> Int] /\ SweepLevel \in Int
  /\ "standby" \in Mode /\ None \notin Mode \union {"measurement"}
  /\ "measurement" \notin Mode /\ MaxUpsets \in Nat

VARIABLES
  gmMode,    (* GraphManager's mode                                         *)
  home,      (* the mode the operator chose last                            *)
  daemon,    (* the process and its mode manager                            *)
  ses,       (* the sessions                                                *)
  rest,      (* the sessions that a thread of a request deploys             *)
  chain,     (* the configuration on disk and the one the convolver loaded  *)
  sound,     (* what the signal generator plays                             *)
  upsets     (* failed calls, stops, crashes and mode changes so far       *)

sessionVars == <<gmMode, home, daemon, ses, rest, chain, sound, upsets>>

GmMode == Mode \union {"measurement"}

State == {"idle", "setup", "gain_cal", "measuring", "filter_gen", "deploy",
          "verify", "complete", "aborted", "error"}

Awaiting ==  (* where run() may be cancelled *)
  {"begun", "connecting", "querying", "switching", "settling", "undoing",
   "channel", "calibrating", "measure", "sweep", "sweeping", "interrupting",
   "generating", "generated", "deploying", "verify", "verifying", "completing"}

Telling ==  (* where it tells the pages how far it is *)
  {"connecting", "querying", "channel", "measure", "sweep", "generated", "verify",
   "completing"}

Working == {"check", "calibrate", "warm", "roll", "playing", "generate", "wavs", "conf"}

Thread == Working \union {"idle", "done", "raised", "aborted", "good", "bad"}

SessionRecord ==
  [at      : Awaiting \union {"none", "evicting", "entering", "stranded", "cleaning",
                             "leaving", "closing", "ended"},
   state   : State,
   abort   : BOOLEAN,                   (* abort_event                      *)
   pre     : GmMode \union {None},      (* _pre_measurement_gm_mode         *)
   gm      : BOOLEAN,                   (* _gm_client is not None           *)
   done    : Nat,                       (* channels or sweeps behind it     *)
   thread  : Thread,
   cal     : Calibration,
   filters : {"none", "good", "bad"},   (* _filter_gen_result               *)
   siggen  : BOOLEAN]                   (* the client's socket is open      *)

DaemonRecord ==
  [up      : {"up", "stopping", "down"},
   mode    : {"standby", "measurement"},
   active  : Session \union {None},     (* _measurement_session             *)
   last    : Session \union {None},     (* _last_completed_session          *)
   saved   : GmMode \union {None},      (* _pre_measurement_gm_mode         *)
   gm      : BOOLEAN,                   (* gm_available                     *)
   overlap : BOOLEAN]                   (* were two sessions entering?      *)

New == [at |-> "none", state |-> "idle", abort |-> FALSE, pre |-> None, gm |-> FALSE,
        done |-> 0, thread |-> "idle", cal |-> Begun, filters |-> "none", siggen |-> FALSE]

Standby(gm) == [up |-> "up", mode |-> "standby", active |-> None, last |-> None,
                saved |-> None, gm |-> gm, overlap |-> FALSE]

Quiet == [by |-> None, what |-> "silence", level |-> LoopbackFloor]

SessionInit ==
  /\ home \in Mode /\ gmMode = home
  /\ daemon = Standby(TRUE)
  /\ ses = [s \in Session |-> New]
  /\ rest = {}
  /\ chain = [conf |-> None, loaded |-> None]
  /\ sound = Quiet
  /\ upsets = 0

At(s, at) == ses[s].at = at

Goes(s, record) == ses' = [ses EXCEPT ![s] = record]

(* A call, or whatever else may go wrong. *)
Call(ok) == IF ok THEN UNCHANGED upsets ELSE upsets < MaxUpsets /\ upsets' = upsets + 1

(* A set_mode that fails may have had its effect. *)
SetMode(mode, ok) ==
  /\ gmMode' \in (IF ok THEN {mode} ELSE {mode, gmMode})
  /\ Call(ok)

(* `... or "standby"`. *)
ModeOr(mode) == IF mode = None THEN "standby" ELSE mode

(* Slip: a deployment may follow a deployment. *)
TransitionsAndAgain ==
  {<<"idle", "setup">>, <<"setup", "gain_cal">>, <<"gain_cal", "measuring">>,
   <<"measuring", "filter_gen">>, <<"filter_gen", "deploy">>, <<"deploy", "deploy">>,
   <<"deploy", "verify">>, <<"verify", "complete">>}

(* _TRANSITIONS, without those to aborted and error, which run() makes     *)
(* whether they are allowed or not.                                        *)
Transitions ==
  {<<"idle", "setup">>, <<"setup", "gain_cal">>, <<"gain_cal", "measuring">>,
   <<"measuring", "filter_gen">>, <<"filter_gen", "deploy">>, <<"deploy", "verify">>,
   <<"verify", "complete">>}

Erring(r) == [r EXCEPT !.state = "error", !.at = "cleaning"]

Aborted(r) == [r EXCEPT !.state = "aborted", !.at = "cleaning"]

(* _check_abort and _transition, one after the other. *)
Into(r, state, at) ==
  CASE r.abort                                       -> Aborted(r)
    [] ~r.abort /\ <<r.state, state>> \notin Transitions -> Erring(r)
    [] OTHER                                         -> [r EXCEPT !.state = state, !.at = at]

(* _check_abort, and a thread to wait for. *)
Started(r, at, thread) ==
  IF r.abort THEN Aborted(r) ELSE [r EXCEPT !.at = at, !.thread = thread]

IntoThread(r, state, at, thread) ==
  LET into == Into(r, state, at) IN
  IF into.at = at THEN [into EXCEPT !.thread = thread] ELSE into

--------------------------------------------------------------------------------
(* Requests, and the mode manager. *)

(* POST /start, up to the half second it gives the proxy of the test page  *)
(* to leave the signal generator.                                          *)
Start(s) ==
  /\ daemon.up = "up" /\ daemon.mode = "standby" /\ At(s, "none")
  /\ Goes(s, [New EXCEPT !.at = "evicting"])
  /\ UNCHANGED <<gmMode, home, daemon, rest, chain, sound, upsets>>

Entering == {s \in Session : At(s, "entering")}

(* The signal generator is connected to, and the mode looked at again;     *)
(* nothing keeps a second session from passing before the first has        *)
(* GraphManager's answer and changes the mode.                             *)
Claim(s) ==
  /\ At(s, "evicting")
  /\ \/ daemon.mode = "measurement" /\ Goes(s, New) /\ UNCHANGED <<daemon, upsets>>
     \/ Call(FALSE) /\ Goes(s, New) /\ UNCHANGED daemon
     \/ /\ daemon.mode = "standby"
        /\ Goes(s, [New EXCEPT !.at = "entering", !.siggen = TRUE])
        /\ daemon' = [daemon EXCEPT !.overlap = @ \/ Entering # {}]
        /\ UNCHANGED upsets
  /\ UNCHANGED <<gmMode, home, rest, chain, sound>>

(* enter_measurement_mode, from GraphManager's answer on.  The mode has    *)
(* changed when the pages are told, which fails when one comes or goes     *)
(* meanwhile; then the request fails, nobody creates the session's task,   *)
(* and nobody leaves measurement mode.                                     *)
Enter(s) ==
  /\ At(s, "entering")
  /\ \E ok \in {daemon.gm, FALSE}, told \in BOOLEAN :
       /\ Call(told /\ ok = daemon.gm)
       /\ daemon' = [daemon EXCEPT !.mode = "measurement", !.active = s, !.last = None,
                                   !.saved = IF ok THEN gmMode ELSE "standby"]
       /\ Goes(s, [ses[s] EXCEPT !.at = IF told THEN "begun" ELSE "stranded"])
  /\ UNCHANGED <<gmMode, home, rest, chain, sound>>

(* POST /abort finds the active session only. *)
RequestAbort(s) ==
  /\ daemon.up = "up" /\ daemon.active = s /\ ~ses[s].abort
  /\ Goes(s, [ses[s] EXCEPT !.abort = TRUE])
  /\ UNCHANGED <<gmMode, home, daemon, rest, chain, sound, upsets>>

(* Thirty seconds without a broadcast. *)
WatchdogTimeout(s) ==
  /\ ses[s].at \in Awaiting \ {"begun"} /\ ~ses[s].abort
  /\ Goes(s, [ses[s] EXCEPT !.abort = TRUE])
  /\ UNCHANGED <<gmMode, home, daemon, rest, chain, sound, upsets>>

(* POST /deploy: _run_deploy again, in a coroutine of the request.  A      *)
(* session whose state forbids it answers with an error.                   *)
RestDeploy(s) ==
  /\ daemon.up = "up" /\ s \in {daemon.active, daemon.last}
  /\ ses[s].filters = "good"
  /\ ~ses[s].abort /\ <<ses[s].state, "deploy">> \in Transitions
  /\ Goes(s, [ses[s] EXCEPT !.state = "deploy"])
  /\ rest' = rest \union {s}
  /\ UNCHANGED <<gmMode, home, daemon, chain, sound, upsets>>

(* Slip: a session that ends in an error keeps the daemon. *)
StandbyUnlessError(s) ==
  IF ses[s].state = "error"
    THEN daemon
    ELSE [daemon EXCEPT !.mode = "standby", !.active = None, !.last = s, !.saved = None]

(* The end of enter_standby_mode. *)
InStandby(s) ==
  [daemon EXCEPT !.mode = "standby", !.active = None, !.last = s, !.saved = None]

(* _run_session_lifecycle after run(): every way out of it is terminal.    *)
(* After COMPLETE the mode is left to what the session did itself.  The    *)
(* pages are told that the daemon is in standby mode.                      *)
Leave(s) ==
  /\ At(s, "leaving")
  /\ IF daemon.active = s
       THEN /\ IF ses[s].state # "complete" /\ daemon.gm
                 THEN \E ok \in BOOLEAN : SetMode(ModeOr(daemon.saved), ok)
                 ELSE UNCHANGED <<gmMode, upsets>>
            /\ daemon' = InStandby(s)
       ELSE UNCHANGED <<gmMode, daemon, upsets>>
  /\ Goes(s, [ses[s] EXCEPT !.at = "closing"])
  /\ UNCHANGED <<home, rest, chain, sound>>

(* When they cannot be told, the client of the signal generator stays open. *)
Close(s) ==
  /\ At(s, "closing")
  /\ \E told \in BOOLEAN :
       /\ Call(told)
       /\ Goes(s, [ses[s] EXCEPT !.at = "ended", !.siggen = @ /\ ~told])
  /\ UNCHANGED <<gmMode, home, daemon, rest, chain, sound>>

--------------------------------------------------------------------------------
(* The session: entering measurement mode. *)

(* run() begins, in state SETUP. *)
Begin(s) ==
  /\ At(s, "begun")
  /\ Goes(s, [ses[s] EXCEPT !.state = "setup", !.at = "connecting"])
  /\ UNCHANGED <<gmMode, home, daemon, rest, chain, sound, upsets>>

(* A broadcast fails, which is an error like every other; in state SETUP   *)
(* the connection may have been made before.                               *)
BroadcastFails(s) ==
  /\ ses[s].at \in Telling /\ Call(FALSE)
  /\ \E gm \in {ses[s].gm, ses[s].gm \/ At(s, "connecting")} :
       Goes(s, Erring([ses[s] EXCEPT !.gm = gm]))
  /\ UNCHANGED <<gmMode, home, daemon, rest, chain, sound>>

(* Without a connection the session goes on, and leaves the mode alone. *)
Connect(s) ==
  /\ At(s, "connecting")
  /\ \E ok \in BOOLEAN :
       /\ Call(ok)
       /\ Goes(s, [ses[s] EXCEPT !.gm = ok, !.state = "gain_cal",
                                 !.at = IF ok THEN "querying" ELSE "channel"])
  /\ UNCHANGED <<gmMode, home, daemon, rest, chain, sound>>

(* Slip: what is restored is standby, whatever there was. *)
SavedAsStandby(s, ok) == "standby"

SavedMode(s, ok) == IF ok THEN gmMode ELSE "standby"

Query(s) ==
  /\ At(s, "querying")
  /\ \E ok \in BOOLEAN :
       /\ Call(ok)
       /\ Goes(s, [ses[s] EXCEPT !.pre = SavedMode(s, ok), !.at = "switching"])
  /\ UNCHANGED <<gmMode, home, daemon, rest, chain, sound>>

Switch(s) ==
  /\ At(s, "switching")
  /\ \E ok \in BOOLEAN :
       /\ SetMode("measurement", ok)
       /\ Goes(s, [ses[s] EXCEPT !.at = IF ok THEN "settling" ELSE "undoing"])
  /\ UNCHANGED <<home, daemon, rest, chain, sound>>

(* await_settled answers, or says that it timed out. *)
Settle(s) ==
  /\ At(s, "settling")
  /\ \E ok \in BOOLEAN :
       /\ Call(ok)
       /\ Goes(s, [ses[s] EXCEPT !.at = IF ok THEN "channel" ELSE "undoing"])
  /\ UNCHANGED <<gmMode, home, daemon, rest, chain, sound>>

(* The mode is set back, failing or not, and the error raised again. *)
Undo(s) ==
  /\ At(s, "undoing")
  /\ \E ok \in BOOLEAN : SetMode(ModeOr(ses[s].pre), ok)
  /\ Goes(s, Erring(ses[s]))
  /\ UNCHANGED <<home, daemon, rest, chain, sound>>

--------------------------------------------------------------------------------
(* The session: gain calibration, channel by channel. *)

Channel(s) == (ses[s].done % Channels) + 1

Calibrate(s) ==
  /\ At(s, "channel")
  /\ Goes(s, Started([ses[s] EXCEPT !.cal = Begun], "calibrating", "check"))
  /\ UNCHANGED <<gmMode, home, daemon, rest, chain, sound, upsets>>

(* GC-07: the thread asks GraphManager for its mode. *)
CheckMode(s) ==
  /\ ses[s].thread = "check"
  /\ \E ok \in IF ses[s].gm THEN BOOLEAN ELSE {TRUE} :
       LET refused == ses[s].gm /\ ~(ok /\ gmMode = "measurement") IN
       /\ Call(ok)
       /\ Goes(s, [ses[s] EXCEPT !.thread = IF refused \/ ~Calibrating(ses[s].cal)
                                             THEN "raised" ELSE "calibrate"])
  /\ UNCHANGED <<gmMode, home, daemon, rest, chain, sound>>

(* Does the signal generator play?  Not with the client closed, and not    *)
(* necessarily when another client is connected, as it serves one at a     *)
(* time.                                                                   *)
Reached(s) ==
  {ses[s].siggen} \union (IF \E t \in Session \ {s} : ses[t].siggen THEN {FALSE} ELSE {})

(* One burst, and what calibrate_channel makes of what it hears. *)
Burst(s) ==
  /\ ses[s].thread = "calibrate"
  /\ \/ /\ FALSE \in Reached(s)
        /\ Goes(s, [ses[s] EXCEPT !.thread = "raised"])
        /\ UNCHANGED sound
     \/ /\ TRUE \in Reached(s)
        /\ \E heard \in Heard :
             LET c == CalibrationStep(ses[s].cal, Ceiling[Channel(s)], ses[s].abort, heard) IN
             /\ Goes(s, [ses[s] EXCEPT !.cal = c,
                                       !.thread = IF Calibrating(c) THEN @ ELSE "done"])
             /\ sound' = IF Halted(ses[s].cal, ses[s].abort)
                           THEN sound
                           ELSE [by |-> s, what |-> "burst", level |-> c.played]
  /\ UNCHANGED <<gmMode, home, daemon, rest, chain, upsets>>

(* The next channel, or the sweeps.  A result that did not pass is an      *)
(* abort when one was asked for.                                           *)
Calibrated(s) ==
  /\ At(s, "calibrating") /\ ses[s].thread \in {"done", "raised"}
  /\ LET r    == [ses[s] EXCEPT !.thread = "idle", !.cal = Begun]
         last == ses[s].done + 1 = Channels
     IN  Goes(s,
           CASE ses[s].thread = "done" /\ ses[s].cal.at = "passed" ->
                  [r EXCEPT !.done = IF last THEN 0 ELSE @ + 1,
                            !.at = IF last THEN "measure" ELSE "channel"]
             [] ses[s].thread = "done" /\ ses[s].cal.at = "failed" /\ ses[s].abort ->
                  Aborted(r)
             [] OTHER -> Erring(r))
  /\ UNCHANGED <<gmMode, home, daemon, rest, chain, sound, upsets>>

--------------------------------------------------------------------------------
(* The session: sweeps. *)

(* The level is held against the highest of the ceilings. *)
SweepLevelAllowed == \E ch \in 1..Channels : SweepLevel <= Ceiling[ch]

(* M-2: GraphManager is asked once more; that it cannot be asked is only   *)
(* logged.                                                                 *)
Measure(s) ==
  /\ At(s, "measure")
  /\ \E ok \in IF ses[s].gm THEN BOOLEAN ELSE {TRUE} :
       /\ Call(ok)
       /\ Goes(s, IF SweepLevelAllowed /\ (ses[s].gm /\ ok => gmMode = "measurement")
                    THEN [ses[s] EXCEPT !.state = "measuring", !.at = "sweep"]
                    ELSE Erring(ses[s]))
  /\ UNCHANGED <<gmMode, home, daemon, rest, chain, sound>>

Sweep(s) ==
  /\ At(s, "sweep")
  /\ Goes(s, Started(ses[s], "sweeping", "warm"))
  /\ UNCHANGED <<gmMode, home, daemon, rest, chain, sound, upsets>>

(* _play_and_record_pw_capture: a burst to warm the loopback, the capture, *)
(* and then the sweep itself; neither play looks at the abort.             *)
Plays(s, from, to, what, level) ==
  /\ ses[s].thread = from
  /\ \/ /\ TRUE \in Reached(s)
        /\ Goes(s, [ses[s] EXCEPT !.thread = to])
        /\ sound' = [by |-> s, what |-> what, level |-> level]
     \/ /\ FALSE \in Reached(s)
        /\ Goes(s, [ses[s] EXCEPT !.thread = "raised"])
        /\ UNCHANGED sound
  /\ UNCHANGED <<gmMode, home, daemon, rest, chain, upsets>>

WarmUp(s) == Plays(s, "warm", "roll", "warmup", LoopbackFloor)

PlaySweep(s) == Plays(s, "roll", "playing", "sweep", SweepLevel)

(* pw-record, or loading what it wrote, may fail. *)
Recorded(s) ==
  /\ \/ ses[s].thread = "playing" /\ Call(TRUE)
            /\ Goes(s, [ses[s] EXCEPT !.thread = "done"])
     \/ ses[s].thread \in {"roll", "playing"} /\ Call(FALSE)
            /\ Goes(s, [ses[s] EXCEPT !.thread = "raised"])
  /\ UNCHANGED <<gmMode, home, daemon, rest, chain, sound>>

Sweeping == {"sweeping", "verifying"}

(* The integrity checks, and the deconvolution in a thread, may fail.      *)
Swept(s) ==
  /\ At(s, "sweeping") /\ ses[s].thread \in {"done", "raised"} /\ ~ses[s].abort
  /\ \E ok \in {ses[s].thread = "done", FALSE} :
       LET r    == [ses[s] EXCEPT !.thread = "idle"]
           last == ses[s].done + 1 = Channels * Positions
       IN  /\ IF ses[s].thread = "done" THEN Call(ok) ELSE UNCHANGED upsets
           /\ Goes(s, CASE ~ok          -> Erring(r)
                        [] ok /\ ~last  -> [r EXCEPT !.at = "sweep", !.done = @ + 1]
                        [] OTHER        -> IntoThread([r EXCEPT !.done = 0], "filter_gen",
                                                   "generating", "generate"))
  /\ UNCHANGED <<gmMode, home, daemon, rest, chain, sound>>

(* CP-0: the abort wins the race, also against a thread that is done.  The *)
(* client of the signal generator has no abort(), so _sd_abort does        *)
(* nothing; the thread is given two seconds.                               *)
SweepAborted(s) ==
  /\ ses[s].at \in Sweeping /\ ses[s].abort
  /\ Goes(s, [ses[s] EXCEPT !.at = "interrupting"])
  /\ UNCHANGED <<gmMode, home, daemon, rest, chain, sound, upsets>>

Forget(r) == IF r.thread \in Working THEN r ELSE [r EXCEPT !.thread = "idle"]

(* The _AbortError.  The verification takes it for a sweep that failed.    *)
Interrupted(s) ==
  /\ At(s, "interrupting")
  /\ LET r == Forget(ses[s]) IN
       Goes(s, IF r.state = "verify"
                 THEN [r EXCEPT !.at = "verify", !.done = @ + 1]
                 ELSE Aborted(r))
  /\ UNCHANGED <<gmMode, home, daemon, rest, chain, sound, upsets>>

--------------------------------------------------------------------------------
(* The session: filters. *)

(* _filter_gen_sync looks at the abort as it goes. *)
GenerateThread(s) ==
  /\ ses[s].thread = "generate"
  /\ \/ ses[s].abort /\ Goes(s, [ses[s] EXCEPT !.thread = "aborted"])
     \/ \E end \in {"good", "bad", "raised"} : Goes(s, [ses[s] EXCEPT !.thread = end])
  /\ UNCHANGED <<gmMode, home, daemon, rest, chain, sound, upsets>>

(* The result is kept, then awaits a broadcast. *)
Generated(s) ==
  /\ At(s, "generating") /\ ses[s].thread \notin Working
  /\ LET r == [ses[s] EXCEPT !.thread = "idle"] IN
       Goes(s, CASE ses[s].thread \in {"good", "bad"} ->
                      [r EXCEPT !.filters = ses[s].thread, !.at = "generated"]
                 [] ses[s].thread = "aborted" -> Aborted(r)
                 [] OTHER -> Erring(r))
  /\ UNCHANGED <<gmMode, home, daemon, rest, chain, sound, upsets>>

(* Filters that failed their verification are refused. *)
Deploy(s) ==
  /\ At(s, "generated")
  /\ Goes(s, IF ses[s].filters = "bad"
               THEN Erring(ses[s])
               ELSE IntoThread(ses[s], "deploy", "deploying", "wavs"))
  /\ UNCHANGED <<gmMode, home, daemon, rest, chain, sound, upsets>>

(* _deploy_sync.  deploy_filters looks for the names without a timestamp,  *)
(* which no session writes, so that nothing is copied and the convolver    *)
(* not reloaded; the configuration names the files in the output           *)
(* directory.                                                              *)
DeployConf(s) == chain' = [chain EXCEPT !.conf = s]

DeployThread(s) ==
  /\ ses[s].thread \in {"wavs", "conf"}
  /\ \/ /\ ses[s].abort
        /\ Goes(s, [ses[s] EXCEPT !.thread = "aborted"])
        /\ UNCHANGED <<chain, upsets>>
     \/ /\ ~ses[s].abort
        /\ ses[s].thread = "wavs"
        /\ Goes(s, [ses[s] EXCEPT !.thread = "conf"])
        /\ UNCHANGED <<chain, upsets>>
     \/ /\ ses[s].thread = "conf"
        /\ Goes(s, [ses[s] EXCEPT !.thread = "done"])
        /\ DeployConf(s)
        /\ UNCHANGED upsets
     \/ /\ Call(FALSE)
        /\ Goes(s, [ses[s] EXCEPT !.thread = "raised"])
        /\ UNCHANGED chain
  /\ UNCHANGED <<gmMode, home, daemon, rest, sound>>

RestThread ==
  /\ \E s \in rest :
       /\ \/ Call(TRUE) /\ IF ses[s].abort THEN UNCHANGED chain ELSE DeployConf(s)
          \/ Call(FALSE) /\ UNCHANGED chain
       /\ rest' = rest \ {s}
  /\ UNCHANGED <<gmMode, home, daemon, ses, sound>>

(* Slip: the production mode is restored as soon as the filters are there. *)
DeployedAndRestored(s) ==
  /\ At(s, "deploying") /\ ses[s].thread \notin Working
  /\ Goes(s, Into([ses[s] EXCEPT !.thread = "idle", !.done = 0], "verify", "verify"))
  /\ gmMode' = ModeOr(ses[s].pre)
  /\ UNCHANGED <<home, daemon, rest, chain, sound, upsets>>

Deployed(s) ==
  /\ At(s, "deploying") /\ ses[s].thread \notin Working
  /\ LET r == [ses[s] EXCEPT !.thread = "idle", !.done = 0] IN
       Goes(s, CASE ses[s].thread = "aborted" -> Aborted(r)
                 [] ses[s].thread = "raised"  -> Erring(r)
                 [] OTHER                     -> Into(r, "verify", "verify"))
  /\ UNCHANGED <<gmMode, home, daemon, rest, chain, sound, upsets>>

(* A sweep per channel; after the last the session is complete, and says   *)
(* so before it cleans up.                                                 *)
Verify(s) ==
  /\ At(s, "verify")
  /\ Goes(s, IF ses[s].done = Channels
               THEN [ses[s] EXCEPT !.state = "complete", !.at = "completing"]
               ELSE Started(ses[s], "verifying", "warm"))
  /\ UNCHANGED <<gmMode, home, daemon, rest, chain, sound, upsets>>

Verified(s) ==
  /\ At(s, "verifying") /\ ses[s].thread \in {"done", "raised"} /\ ~ses[s].abort
  /\ Goes(s, [ses[s] EXCEPT !.thread = "idle", !.at = "verify", !.done = @ + 1])
  /\ UNCHANGED <<gmMode, home, daemon, rest, chain, sound, upsets>>

Complete(s) ==
  /\ At(s, "completing")
  /\ Goes(s, [ses[s] EXCEPT !.at = "cleaning"])
  /\ UNCHANGED <<gmMode, home, daemon, rest, chain, sound, upsets>>

(* Slip: after an error the mode is left alone. *)
CleanUnlessError(s) ==
  /\ At(s, "cleaning")
  /\ IF ses[s].gm /\ ses[s].state # "error"
       THEN \E ok \in BOOLEAN : SetMode(ModeOr(ses[s].pre), ok)
       ELSE UNCHANGED <<gmMode, upsets>>
  /\ Goes(s, [ses[s] EXCEPT !.gm = FALSE, !.at = "leaving"])
  /\ UNCHANGED <<home, daemon, rest, chain, sound>>

(* _cleanup; that the last broadcasts or the call itself fail is logged,   *)
(* and the mode then not restored.                                         *)
Clean(s) ==
  /\ At(s, "cleaning")
  /\ IF ses[s].gm
       THEN \E ok \in BOOLEAN : SetMode(ModeOr(ses[s].pre), ok)
       ELSE UNCHANGED <<gmMode, upsets>>
  /\ Goes(s, [ses[s] EXCEPT !.gm = FALSE, !.at = "leaving"])
  /\ UNCHANGED <<home, daemon, rest, chain, sound>>

--------------------------------------------------------------------------------
(* The process, and what is outside. *)

(* A burst has a duration, and so has a sweep. *)
SoundEnds ==
  /\ sound # Quiet /\ sound' = Quiet
  /\ UNCHANGED <<gmMode, home, daemon, ses, rest, chain, upsets>>

OperatorMode(mode) ==
  /\ mode # gmMode /\ Call(FALSE)
  /\ gmMode' = mode /\ home' = mode
  /\ UNCHANGED <<daemon, ses, rest, chain, sound>>

(* Only a new convolver reads the configuration. *)
PipeWireRestart ==
  /\ chain.loaded # chain.conf /\ chain' = [chain EXCEPT !.loaded = chain.conf]
  /\ UNCHANGED <<gmMode, home, daemon, ses, rest, sound, upsets>>

(* CancelledError at whichever await the session is in: run() treats it as *)
(* an abort, _cleanup and the lifecycle give up; a thread goes on.         *)
Cancelled(r) ==
  CASE r.at \in Awaiting   -> [Aborted(r) EXCEPT !.abort = TRUE]
    [] r.at = "cleaning"   -> [r EXCEPT !.abort = TRUE, !.at = "leaving"]
    [] r.at \in {"leaving", "closing"} -> [r EXCEPT !.abort = TRUE, !.at = "ended"]
    [] OTHER               -> r

(* No request is under way any more, and the tasks are cancelled: that of  *)
(* the last session started by lifespan, another one by asyncio.run.       *)
Shutdown ==
  /\ daemon.up = "up" /\ Call(FALSE)
  /\ \A s \in Session : ses[s].at \notin {"evicting", "entering"}
  /\ daemon' = [daemon EXCEPT !.up = "stopping"]
  /\ ses' = [s \in Session |-> Cancelled(ses[s])]
  /\ UNCHANGED <<gmMode, home, rest, chain, sound>>

(* No coroutine of it is left. *)
Over(s) == ses[s].at \in {"none", "stranded", "ended"}

(* The process is gone, and every session with it. *)
Gone ==
  /\ daemon' = [Standby(TRUE) EXCEPT !.up = "down"]
  /\ ses' = [s \in Session |->
               IF At(s, "none") THEN New ELSE [New EXCEPT !.at = "ended"]]
  /\ rest' = {}
  /\ UNCHANGED <<gmMode, home, chain, sound>>

Exit == daemon.up = "stopping" /\ (\A s \in Session : Over(s)) /\ UNCHANGED upsets /\ Gone

Crash == daemon.up # "down" /\ Call(FALSE) /\ Gone

(* check_and_recover_gm_state, before requests are accepted. *)
Restart ==
  /\ daemon.up = "down"
  /\ \/ gmMode = "measurement" /\ \E ok \in BOOLEAN : SetMode("standby", ok)
          /\ daemon' = Standby(TRUE)
     \/ gmMode # "measurement" /\ Call(TRUE) /\ UNCHANGED gmMode
          /\ daemon' = Standby(TRUE)
     \/ Call(FALSE) /\ UNCHANGED gmMode
          /\ daemon' = Standby(FALSE)
  /\ UNCHANGED <<home, ses, rest, chain, sound>>

--------------------------------------------------------------------------------
EnterStep(s) == Begin(s) \/ Connect(s) \/ Query(s) \/ Switch(s) \/ Settle(s) \/ Undo(s)

PlayStep(s) ==
  \/ Calibrate(s) \/ Calibrated(s) \/ Measure(s) \/ Sweep(s) \/ Swept(s)
  \/ SweepAborted(s) \/ Interrupted(s) \/ Verify(s) \/ Verified(s) \/ Complete(s)

FilterStep(s) == Generated(s) \/ Deploy(s) \/ Deployed(s)

Coroutine(s) ==
  \/ Claim(s) \/ Enter(s) \/ EnterStep(s) \/ PlayStep(s) \/ FilterStep(s)
  \/ BroadcastFails(s) \/ Clean(s) \/ Leave(s) \/ Close(s)

ThreadStep(s) ==
  \/ CheckMode(s) \/ Burst(s) \/ WarmUp(s) \/ PlaySweep(s) \/ Recorded(s)
  \/ GenerateThread(s) \/ DeployThread(s)

Process == Shutdown \/ Exit \/ Crash \/ Restart

Outside == SoundEnds \/ PipeWireRestart \/ \E mode \in Mode : OperatorMode(mode)

SessionNext ==
  \/ \E s \in Session :
       \/ Coroutine(s) \/ ThreadStep(s)
       \/ WatchdogTimeout(s)
       \/ Start(s) \/ RequestAbort(s) \/ RestDeploy(s)
  \/ RestThread
  \/ Process
  \/ Outside

(* The event loop resumes what can be resumed, and threads end: every call *)
(* has a timeout and every burst a duration.  Nothing else need happen.    *)
SessionFairness ==
  /\ \A s \in Session : WF_sessionVars(Coroutine(s)) /\ WF_sessionVars(ThreadStep(s))
  /\ WF_sessionVars(RestThread)
  /\ WF_sessionVars(Exit)

SessionSpec == SessionInit /\ [][SessionNext]_sessionVars /\ SessionFairness

--------------------------------------------------------------------------------
SessionTypeOK ==
  /\ gmMode \in GmMode /\ home \in Mode
  /\ daemon \in DaemonRecord
  /\ ses \in [Session -> SessionRecord]
  /\ rest \subseteq Session
  /\ chain \in [conf : Session \union {None}, loaded : Session \union {None}]
  /\ sound \in [by : Session \union {None},
                what : {"silence", "burst", "warmup", "sweep"}, level : Int]
  /\ upsets \in 0..MaxUpsets

AllOver == \A s \in Session : Over(s)

(* session.py, F-160: "GM mode saved before entering measurement, restored *)
(* on cleanup."  However a session ends, completed or after an abort, a    *)
(* watchdog timeout or an error of its own, GraphManager is back in the    *)
(* mode that the operator chose, provided that the calls to it succeed,    *)
(* the process lives on and no two sessions were entering at once.         *)
ModeComesBack == AllOver /\ upsets = 0 /\ ~daemon.overlap => gmMode = home

(* mode_manager.py: "performs startup recovery when the GraphManager is    *)
(* found in an orphaned measurement routing mode."  One failed call, stop  *)
(* or crash, wherever it falls, does not leave GraphManager in measurement *)
(* mode: cleanup, lifecycle and recovery stand in for each other.  The     *)
(* exception is a completed session, for which only the cleanup tries, and *)
(* two sessions that were entering at once.                                *)
NoOrphan ==
  AllOver /\ daemon.up = "up" /\ upsets <= 1 /\ ~daemon.overlap /\ gmMode = "measurement" =>
    \E s \in Session : ses[s].state = "complete"

(* session.py, GC-07 and M-2: until it is aborted a session plays in       *)
(* measurement mode only, if its calls succeed, nobody else changes the    *)
(* mode and no other session was entering with it.                         *)
PlaysInMeasurementMode ==
  [][sound' \notin {sound, Quiet} /\ upsets = 0 /\ ~daemon.overlap /\ ~ses[sound'.by].abort
       => gmMode = "measurement"]_sessionVars

(* routes.py, /deploy: a deployment asked for over HTTP and the session's  *)
(* own never write at the same time.                                       *)
OneDeployment ==
  \A s \in Session : ses[s].thread \in {"wavs", "conf"} => s \notin rest

(* gain_calibration.py: "Maximum step size hard-capped at 3 dB in code."   *)
(* From one burst of a channel's ramp to the next, repeated or verifying   *)
(* ones included, the level rises by no more.                              *)
RampIsGradual ==
  [][\A s \in Session :
       ses[s].cal # Begun /\ ses'[s].cal # Begun
         => ses'[s].cal.played <= ses[s].cal.played + MaxStep]_sessionVars

(* A level that is taken over was played and heard, at no more than the    *)
(* target, and is not above the channel's ceiling.                         *)
PassedWasHeard ==
  \A s \in Session :
    LET c == ses[s].cal IN
    c.at = "passed" =>
      /\ c.spl <= Target + Tolerance
      /\ c.played = Most(c.level, LoopbackFloor)
      /\ c.level <= Ceiling[Channel(s)]

(* Every session that begins ends, and the daemon leaves measurement mode, *)
(* whoever failed or was lost on the way.  It stays in it only when it     *)
(* could not tell the pages that it had entered it.                        *)
SessionsEnd ==
  /\ \A s \in Session : At(s, "begun") ~> At(s, "ended") /\ daemon.active # s
  /\ daemon.mode = "measurement" ~>
       daemon.mode = "standby" \/ \E s \in Session : daemon.active = s /\ At(s, "stranded")

================================================================================
