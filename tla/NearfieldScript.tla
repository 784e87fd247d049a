--------------------------- MODULE NearfieldScript ---------------------------
(***************************************************************************)
(* The near-field measurement (room-correction/measure_nearfield.py), a    *)
(* program of its own: it notes GraphManager's mode, enters measurement    *)
(* mode, plays noise and sweeps, and puts the mode back, also after an     *)
(* exception or Ctrl-C.                                                    *)
(*                                                                         *)
(* It also looks for the nodes of the convolver's gains, which pw-dump     *)
(* does not list as nodes (web-ui/app/pw_helpers.py:14), warns, and goes   *)
(* on, so no gain is set.  What it computes from a recording, its reports  *)
(* and its mock mode are left out.                                         *)
(***************************************************************************)
EXTENDS GmConnections

CONSTANTS
  Blocks,       (* calibration blocks                                       *)
  MaxTries,     (* MAX_XRUN_RETRIES                                         *)
  MaxRuns       (* bound: how often the program is started                  *)

ASSUME NearfieldAssumption ==
  /\ "script" \in Client
  /\ None \notin {"0", "1", "2", "killed", "refused"}
  /\ Blocks \in Nat \ {0}
  /\ MaxTries \in Nat \ {0}

VARIABLES
  script,       (* the program                                              *)
  runs          (* how often it was started                                 *)

scriptVars == <<script, runs>>

Me == "script"

(* Where main stands: the statement it executes next.                      *)
Trying == {"connect", "get_mode", "enter", "verify", "gains", "calibrate", "sweep", "save"}
Ending == {"restore", "set_back"}

Off(code) ==
  [at |-> "off", previous |-> None, left |-> Blocks, peak |-> 0, attempt |-> 1,
   success |-> FALSE, exit |-> code]

ScriptInit ==
  /\ script = Off(None)
  /\ runs = 0

(* What the phases count is theirs alone.                                  *)
Go(at) ==
  script' = [script EXCEPT !.at = at, !.left = Blocks, !.peak = 0, !.attempt = 1]

-----------------------------------------------------------------------------

(* run_preflight_checks: the web UI, Mixxx and Reaper stopped, the signal   *)
(* generator and PipeWire there; what cannot be looked up counts as right. *)
Lookup == {"right", "wrong", "unknown"}
Stopped(programs) == programs # "wrong"
Reachable(services) == services # "wrong"

Preflight(programs, services) == Stopped(programs) /\ Reachable(services) /\ gmUp

(* main, to where it connects: a level above the cap, a missing device, a  *)
(* failed check (unless checks are skipped) and a profile without the      *)
(* channel end it; a channel without a high-pass is only warned about.     *)
ScriptStart ==
  /\ script.at = "off"
  /\ runs < MaxRuns
  /\ runs' = runs + 1
  /\ \E programs, services, profile \in Lookup, usable, skip \in BOOLEAN :
       script' = IF /\ usable
                    /\ skip \/ Preflight(programs, services)
                    /\ profile # "wrong"
                   THEN [Off(None) EXCEPT !.at = "connect"]
                   ELSE Off("refused")
  /\ others' = [others EXCEPT ![Me] = FALSE]
  /\ late' = Disowned(Me)
  /\ UNCHANGED <<gmUp, mode, gateOpen, venue, conn, crashes>>

ScriptConnect ==
  /\ script.at = "connect"
  /\ IF gmUp
       THEN conn' = Connected(Me) /\ Go("get_mode")
       ELSE conn' = conn /\ Go("restore")
  /\ UNCHANGED <<runs, gmUp, mode, gateOpen, venue, late, others, crashes>>

GetState == [cmd |-> "get_state"]
SetMode(m) == [cmd |-> "set_mode", mode |-> m]

RestoreMode == IF script.previous = None THEN "standby" ELSE script.previous

Request ==
  CASE script.at \in {"get_mode", "verify"} -> GetState
    [] script.at = "enter" -> SetMode("measurement")
    [] script.at = "set_back" ->
         SetMode(RestoreMode)

ScriptAsk ==
  /\ script.at \in {"get_mode", "enter", "verify", "set_back"}
  /\ Free(Me)
  /\ conn' = Asking(Me, Request)
  /\ UNCHANGED <<scriptVars, gmUp, mode, gateOpen, venue, late, others, crashes>>

ExitCode == IF script.success THEN "0" ELSE "1"

(* sys.exit, after gm_client.close.                                        *)
Exit(code) ==
  /\ script' = [Off(code) EXCEPT !.previous = script.previous]
  /\ conn' = [conn EXCEPT ![Me] = Closed]
  /\ late' = Left(Me)

ModeKnown ==
  /\ script.at = "get_mode"
  /\ script' = [script EXCEPT !.at = "enter", !.previous = Answer(Me).mode]

Entered == script.at = "enter" /\ Go("verify")

(* A slip: whatever the answer says. *)
VerifiedByAnswer == script.at = "verify" /\ Go("gains")

Verified ==
  /\ script.at = "verify"
  /\ Go(IF Answer(Me).mode = "measurement" THEN "gains" ELSE "restore")

ScriptTakesAnswer ==
  /\ ~Free(Me)
  /\ Answered(Me)
  /\ \/ (ModeKnown \/ Entered \/ Verified) /\ conn' = Taken(Me) /\ late' = late
     \/ script.at = "set_back" /\ Exit(ExitCode)
  /\ UNCHANGED <<runs, gmUp, mode, gateOpen, venue, others, crashes>>

(* No answer in time, or the connection is closed: an exception.           *)
ScriptGivesUp ==
  /\ ~Free(Me)
  /\ IF script.at = "set_back"
       THEN Exit("2")
       ELSE Go("restore") /\ conn' = GivenUp(Me) /\ late' = late
  /\ UNCHANGED <<runs, gmUp, mode, gateOpen, venue, others, crashes>>

(* set_measurement_gains finds nothing; the calibration may be skipped.    *)
SetGains ==
  /\ script.at = "gains"
  /\ Go("calibrate") \/ Go("sweep")
  /\ UNCHANGED <<runs, gmVars>>

(* phase1_calibration: the loudest block decides (1 quiet, 2 right, 3      *)
(* loud).                                                                  *)
Calibrate ==
  /\ script.at = "calibrate"
  /\ \E peak \in 1..3 :
       LET loudest == IF peak > script.peak THEN peak ELSE script.peak IN
       IF script.left > 1
         THEN script' = [script EXCEPT !.left = @ - 1, !.peak = loudest]
         ELSE Go(IF loudest = 2 THEN "sweep" ELSE "restore")
  /\ UNCHANGED <<runs, gmVars>>

(* get_pipewire_xrun_count before and after: a counter that cannot be read *)
(* tells no xrun.                                                          *)
XrunCount == {None, 0, 1}
XrunBetween(before, after) == before = 0 /\ after = 1

(* play_and_record, and what check_recording_integrity makes of it.        *)
Recording == [peak : {"low", "right", "high"}, offset : BOOLEAN, noisy : BOOLEAN]
Sound(r) == r.peak = "right" /\ ~r.offset /\ ~r.noisy

(* phase2_measurement: an xrun or a bad recording is tried again; the last *)
(* recording counts despite its xruns.                                     *)
Sweep ==
  /\ script.at = "sweep"
  /\ \E before, after \in XrunCount, r \in Recording :
       IF (XrunBetween(before, after) \/ ~Sound(r)) /\ script.attempt < MaxTries
         THEN script' = [script EXCEPT !.attempt = @ + 1]
         ELSE Go(IF Sound(r) THEN "save" ELSE "restore")
  /\ UNCHANGED <<runs, gmVars>>

Save ==
  /\ script.at = "save"
  /\ script' = [script EXCEPT !.at = "restore", !.success = TRUE]
  /\ UNCHANGED <<runs, gmVars>>

(* A slip: an interrupt ends the program where it is. *)
InterruptedForGood ==
  /\ script.at \in Trying
  /\ Exit("1")
  /\ UNCHANGED <<runs, gmUp, mode, gateOpen, venue, others, crashes>>

(* Ctrl-C, or any exception.                                               *)
Interrupted ==
  /\ script.at \in Trying
  /\ Go("restore")
  /\ conn' = GivenUp(Me)
  /\ UNCHANGED <<runs, gmUp, mode, gateOpen, venue, late, others, crashes>>

(* As no gain was set, none is restored.                                   *)
Restore ==
  /\ script.at = "restore"
  /\ Go("set_back")
  /\ UNCHANGED <<runs, gmVars>>

(* A signal, or Ctrl-C while it restores.                                  *)
Killed ==
  /\ script.at # "off"
  /\ Exit("killed")
  /\ UNCHANGED <<runs, gmUp, mode, gateOpen, venue, others, crashes>>

ScriptStep ==
  \/ ScriptConnect
  \/ ScriptAsk
  \/ ScriptTakesAnswer
  \/ ScriptGivesUp
  \/ SetGains
  \/ Calibrate
  \/ Sweep
  \/ Save
  \/ Restore

-----------------------------------------------------------------------------

Playing == script.at \in {"calibrate", "sweep"}

(* verify_measurement_mode: nothing is played outside measurement mode,    *)
(* unless someone else left that mode after it was verified.               *)
SweepsInMeasurementMode == Playing => mode = "measurement" \/ others[Me]

(* An exit with 0 or 1 says that the mode is back: once what the program   *)
(* sent has been executed, the mode is the one it found, or standby when   *)
(* it could not find out, unless others changed it since; even when the    *)
(* answer was that of an earlier request.                                  *)
RestoredUnlessTold ==
  script.at = "off" /\ script.exit \in {"0", "1"} /\ gmUp /\ late = {} /\ ~others[Me]
    => mode = RestoreMode

================================================================================
