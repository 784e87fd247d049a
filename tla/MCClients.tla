------------------------------ MODULE MCClients ------------------------------
(***************************************************************************)
(* The near-field program and the test page, both setting GraphManager's   *)
(* mode; and other Python programs, each by itself.                        *)
(***************************************************************************)
EXTENDS NearfieldScript, TestToolModes, TfMode, SigGenClient, Midi

CONSTANTS
  MaxStarts     (* bound: runs, requests and crashes together               *)

clientVars == <<gmVars, scriptVars, toolVars>>

ClientsInit == GmInit /\ ScriptInit /\ ToolInit

ClientsNext ==
  /\ \/ GmStep /\ UNCHANGED <<scriptVars, toolVars>>
     \/ (ScriptStart \/ ScriptStep \/ Interrupted \/ Killed) /\ UNCHANGED toolVars
     \/ ToolStep /\ UNCHANGED scriptVars
  /\ runs' + asked' + crashes' <= MaxStarts

ClientsSpec == ClientsInit /\ [][ClientsNext]_clientVars

--------------------------------------------------------------------------------
(* One of them is run, with the others at their start: they share nothing, *)
(* but for the start and the stop of a transfer function measurement,      *)
(* which have GraphManager and no other client.                            *)

VARIABLE process

Others == <<tfVars, libVars, midiVars>>

WebInit ==
  /\ ClientsInit /\ TfInit /\ LibInit /\ MidiInit
  /\ process \in {"clients", "tf", "library", "midi"}
  /\ process # "clients" => ~venue

TfRuns == TfNext /\ UNCHANGED <<scriptVars, toolVars, libVars, midiVars>>

WebNext ==
  /\ UNCHANGED process
  /\ \/ process = "clients" /\ ClientsNext /\ UNCHANGED Others
     \/ process = "tf" /\ TfRuns
     \/ process = "library" /\ LibNext /\ UNCHANGED <<clientVars, tfVars, midiVars>>
     \/ process = "midi" /\ MidiNext /\ UNCHANGED <<clientVars, tfVars, libVars>>

WebSpec == WebInit /\ [][WebNext]_<<clientVars, Others, process>>

TfSpec ==
  /\ WebInit /\ process = "tf"
  /\ [][TfRuns /\ UNCHANGED process]_<<clientVars, Others, process>>

================================================================================
