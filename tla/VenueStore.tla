------------------------------ MODULE VenueStore ------------------------------
(***************************************************************************)
(* How GraphManager keeps the active venue across restarts                 *)
(* (graph-manager/src/venue.rs, and its callers in main.rs): set_venue     *)
(* writes a temporary file, brings it to the disk and renames it over      *)
(* last-venue, having copied the old last-venue to a backup; any of these  *)
(* steps may fail, which is only logged.                                   *)
(*                                                                         *)
(* A process sees each file as it was left; after a power failure the      *)
(* directory is one of those it has been since it was last written back,   *)
(* and a file that nothing brought to the disk is there but empty.         *)
(***************************************************************************)
EXTENDS Naturals

CONSTANTS
  Venue,         (* names that set_venue is asked for                       *)
  Profile,       (* those that have a venue profile                         *)
  DefaultVenue,
  NoVenue,
  Absent, Empty  (* what may be in place of a name                          *)

ASSUME VenueStoreAssumption ==
  /\ Profile \subseteq Venue
  /\ DefaultVenue \in Venue
  /\ NoVenue \notin Venue
  /\ Absent \notin Venue
  /\ Empty \notin Venue
  /\ Absent # Empty

VARIABLES
  running,
  active,        (* active_venue                                            *)
  store,         (* how far persist_venue_name is                           *)
  files,         (* last-venue and its backup                               *)
  tmp,           (* the temporary file, and what of it is on the disk       *)
  survivors      (* what a power failure may leave of `files`               *)

storeVars == <<running, active, store, files, tmp, survivors>>

Content == Venue \union {Absent, Empty}

Files == [last : Content, bak : Content]

(* "saved" and "failed" are both the end of persist_venue_name.            *)
Busy == {"backup", "write", "sync", "rename"}

StoreTypeOK ==
  /\ running \in BOOLEAN
  /\ active \in Venue \union {NoVenue}
  /\ store \in Busy \union {"saved", "failed", "never"}
  /\ files \in Files
  /\ tmp \in [seen : Content, kept : Content]
  /\ survivors \in SUBSET Files

StoreInit ==
  /\ running = FALSE
  /\ active = NoVenue
  /\ store = "never"
  /\ files = [last |-> Absent, bak |-> Absent]
  /\ tmp = [seen |-> Absent, kept |-> Absent]
  /\ survivors = {files}

(* load_persisted_venue: the backup is only for when there is no name in   *)
(* last-venue.                                                             *)
Loaded(f) ==
  IF f.last \in Venue THEN f.last ELSE IF f.bak \in Venue THEN f.bak ELSE NoVenue

(* The file system: the directory becomes f, now or some time later.       *)
Becomes(f, after) == files' = f /\ survivors' = survivors \union after

(* run_pipewire's start: on first boot load_default_venue finds its        *)
(* profile and persists its name.                                          *)
StoreStart ==
  /\ ~running
  /\ running' = TRUE
  /\ IF Loaded(files) # NoVenue
       THEN active' = Loaded(files) /\ store' = "saved"
       ELSE IF DefaultVenue \in Profile
         THEN active' = DefaultVenue /\ store' = "backup"
         ELSE active' = NoVenue /\ store' = "never"
  /\ UNCHANGED <<files, tmp, survivors>>

(* SetVenue for a venue that has a profile.                                *)
ChooseVenue(v) ==
  /\ running
  /\ store \notin Busy
  /\ v \in Profile
  /\ active' = v
  /\ store' = "backup"
  /\ UNCHANGED <<running, files, tmp, survivors>>

(* Copies last-venue, if there is one, to the backup; a copy that fails at *)
(* its start or on the way does not stop the rest.                         *)
Backup ==
  /\ store = "backup"
  /\ store' \in {"write", "failed"}
  /\ IF store' = "failed" \/ files.last = Absent
       THEN UNCHANGED <<files, survivors>>
       ELSE \E copy \in {files.last, Empty, files.bak} :
              Becomes([files EXCEPT !.bak = copy],
                      {[files EXCEPT !.bak = c] : c \in {copy, Empty}})
  /\ UNCHANGED <<running, active, tmp>>

Write ==
  /\ store = "write"
  /\ \/ /\ store' = "sync"
        /\ tmp' = [seen |-> active, kept |-> Empty]
     \/ /\ store' = "failed"
        /\ tmp' \in {tmp, [seen |-> Empty, kept |-> Empty]}
  /\ UNCHANGED <<running, active, files, survivors>>

(* A slip: the temporary file is not brought to the disk. *)
SkipSync ==
  /\ store = "sync"
  /\ store' = "rename"
  /\ UNCHANGED <<running, active, files, survivors, tmp>>

Sync ==
  /\ store = "sync"
  /\ \/ store' = "rename" /\ tmp' = [tmp EXCEPT !.kept = tmp.seen]
     \/ store' = "failed" /\ UNCHANGED tmp
  /\ UNCHANGED <<running, active, files, survivors>>

Rename ==
  /\ store = "rename"
  /\ \/ /\ store' = "saved"
        /\ Becomes([files EXCEPT !.last = tmp.seen],
                   {[f EXCEPT !.last = tmp.kept] : f \in survivors \union {files}})
        /\ tmp' = [seen |-> Absent, kept |-> Absent]
     \/ store' = "failed" /\ UNCHANGED <<files, survivors, tmp>>
  /\ UNCHANGED <<running, active>>

(* The kernel writes the directory back.                                   *)
WriteBack ==
  /\ survivors' = {files}
  /\ UNCHANGED <<running, active, store, files, tmp>>

(* GraphManager ends, in whatever it was doing.                            *)
StoreStop ==
  /\ running
  /\ running' = FALSE
  /\ active' = NoVenue
  /\ store' = "never"
  /\ UNCHANGED <<files, tmp, survivors>>

PowerFailure ==
  /\ running' = FALSE
  /\ active' = NoVenue
  /\ store' = "never"
  /\ files' \in survivors
  /\ survivors' = {files'}
  /\ tmp' = [seen |-> tmp.kept, kept |-> tmp.kept]

PersistStep == Backup \/ Write \/ Sync \/ Rename

StoreNext ==
  \/ StoreStart
  \/ \E v \in Venue : ChooseVenue(v)
  \/ PersistStep
  \/ WriteBack
  \/ StoreStop
  \/ PowerFailure

StoreSpec == StoreInit /\ [][StoreNext]_storeVars

-----------------------------------------------------------------------------
(* persist_venue_name implements a register that outlives the process and  *)
(* loses at worst its latest values: the "atomic write" and "crash-safe"   *)
(* of venue.rs.                                                            *)
Register == INSTANCE LastVenue WITH
  on <- running,
  venue <- active,
  saved <- Loaded(files),
  recoverable <- {Loaded(f) : f \in survivors}

ActsAsRegister == Register!Spec

(* What persist_venue_name reported written is what a restart would take   *)
(* up, and it is the venue in use.                                         *)
SavedIsTakenUp == store = "saved" => Loaded(files) = active

================================================================================
