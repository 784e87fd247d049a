------------------------------ MODULE FilterStore ------------------------------
(***************************************************************************)
(* The filters on the disk (web-ui/app/filter_routes.py, the profiles of   *)
(* speaker_routes.py, and what they call under room-correction): profiles  *)
(* are edited, filters generated from them, deployed, kept as versions,    *)
(* rolled back, cleaned up, and a profile is activated; PipeWire's         *)
(* convolver loads what its configuration names.                           *)
(*                                                                         *)
(* A request of filter_routes runs in a thread of its own and an           *)
(* activation waits for the mute, so the steps of different requests       *)
(* interleave; nothing locks the files.  A file of filters is "good" when  *)
(* it passes the D-009 check.  A dry run changes nothing and is left out.  *)
(*                                                                         *)
(* raced, inUse and lost record what has happened; no step depends on      *)
(* them.                                                                   *)
(***************************************************************************)
EXTENDS FiniteSets, Integers

CONSTANTS
  Profile,      (* names of speaker profiles                                *)
  Key,          (* speaker keys                                             *)
  Suffix,       (* channel_suffix: the channel of each key                  *)
  Standard,     (* the channels of CHANNEL_FILENAMES                        *)
  Gone,         (* no such file                                             *)
  Down,         (* no convolver                                             *)
  Keep,         (* values of `keep` that clean-ups are asked for            *)
  MaxTime,      (* bound: the last second there is                          *)
  MaxRequests   (* bound: how many requests are made                        *)

ASSUME FilterStoreAssumption ==
  /\ Key # {}
  /\ "coeffs" \notin Profile
  /\ Gone \notin {"good", "bad"}
  /\ Keep \subseteq Nat \ {0}
  /\ MaxTime \in Nat \ {0}
  /\ MaxRequests \in Nat

VARIABLES
  profiles,     (* what each profile's file says                            *)
  identity,     (* whether the speaker identity they refer to is there      *)
  out,          (* the filters in each profile's output directory           *)
  outConf,      (* the configuration generated there                        *)
  coeffs,       (* the filters in the coefficients directory                *)
  conf,         (* PipeWire's configuration of the convolver                *)
  marker,       (* the active-profile marker                                *)
  node,         (* the convolver: the paths it has, and what it loaded      *)
  task,         (* the requests under way                                   *)
  now,          (* the time, in seconds                                     *)
  asked,        (* how many requests have been made                         *)
  raced,        (* filters written while a deployment relied on their check *)
  inUse,        (* what the configuration named when the clean-up began     *)
  lost          (* versions that came into use too late for the clean-up    *)

speakers == <<profiles, identity>>
disk == <<speakers, out, outConf, coeffs, conf, marker>>
past == <<raced, inUse, lost>>
storeVars == <<disk, node, task, now, asked, past>>

Channel == Standard \union {Suffix[k] : k \in Key}

(* combined_{channel}_{ts}.wav; without a timestamp, ts is 0.              *)
Name == [ch : Channel \union Key, ts : 0..MaxTime]
Ref == [dir : Profile \union {"coeffs"}, name : Name]

(* "no_passband" stands for what both validations refuse,                  *)
(* "duplicate" for what only the web UI's does, and "headroom" for what    *)
(* only the generator's does.                                              *)
Flaw == {"none", "no_passband", "duplicate", "headroom"}
Content == [keys : (SUBSET Key) \ {{}}, flaw : Flaw]

(* _deep_validate_profile, validate_profile; both want the identity.       *)
DeepValid(c) == identity /\ c.flaw \in {"none", "headroom"}
PipelineValid(c) == identity /\ c.flaw \in {"none", "duplicate"}

Kind == {"generate", "deploy", "rollback", "snapshot", "cleanup", "activate"}
Idle == [at |-> "idle"]

(* Where a request may be interrupted: what it does next.                  *)
Stages ==
  [generate |-> {"export", "configure"}, deploy |-> {"copy"},
   rollback |-> {"configure"}, snapshot |-> {"copy"}, cleanup |-> {"remove"},
   activate |-> {"muting"}]

Present(files, n) == files[n] # Gone
Names(files) == {n \in Name : Present(files, n)}
Versions(files, ch) == {n \in Names(files) : n.ch = ch /\ n.ts > 0}

FileAt(r) == IF r.dir = "coeffs" THEN coeffs[r.name] ELSE out[r.dir][r.name]

Refs(c) == IF c = Gone THEN {} ELSE {c[k] : k \in DOMAIN c}

(* _get_active_filenames: base names only.                                 *)
ActiveNames == {r.name : r \in Refs(conf)}

(* generate_filter_chain_conf: the paths given, else the default ones.     *)
Generated(content, given) ==
  [k \in content.keys |->
     IF k \in DOMAIN given
       THEN given[k]
       ELSE [dir |-> "coeffs", name |-> [ch |-> Suffix[k], ts |-> 0]]]

-----------------------------------------------------------------------------

FilterTypeOK ==
  /\ profiles \in [Profile -> Content \union {Gone}]
  /\ identity \in BOOLEAN
  /\ out \in [Profile -> [Name -> {"good", "bad", Gone}]]
  /\ coeffs \in [Name -> {"good", "bad", Gone}]
  /\ \A c \in {outConf[p] : p \in Profile} \union {conf} :
       c # Gone => DOMAIN c \subseteq Key /\ Refs(c) \subseteq Ref
  /\ marker \in Profile \union {Gone}
  /\ node # Down =>
       /\ DOMAIN node.paths \subseteq Key
       /\ node.loaded \in [DOMAIN node.paths -> {"good", "bad"}]
  /\ \A t \in Kind : task[t].at \in {"idle"} \union Stages[t]
  /\ now \in 0..MaxTime
  /\ asked \in 0..MaxRequests
  /\ raced \subseteq Ref
  /\ inUse \subseteq Name
  /\ lost \subseteq Name

Untouched == [n \in Name |-> Gone]

(* A configuration loads when its files are all there.                     *)
Loads(c) == c # Gone /\ \A r \in Refs(c) : FileAt(r) # Gone

Loaded(c) ==
  [paths |-> c, loaded |-> [k \in DOMAIN c |-> FileAt(c[k])]]

(* A filter-chain does not come up without one of its files.               *)
Booted == IF Loads(conf) THEN Loaded(conf) ELSE Down

(* Good filters are in place for every channel, without a timestamp or as  *)
(* versions; the configuration names them or has yet to be installed.      *)
FilterInit ==
  /\ \E ts \in {0, 1} :
       /\ coeffs = [n \in Name |->
                      IF n.ch \in Channel /\ n.ts = ts THEN "good" ELSE Gone]
       /\ conf \in {Gone,
                     [k \in Key |-> [dir |-> "coeffs",
                                    name |-> [ch |-> Suffix[k], ts |-> ts]]]}
  /\ profiles = [p \in Profile |-> [keys |-> Key, flaw |-> "none"]]
  /\ identity = TRUE
  /\ out = [p \in Profile |-> Untouched]
  /\ outConf = [p \in Profile |-> Gone]
  /\ marker = Gone
  /\ node = Booted
  /\ task = [t \in Kind |-> Idle]
  /\ now = 1
  /\ asked = 0
  /\ raced = {}
  /\ inUse = {}
  /\ lost = {}

-----------------------------------------------------------------------------
(* Requests.                                                               *)

Asked == asked < MaxRequests /\ asked' = asked + 1

Begin(t, job) == task[t] = Idle /\ Asked /\ task' = [task EXCEPT ![t] = job]
Go(t, stage) == task' = [task EXCEPT ![t].at = stage]
End(t) == task' = [task EXCEPT ![t] = Idle]

Filters(dir, names) == {[dir |-> dir, name |-> n] : n \in names}

(* Filters are written into profile p's output directory. *)
Write(p, names) ==
  /\ raced' = IF task["deploy"] # Idle /\ task["deploy"].profile = p
                THEN raced \union Filters(p, names) ELSE raced
  /\ UNCHANGED <<inUse, lost>>

(* Names carry the second they were made in; requests that make names come *)
(* in different seconds.                                                   *)
Later == now < MaxTime /\ now' = now + 1

-----------------------------------------------------------------------------
(* Profiles and identities: each handler runs through without waiting.     *)
(* PUT wants the file to be there, POST wants it not to be.                *)

PutProfile(p, c) ==
  /\ profiles[p] # Gone
  /\ profiles' = [profiles EXCEPT ![p] = c]
  /\ UNCHANGED identity

CreateProfile(p, c) ==
  /\ profiles[p] = Gone
  /\ profiles' = [profiles EXCEPT ![p] = c]
  /\ UNCHANGED identity

DeleteProfile(p) ==
  /\ profiles[p] # Gone
  /\ profiles' = [profiles EXCEPT ![p] = Gone]
  /\ UNCHANGED identity

CreateIdentity == ~identity /\ identity' = TRUE /\ UNCHANGED profiles
DeleteIdentity == identity /\ identity' = FALSE /\ UNCHANGED profiles

Edit ==
  /\ \/ \E p \in Profile, c \in Content : PutProfile(p, c) \/ CreateProfile(p, c)
     \/ \E p \in Profile : DeleteProfile(p)
     \/ CreateIdentity
     \/ DeleteIdentity
  /\ Asked
  /\ UNCHANGED <<out, outConf, coeffs, conf, marker, node, task, now, past>>

-----------------------------------------------------------------------------
(* generate: _run_pipeline.                                                *)

GenerateBegin(p) ==
  /\ profiles[p] # Gone
  /\ PipelineValid(profiles[p])
  /\ Later
  /\ Begin("generate", [at |-> "export", profile |-> p,
                        keys |-> profiles[p].keys, ts |-> now'])
  /\ UNCHANGED <<disk, node, past>>

(* The files are written whether or not they pass the checks; an exception *)
(* on the way leaves those that were written.                              *)
Export ==
  LET job == task["generate"]
      files == {n \in Name : n.ts = job.ts /\ n.ch \in job.keys}
  IN
  /\ job.at = "export"
  /\ \E made \in [job.keys -> {"good", "bad", Gone}] :
       /\ out' = [out EXCEPT ![job.profile] =
                    [n \in Name |-> IF n \in files THEN made[n.ch] ELSE @[n]]]
       /\ IF \E k \in job.keys : made[k] = Gone
            THEN End("generate")
            ELSE Go("generate", "configure")
       /\ Write(job.profile, files)
  /\ UNCHANGED <<speakers, outConf, coeffs, conf, marker, node, now, asked>>

(* The profile is read again, and not validated again; that a filter       *)
(* failed its checks is only said in the answer.                           *)
Configure ==
  LET job == task["generate"]
      p == job.profile
      Path(k) == [dir |-> p, name |-> [ch |-> k, ts |-> job.ts]]
  IN
  /\ job.at = "configure"
  /\ End("generate")
  /\ outConf' = IF profiles[p] # Gone /\ identity
                  THEN [outConf EXCEPT ![p] =
                          Generated(profiles[p], [k \in job.keys |-> Path(k)])]
                  ELSE outConf
  /\ UNCHANGED <<speakers, out, coeffs, conf, marker, node, now, asked, past>>

(* room-correction/runner.py given this output directory: files without a  *)
(* timestamp, written before they are verified.                            *)
RunCorrection(p) ==
  /\ Asked
  /\ LET files == {n \in Name : n.ch \in Standard /\ n.ts = 0} IN
     \E made \in [Standard -> {"good", "bad"}] :
       /\ out' = [out EXCEPT ![p] = [n \in Name |->
                                      IF n \in files THEN made[n.ch] ELSE @[n]]]
       /\ Write(p, files)
  /\ UNCHANGED <<speakers, outConf, coeffs, conf, marker, node, task, now>>

-----------------------------------------------------------------------------
(* deploy: _run_deploy.                                                    *)

(* A slip: the newest filters only. *)
NewestPass(p) ==
  /\ Names(out[p]) # {}
  /\ \A n \in Names(out[p]) :
       (\A m \in Names(out[p]) : m.ts <= n.ts) => out[p][n] = "good"

(* _verify_all_wavs: all filters of the directory, old ones too.           *)
AllPass(p) == Names(out[p]) # {} /\ \A n \in Names(out[p]) : out[p][n] = "good"

DeployBegin(p) ==
  /\ AllPass(p)
  /\ Begin("deploy", [at |-> "copy", profile |-> p, left |-> Standard, open |-> {}])
  /\ raced' = raced \ Filters(p, Name)
  /\ UNCHANGED <<disk, node, now, inUse, lost>>

(* deploy_filters, given no timestamp: one file after the other, over the  *)
(* one that is there.                                                      *)
Unversioned(ch) == [ch |-> ch, ts |-> 0]

Copying == task["deploy"].at = "copy"

(* A channel without a filter is skipped; else its file is emptied ...     *)
Truncate(ch) ==
  LET job == task["deploy"]
      there == Present(out[job.profile], Unversioned(ch))
  IN
  /\ Copying
  /\ ch \in job.left /\ job.open = {}
  /\ task' = [task EXCEPT !["deploy"].left = @ \ {ch},
                         !["deploy"].open = IF there THEN {ch} ELSE {}]
  /\ coeffs' = IF there THEN [coeffs EXCEPT ![Unversioned(ch)] = "bad"] ELSE coeffs
  /\ raced' = IF there THEN raced \union Filters("coeffs", {Unversioned(ch)}) ELSE raced
  /\ UNCHANGED <<speakers, out, outConf, conf, marker, node, now, asked, inUse, lost>>

(* ... and filled.                                                         *)
Fill(ch) ==
  LET job == task["deploy"]
      copied == Filters("coeffs", {Unversioned(ch)})
  IN
  /\ Copying
  /\ ch \in job.open
  /\ task' = [task EXCEPT !["deploy"].open = {}]
  /\ coeffs' = [coeffs EXCEPT ![Unversioned(ch)] = out[job.profile][Unversioned(ch)]]
  /\ raced' = IF [dir |-> job.profile, name |-> Unversioned(ch)] \in raced
                THEN raced \union copied ELSE raced \ copied
  /\ UNCHANGED <<speakers, out, outConf, conf, marker, node, now, asked, inUse, lost>>

Install ==
  LET job == task["deploy"]
      c == outConf[job.profile]
  IN
  /\ Copying
  /\ job.left = {} /\ job.open = {}
  /\ End("deploy")
  /\ conf' = IF c = Gone THEN conf ELSE c
  /\ UNCHANGED <<speakers, out, outConf, coeffs, marker, node, now, asked, past>>

-----------------------------------------------------------------------------
(* Versions.                                                               *)

(* A version with a filter that fails is refused.                          *)
RollbackBegin(ts) ==
  LET matched == {n \in Names(coeffs) : n.ts = ts} IN
  /\ ts > 0
  /\ matched # {}
  /\ \A n \in matched : coeffs[n] = "good"
  /\ Begin("rollback", [at |-> "configure", names |-> matched])
  /\ raced' = raced \ Filters("coeffs", matched)
  /\ UNCHANGED <<disk, node, now, inUse, lost>>

(* Replaces the paths that name another version of a matched channel; the  *)
(* answer is "rolled back" even when there are none.                       *)
Rollback ==
  LET job == task["rollback"]
      For(r) == {n \in job.names : n.ch = r.name.ch /\ r.name.ts > 0}
      New(r) == IF For(r) = {} THEN r
                ELSE [dir |-> "coeffs", name |-> CHOOSE n \in For(r) : TRUE]
  IN
  /\ job.at = "configure"
  /\ End("rollback")
  /\ conf' = IF conf = Gone THEN conf
              ELSE [k \in DOMAIN conf |-> New(conf[k])]
  /\ UNCHANGED <<speakers, out, outConf, coeffs, marker, node, now, asked, past>>

(* With nothing active, the filters without a timestamp.                   *)
ToSnapshot ==
  IF ActiveNames # {} THEN ActiveNames
  ELSE {n \in Names(coeffs) : n.ch \in Standard /\ n.ts = 0}

SnapshotBegin ==
  /\ ToSnapshot # {}
  /\ Later
  /\ Begin("snapshot", [at |-> "copy", names |-> ToSnapshot, ts |-> now'])
  /\ UNCHANGED <<disk, node, past>>

(* Those that are not in the coefficients directory are passed over.       *)
Snapshot ==
  LET job == task["snapshot"]
      Source(ch) == {n \in job.names : n.ch = ch /\ Present(coeffs, n)}
      From(n) == CHOOSE m \in Source(n.ch) : TRUE
      made == {n \in Name : n.ts = job.ts /\ Source(n.ch) # {}}
  IN
  /\ job.at = "copy"
  /\ End("snapshot")
  /\ coeffs' = [n \in Name |-> IF n \in made THEN coeffs[From(n)] ELSE coeffs[n]]
  /\ raced' = raced \union
       Filters("coeffs", {n \in made : [dir |-> "coeffs", name |-> From(n)] \in raced})
  /\ UNCHANGED <<speakers, out, outConf, conf, marker, node, now, asked, inUse, lost>>

(* A slip: base names are compared with whole paths. *)
CleanupOfAll(keep) ==
  /\ Begin("cleanup", [at |-> "remove", active |-> {}, keep |-> keep,
                       left |-> Standard])
  /\ inUse' = ActiveNames
  /\ UNCHANGED <<disk, node, now, raced, lost>>

CleanupBegin(keep) ==
  /\ Begin("cleanup", [at |-> "remove", active |-> ActiveNames, keep |-> keep,
                       left |-> Standard])
  /\ inUse' = ActiveNames
  /\ UNCHANGED <<disk, node, now, raced, lost>>

(* A slip: one less is kept. *)
OldOrLast(ch, keep) ==
  {n \in Versions(coeffs, ch) :
     Cardinality({m \in Versions(coeffs, ch) : m.ts > n.ts}) + 1 >= keep}

(* All but the newest `keep` versions of a channel.                        *)
Old(ch, keep) ==
  {n \in Versions(coeffs, ch) :
     Cardinality({m \in Versions(coeffs, ch) : m.ts > n.ts}) >= keep}

(* What the configuration names, or will name when a rollback is done.     *)
Wanted ==
  ActiveNames \union (IF task["rollback"] = Idle THEN {} ELSE task["rollback"].names)

Cleanup(ch) ==
  LET job == task["cleanup"]
      removed == Old(ch, job.keep) \ job.active
  IN
  /\ job.at = "remove"
  /\ ch \in job.left
  /\ coeffs' = [n \in Name |-> IF n \in removed THEN Gone ELSE coeffs[n]]
  /\ lost' = lost \union ((removed \intersect Wanted) \ inUse)
  /\ task' = [task EXCEPT !["cleanup"] =
                IF job.left = {ch} THEN Idle ELSE [job EXCEPT !.left = @ \ {ch}]]
  /\ UNCHANGED <<speakers, out, outConf, conf, marker, node, now, asked, raced, inUse>>

-----------------------------------------------------------------------------
(* activate: _activate_profile_impl.                                       *)

ActivateBegin(p) ==
  /\ profiles[p] # Gone
  /\ DeepValid(profiles[p])
  /\ Begin("activate", [at |-> "muting", profile |-> p])
  /\ UNCHANGED <<disk, node, now, past>>

(* A mute that fails ends it.  What follows a mute does not wait: the      *)
(* profile is read again, its configuration written over PipeWire's, and   *)
(* the marker with it, if it can be.                                       *)
Muted ==
  LET p == task["activate"].profile IN
  /\ task["activate"].at = "muting"
  /\ End("activate")
  /\ \/ /\ profiles[p] # Gone
        /\ identity
        /\ conf' = Generated(profiles[p], <<>>)
        /\ marker' \in {p, marker}
     \/ UNCHANGED <<conf, marker>>
  /\ UNCHANGED <<speakers, out, outConf, coeffs, node, now, asked, past>>

-----------------------------------------------------------------------------
(* PipeWire.                                                               *)

(* reload_convolver sets the Reload control: the convolver reads the files *)
(* it was made with again, and keeps what it has where one is missing.     *)
Reload ==
  /\ node # Down
  /\ node' = [node EXCEPT !.loaded =
                [k \in DOMAIN @ |->
                   IF FileAt(node.paths[k]) # Gone THEN FileAt(node.paths[k]) ELSE @[k]]]
  /\ UNCHANGED <<disk, task, now, asked, past>>

Restart ==
  /\ node' = Booted
  /\ UNCHANGED <<disk, task, now, asked, past>>

(* The web UI ends, and its requests with it.                              *)
WebUiEnds ==
  /\ \E t \in Kind : task[t] # Idle
  /\ task' = [t \in Kind |-> Idle]
  /\ UNCHANGED <<disk, node, now, asked, past>>

Request ==
  \/ Edit
  \/ \E p \in Profile :
       GenerateBegin(p) \/ RunCorrection(p) \/ DeployBegin(p) \/ ActivateBegin(p)
  \/ \E ts \in 1..MaxTime : RollbackBegin(ts)
  \/ SnapshotBegin
  \/ \E keep \in Keep : CleanupBegin(keep)

Progress ==
  \/ Export \/ Configure
  \/ (\E ch \in Standard : Truncate(ch) \/ Fill(ch))
  \/ Install
  \/ Rollback
  \/ Snapshot
  \/ \E ch \in Standard : Cleanup(ch)
  \/ Muted

FilterNext == Request \/ Progress \/ Reload \/ Restart \/ WebUiEnds

FilterSpec == FilterInit /\ [][FilterNext]_storeVars

-----------------------------------------------------------------------------

(* D-009: whatever is generated, deployed, rolled back, activated and      *)
(* reloaded, a filter that the convolver reads passes the check.  It fails *)
(* only if it was written after the deployment under way had checked the   *)
(* directory, or is a copy of one that was, or is being copied itself.     *)
OnlyPassingSounds ==
  [][node' # node /\ node' # Down =>
       \A k \in DOMAIN node'.paths :
         FileAt(node'.paths[k]) = "bad" => node'.paths[k] \in raced]_storeVars

(* cleanup_old_coefficients: "Never deletes the currently-active version"; *)
(* the versions that the configuration names are there.  One is missing    *)
(* only if the configuration did not name it when the clean-up began that  *)
(* removed it, and a rollback to it was done or under way when it did.     *)
ActiveVersionsExist ==
  \A r \in Refs(conf) :
    r.dir = "coeffs" /\ r.name.ts > 0 /\ FileAt(r) = Gone => r.name \in lost

(* Whatever clean-ups and snapshots run together, a channel's newest       *)
(* version is not removed.                                                 *)
NewestSurvives ==
  [][\A n \in Names(coeffs) :
       n.ts > 0 /\ (\A m \in Versions(coeffs, n.ch) : m.ts <= n.ts)
         => Present(coeffs', n)]_storeVars

================================================================================
