----------------------------- MODULE FilterProofs -----------------------------
(***************************************************************************)
(* What holds of what the web UI keeps, however many requests are made: of *)
(* the filters on the disk for every set of profiles and speakers, of the  *)
(* passkeys and sessions, of the status of GraphManager that is shown, and *)
(* of the transfer function that is watched.                               *)
(***************************************************************************)
EXTENDS FilterStore, Auth, FilterChainStatus, TransferFunction,
        FiniteSetTheorems, SequenceTheorems, TLAPS

File == {"good", "bad", Gone}
Paths == UNION {[K -> Ref] : K \in SUBSET Key}
Config == Paths
Node == {n \in [paths : Paths, loaded : UNION {[K -> {"good", "bad"}] : K \in SUBSET Key}] :
           DOMAIN n.loaded = DOMAIN n.paths}

Job ==
  [generate |-> [at : {"export", "configure"}, profile : Profile,
                 keys : SUBSET Key, ts : 1..MaxTime],
   deploy   |-> [at : {"copy"}, profile : Profile,
                 left : SUBSET Standard, open : SUBSET Standard],
   rollback |-> [at : {"configure"}, names : SUBSET Name],
   snapshot |-> [at : {"copy"}, names : SUBSET Name, ts : 1..MaxTime],
   cleanup  |-> [at : {"remove"}, active : SUBSET Name, keep : Keep,
                 left : SUBSET Standard],
   activate |-> [at : {"muting"}, profile : Profile]]

AnyJob == (UNION {Job[t] : t \in Kind}) \union {Idle}

(* A generated configuration names files of its own directory, older than  *)
(* what is being generated, or files without a timestamp.                  *)
Drafted(r, p) ==
  \/ r.dir = "coeffs" /\ r.name.ts = 0
  \/ /\ r.dir = p
     /\ r.name.ts \in 1..now
     /\ task["generate"].at = "export" => r.name.ts < task["generate"].ts

DiskTypes ==
  /\ profiles \in [Profile -> Content \union {Gone}]
  /\ identity \in BOOLEAN
  /\ out \in [Profile -> [Name -> File]]
  /\ coeffs \in [Name -> File]
  /\ outConf \in [Profile -> Config \union {Gone}]
  /\ conf \in Config \union {Gone}
  /\ marker \in Profile \union {Gone}

JobTypes ==
  /\ task \in [Kind -> AnyJob]
  /\ \A t \in Kind : task[t] \in Job[t] \union {Idle}
  /\ now \in 1..MaxTime
  /\ asked \in 0..MaxRequests
  /\ task["generate"] # Idle => task["generate"].ts <= now

PastTypes == raced \subseteq Ref /\ inUse \subseteq Name /\ lost \subseteq Name

FilterTypes == DiskTypes /\ JobTypes /\ node \in Node \union {Down}

Drafts == \A p \in Profile : \A r \in Refs(outConf[p]) : Drafted(r, p)

(* A version that is named, or will be after a rollback, is there or was   *)
(* removed by a clean-up that began earlier.                               *)
VersionsHeld ==
  /\ \A r \in Refs(conf) :
       r.dir = "coeffs" /\ r.name.ts > 0 => Present(coeffs, r.name) \/ r.name \in lost
  /\ task["rollback"] # Idle =>
       \A n \in task["rollback"].names :
         n.ts > 0 /\ (Present(coeffs, n) \/ n \in lost)
  /\ task["cleanup"] # Idle => task["cleanup"].active = inUse

PassesOrRaced(r) == FileAt(r) = "bad" => r \in raced

(* A filter in use that fails was raced; what is still to be generated has *)
(* another name.                                                           *)
Settled(r) ==
  /\ PassesOrRaced(r)
  /\ r.dir # "coeffs" => Drafted(r, r.dir)

NodePaths == IF node = Down THEN {} ELSE {node.paths[k] : k \in DOMAIN node.paths}

Used == Refs(conf) \union NodePaths

FilesSound ==
  /\ \A r \in Filters("coeffs", Name) : PassesOrRaced(r)
  /\ \A r \in Used : Settled(r)
  /\ task["deploy"] # Idle =>
       \A r \in Filters(task["deploy"].profile, Name) : PassesOrRaced(r)

-----------------------------------------------------------------------------
(* The operators.                                                          *)

LEMMA PathsAre ==
  /\ \A K \in SUBSET Key : \A f \in [K -> Ref] : f \in Paths
  /\ \A f \in Paths : /\ f \in [DOMAIN f -> Ref]
                      /\ DOMAIN f \in SUBSET Key
<1>1. \A f \in Paths : \E K \in SUBSET Key : f \in [K -> Ref]
  BY DEF Paths
<1> QED
  BY <1>1 DEF Paths

LEMMA RefsAre ==
  ASSUME NEW c \in Config
  PROVE  /\ c \in [DOMAIN c -> Ref]
         /\ DOMAIN c \in SUBSET Key
         /\ \A k \in DOMAIN c : c[k] \in Ref
  BY PathsAre DEF Config

LEMMA ChannelNames ==
  /\ \A k \in Key : Suffix[k] \in Channel
  /\ Standard \subseteq Channel
  BY DEF Channel

(* What a generated configuration says, given paths of profile p or none.  *)
LEMMA GeneratedIs ==
  ASSUME NEW c \in Content, NEW K \in SUBSET Key, NEW given \in [K -> Ref]
  PROVE  /\ Generated(c, given) \in Config
         /\ \A k \in DOMAIN Generated(c, given) :
              \/ k \in K /\ Generated(c, given)[k] = given[k]
              \/ /\ Generated(c, given)[k].dir = "coeffs"
                 /\ Generated(c, given)[k].name.ts = 0
<1> DEFINE g == [k \in c.keys |->
                   IF k \in DOMAIN given
                     THEN given[k]
                     ELSE [dir |-> "coeffs", name |-> [ch |-> Suffix[k], ts |-> 0]]]
<1>1. c.keys \in SUBSET Key
  BY DEF Content
<1>2. \A k \in Key : [dir |-> "coeffs", name |-> [ch |-> Suffix[k], ts |-> 0]] \in Ref
  BY ChannelNames, FilterStoreAssumption DEF Ref, Name
<1>3. g \in [c.keys -> Ref]
  BY <1>1, <1>2
<1>4. g \in Paths
  BY <1>1, <1>3, PathsAre
<1>5. Generated(c, given) = g
  BY DEF Generated
<1>6. \A k \in DOMAIN g : \/ k \in K /\ g[k] = given[k]
                          \/ g[k].dir = "coeffs" /\ g[k].name.ts = 0
  OBVIOUS
<1> HIDE DEF g
<1> QED
  BY <1>4, <1>5, <1>6 DEF Config

(* With no paths given, the files without a timestamp.                     *)
LEMMA DefaultRefs ==
  ASSUME NEW c \in Content, NEW r \in Refs(Generated(c, <<>>))
  PROVE  r.dir = "coeffs" /\ r.name.ts = 0
<1>1. <<>> \in [{} -> Ref] /\ {} \in SUBSET Key
  OBVIOUS
<1>2. \A k \in DOMAIN Generated(c, <<>>) :
        Generated(c, <<>>)[k].dir = "coeffs" /\ Generated(c, <<>>)[k].name.ts = 0
  BY <1>1, GeneratedIs
<1>3. Generated(c, <<>>) # Gone => \E k \in DOMAIN Generated(c, <<>>) : r = Generated(c, <<>>)[k]
  BY DEF Refs
<1>4. Generated(c, <<>>) # Gone
  BY DEF Refs
<1> QED BY <1>2, <1>3, <1>4

LEMMA FileIs ==
  ASSUME DiskTypes, NEW r \in Ref
  PROVE  FileAt(r) \in File
  BY FilterStoreAssumption DEF DiskTypes, FileAt, Ref

LEMMA LoadedIs ==
  ASSUME DiskTypes, NEW c \in Config, Loads(c)
  PROVE  /\ Loaded(c) \in Node
         /\ Loaded(c).paths = c
         /\ \A k \in DOMAIN c : Loaded(c).loaded[k] = FileAt(c[k])
<1> DEFINE l == [k \in DOMAIN c |-> FileAt(c[k])]
<1>1. \A k \in DOMAIN c : FileAt(c[k]) \in {"good", "bad"}
  BY RefsAre, FileIs DEF Loads, Refs, File, Config
<1>2. l \in [DOMAIN c -> {"good", "bad"}] /\ DOMAIN c \in SUBSET Key
  BY <1>1, RefsAre
<1>3. l \in UNION {[K -> {"good", "bad"}] : K \in SUBSET Key}
  BY <1>2
<1>4. Loaded(c) = [paths |-> c, loaded |-> l]
  BY DEF Loaded
<1>5. c \in Paths
  BY DEF Config
<1>6. DOMAIN l = DOMAIN c
  OBVIOUS
<1>7. \A k \in DOMAIN c : l[k] = FileAt(c[k])
  OBVIOUS
<1> HIDE DEF l
<1> QED
  BY <1>3, <1>4, <1>5, <1>6, <1>7 DEF Node

-----------------------------------------------------------------------------
(* The type invariant.                                                     *)

Same == <<profiles, identity, out, outConf, coeffs, conf, marker, node>>

LEMMA BootedIs == DiskTypes => Booted \in Node \union {Down}
  BY LoadedIs DEF DiskTypes, Booted, Loads

LEMMA Types_Init == FilterInit => FilterTypes
<1> SUFFICES ASSUME FilterInit PROVE FilterTypes
  OBVIOUS
<1>1. PICK ts \in {0, 1} :
        /\ coeffs = [n \in Name |->
                       IF n.ch \in Channel /\ n.ts = ts THEN "good" ELSE Gone]
        /\ conf \in {Gone,
                     [k \in Key |-> [dir |-> "coeffs",
                                    name |-> [ch |-> Suffix[k], ts |-> ts]]]}
  BY DEF FilterInit
<1>2. \A k \in Key : [dir |-> "coeffs", name |-> [ch |-> Suffix[k], ts |-> ts]] \in Ref
  BY ChannelNames, FilterStoreAssumption DEF Ref, Name
<1>3. [k \in Key |-> [dir |-> "coeffs", name |-> [ch |-> Suffix[k], ts |-> ts]]] \in Paths
  BY <1>2, PathsAre
<1>4. conf \in Config \union {Gone}
  BY <1>1, <1>3 DEF Config
<1>5. coeffs \in [Name -> File]
  BY <1>1 DEF File
<1>6. out \in [Profile -> [Name -> File]]
  BY DEF FilterInit, Untouched, File
<1>7. profiles \in [Profile -> Content \union {Gone}]
  BY FilterStoreAssumption DEF FilterInit, Content, Flaw
<1>8. outConf \in [Profile -> Config \union {Gone}]
  BY DEF FilterInit
<1>9. DiskTypes
  BY <1>4, <1>5, <1>6, <1>7, <1>8 DEF FilterInit, DiskTypes
<1>10. JobTypes
  BY FilterStoreAssumption DEF FilterInit, JobTypes, AnyJob, Kind
<1> QED
  BY <1>9, <1>10, BootedIs DEF FilterInit, FilterTypes

LEMMA Task_Begin ==
  ASSUME JobTypes, NEW t \in Kind, NEW job \in Job[t], task' = [task EXCEPT ![t] = job]
  PROVE  /\ task' \in [Kind -> AnyJob]
         /\ \A u \in Kind : task'[u] \in Job[u] \union {Idle}
  BY DEF JobTypes, AnyJob

LEMMA Task_End ==
  ASSUME JobTypes, NEW t \in Kind, task' = [task EXCEPT ![t] = Idle]
  PROVE  /\ task' \in [Kind -> AnyJob]
         /\ \A u \in Kind : task'[u] \in Job[u] \union {Idle}
  BY DEF JobTypes, AnyJob

LEMMA Task_Go ==
  ASSUME JobTypes, NEW t \in Kind, task[t] \in Job[t], NEW stage \in Stages[t],
         task' = [task EXCEPT ![t].at = stage]
  PROVE  /\ task' \in [Kind -> AnyJob]
         /\ \A u \in Kind : task'[u] \in Job[u] \union {Idle}
         /\ task'["generate"] # Idle =>
              /\ task["generate"] # Idle
              /\ task'["generate"].ts = task["generate"].ts
<1>1. task'[t] = [task[t] EXCEPT !.at = stage] /\ \A u \in Kind \ {t} : task'[u] = task[u]
  BY DEF JobTypes
<1>2. task'[t] \in Job[t] /\ (t = "generate" => task'[t].ts = task[t].ts)
  <2>1. CASE t = "generate"
    BY <1>1, <2>1 DEF Job, Stages
  <2>2. CASE t = "deploy"
    BY <1>1, <2>2 DEF Job, Stages
  <2>3. CASE t = "rollback"
    BY <1>1, <2>3 DEF Job, Stages
  <2>4. CASE t = "snapshot"
    BY <1>1, <2>4 DEF Job, Stages
  <2>5. CASE t = "cleanup"
    BY <1>1, <2>5 DEF Job, Stages
  <2>6. CASE t = "activate"
    BY <1>1, <2>6 DEF Job, Stages
  <2> QED BY <2>1, <2>2, <2>3, <2>4, <2>5, <2>6 DEF Kind
<1>3. \A u \in Kind : task'[u] \in Job[u] \union {Idle}
  BY <1>1, <1>2 DEF JobTypes
<1>4. DOMAIN task' = Kind /\ task' = [u \in Kind |-> task'[u]]
  BY DEF JobTypes
<1>5. \A u \in Kind : task'[u] \in AnyJob
  BY <1>3 DEF AnyJob
<1>6. task' \in [Kind -> AnyJob]
  BY <1>4, <1>5
<1>7. task[t] # Idle
  BY DEF Kind, Job, Idle
<1> QED
  BY <1>1, <1>2, <1>3, <1>6, <1>7

LEMMA IdleIsNoJob ==
  ASSUME JobTypes, NEW t \in Kind
  PROVE  /\ task[t].at # "idle" => task[t] \in Job[t]
         /\ \A stage \in Stages[t] : task[t].at = stage => task[t] \in Job[t]
  BY DEF JobTypes, Idle, Kind, Stages

LEMMA ActiveNamesAre == DiskTypes => ActiveNames \subseteq Name
<1> SUFFICES ASSUME DiskTypes, NEW r \in Refs(conf) PROVE r.name \in Name
  BY DEF ActiveNames
<1>1. conf \in Config /\ \E k \in DOMAIN conf : r = conf[k]
  BY DEF Refs, DiskTypes
<1> QED
  BY <1>1, RefsAre DEF Ref

LEMMA Request_Types == FilterTypes /\ Request => FilterTypes'
<1> SUFFICES ASSUME FilterTypes, Request PROVE FilterTypes'
  OBVIOUS
<1> USE DEF FilterTypes
<1>0. ASSUME Same' = Same, NEW t \in Kind, NEW job \in Job[t], Begin(t, job),
             now' \in {now} \/ Later,
             t = "generate" => job.ts <= now'
      PROVE  FilterTypes'
  <2>1. DiskTypes' /\ node' \in Node \union {Down}
    BY <1>0 DEF Same, DiskTypes
  <2>2. now' \in 1..MaxTime /\ now <= now' /\ asked' \in 0..MaxRequests
    BY <1>0, FilterStoreAssumption DEF JobTypes, Later, Begin, Asked
  <2>3. task' = [task EXCEPT ![t] = job]
    BY <1>0 DEF Begin
  <2>4. task'["generate"] # Idle => task'["generate"].ts <= now'
    <3>1. CASE t = "generate"
      BY <1>0, <2>3, <3>1 DEF JobTypes
    <3>2. CASE t # "generate"
      <4>1. task'["generate"] = task["generate"]
        BY <2>3, <3>2 DEF JobTypes
      <4>2. task["generate"] # Idle => task["generate"].ts \in Int
        BY DEF JobTypes, Job, Kind
      <4> QED BY <2>2, <4>1, <4>2 DEF JobTypes
    <3> QED BY <3>1, <3>2
  <2> QED BY <2>1, <2>2, <2>3, <2>4, Task_Begin DEF JobTypes
<1>1. CASE Edit
  <2>1. profiles' \in [Profile -> Content \union {Gone}] /\ identity' \in BOOLEAN
    BY <1>1 DEF Edit, PutProfile, CreateProfile, DeleteProfile, CreateIdentity,
                DeleteIdentity, DiskTypes
  <2>2. UNCHANGED <<out, outConf, coeffs, conf, marker, node, task, now>>
    BY <1>1 DEF Edit
  <2>3. asked' \in 0..MaxRequests
    BY <1>1, FilterStoreAssumption DEF Edit, Asked, JobTypes
  <2> QED BY <2>1, <2>2, <2>3 DEF DiskTypes, JobTypes
<1>2. ASSUME NEW p \in Profile, GenerateBegin(p) PROVE FilterTypes'
  <2>1. profiles[p] \in Content
    BY <1>2 DEF GenerateBegin, DiskTypes
  <2>2. [at |-> "export", profile |-> p, keys |-> profiles[p].keys, ts |-> now']
          \in Job["generate"]
    BY <1>2, <2>1, FilterStoreAssumption DEF GenerateBegin, Later, JobTypes, Content, Job
  <2> QED BY <1>0, <1>2, <2>2 DEF GenerateBegin, Same, Kind, JobTypes, Later, disk, speakers
<1>3. ASSUME NEW p \in Profile, RunCorrection(p) PROVE FilterTypes'
  <2> DEFINE files == {n \in Name : n.ch \in Standard /\ n.ts = 0}
  <2>1. PICK made \in [Standard -> {"good", "bad"}] :
          out' = [out EXCEPT ![p] = [n \in Name |->
                                       IF n \in files THEN made[n.ch] ELSE out[p][n]]]
    BY <1>3 DEF RunCorrection
  <2>2. [n \in Name |-> IF n \in files THEN made[n.ch] ELSE out[p][n]] \in [Name -> File]
    BY DEF DiskTypes, File
  <2>3. out' \in [Profile -> [Name -> File]]
    BY <2>1, <2>2 DEF DiskTypes
  <2>4. asked' \in 0..MaxRequests
    BY <1>3, FilterStoreAssumption DEF RunCorrection, Asked, JobTypes
  <2>5. UNCHANGED <<profiles, identity, outConf, coeffs, conf, marker, node, task, now>>
    BY <1>3 DEF RunCorrection, speakers
  <2> QED BY <2>3, <2>4, <2>5 DEF DiskTypes, JobTypes
<1>4. ASSUME NEW p \in Profile, DeployBegin(p) PROVE FilterTypes'
  <2>1. [at |-> "copy", profile |-> p, left |-> Standard, open |-> {}] \in Job["deploy"]
    BY DEF Job
  <2> QED BY <1>0, <1>4, <2>1 DEF DeployBegin, Same, Kind, disk, speakers
<1>5. ASSUME NEW p \in Profile, ActivateBegin(p) PROVE FilterTypes'
  <2>1. [at |-> "muting", profile |-> p] \in Job["activate"]
    BY DEF Job
  <2> QED BY <1>0, <1>5, <2>1 DEF ActivateBegin, Same, Kind, disk, speakers
<1>6. ASSUME NEW ts \in 1..MaxTime, RollbackBegin(ts) PROVE FilterTypes'
  <2>1. [at |-> "configure", names |-> {n \in Names(coeffs) : n.ts = ts}] \in Job["rollback"]
    BY DEF Job, Names
  <2> QED BY <1>0, <1>6, <2>1 DEF RollbackBegin, Same, Kind, disk, speakers
<1>7. CASE SnapshotBegin
  <2>1. ToSnapshot \subseteq Name
    BY ActiveNamesAre DEF ToSnapshot, Names
  <2>2. [at |-> "copy", names |-> ToSnapshot, ts |-> now'] \in Job["snapshot"]
    BY <1>7, <2>1, FilterStoreAssumption DEF Job, SnapshotBegin, Later, JobTypes
  <2> QED BY <1>0, <1>7, <2>2 DEF SnapshotBegin, Same, Kind, disk, speakers
<1>8. ASSUME NEW keep \in Keep, CleanupBegin(keep) PROVE FilterTypes'
  <2>1. [at |-> "remove", active |-> ActiveNames, keep |-> keep, left |-> Standard]
          \in Job["cleanup"]
    BY ActiveNamesAre DEF Job
  <2> QED BY <1>0, <1>8, <2>1 DEF CleanupBegin, Same, Kind, disk, speakers
<1> QED
  BY <1>1, <1>2, <1>3, <1>4, <1>5, <1>6, <1>7, <1>8 DEF Request

(* What a snapshot makes, and from what.                                   *)
LEMMA SnapshotIs ==
  ASSUME Snapshot, task["snapshot"] \in Job["snapshot"]
  PROVE  \E made \in SUBSET Name : \E from \in [made -> Name] :
           /\ \A n \in made : Present(coeffs, from[n])
           /\ coeffs' = [n \in Name |-> IF n \in made THEN coeffs[from[n]] ELSE coeffs[n]]
           /\ raced' = raced \union
                Filters("coeffs", {n \in made : [dir |-> "coeffs", name |-> from[n]] \in raced})
<1> DEFINE job == task["snapshot"]
           Source(ch) == {n \in job.names : n.ch = ch /\ Present(coeffs, n)}
           From(n) == CHOOSE m \in Source(n.ch) : TRUE
           made == {n \in Name : n.ts = job.ts /\ Source(n.ch) # {}}
           from == [n \in made |-> From(n)]
<1>1. \A n \in made : From(n) \in Source(n.ch)
  OBVIOUS
<1>2. \A n \in made : From(n) \in Name /\ Present(coeffs, From(n))
  BY <1>1 DEF Job
<1>3. coeffs' = [n \in Name |-> IF n \in made THEN coeffs[From(n)] ELSE coeffs[n]]
      /\ raced' = raced \union
           Filters("coeffs", {n \in made : [dir |-> "coeffs", name |-> From(n)] \in raced})
  BY DEF Snapshot
<1> HIDE DEF From
<1>4. \A n \in made : from[n] = From(n)
  OBVIOUS
<1>5. made \in SUBSET Name /\ from \in [made -> Name]
  BY <1>2
<1> HIDE DEF made, from
<1>6. [n \in Name |-> IF n \in made THEN coeffs[From(n)] ELSE coeffs[n]]
        = [n \in Name |-> IF n \in made THEN coeffs[from[n]] ELSE coeffs[n]]
  BY <1>4
<1>7. {n \in made : [dir |-> "coeffs", name |-> From(n)] \in raced}
        = {n \in made : [dir |-> "coeffs", name |-> from[n]] \in raced}
  BY <1>4
<1>8. coeffs' = [n \in Name |-> IF n \in made THEN coeffs[from[n]] ELSE coeffs[n]]
  BY <1>3, <1>6
<1>9. raced' = raced \union
        Filters("coeffs", {n \in made : [dir |-> "coeffs", name |-> from[n]] \in raced})
  BY <1>3, <1>7
<1>10. \A n \in made : Present(coeffs, from[n])
  BY <1>2, <1>4
<1> QED BY <1>5, <1>8, <1>9, <1>10

LEMMA Progress_Types == FilterTypes /\ Progress => FilterTypes'
<1> SUFFICES ASSUME FilterTypes, Progress PROVE FilterTypes'
  OBVIOUS
<1> USE DEF FilterTypes
<1>e. ASSUME NEW t \in Kind, End(t), UNCHANGED <<now, asked>> PROVE JobTypes'
  <2>1. task' = [task EXCEPT ![t] = Idle]
    BY <1>e DEF End
  <2>2. task'["generate"] # Idle => task'["generate"] = task["generate"]
    BY <2>1 DEF JobTypes, Kind
  <2> QED BY <1>e, <2>1, <2>2, Task_End DEF JobTypes
<1>g. ASSUME NEW t \in Kind, NEW stage \in Stages[t], task[t] \in Job[t], Go(t, stage),
             UNCHANGED <<now, asked>>
      PROVE  JobTypes'
  <2>1. task' = [task EXCEPT ![t].at = stage]
    BY <1>g DEF Go
  <2> QED BY <1>g, <2>1, Task_Go DEF JobTypes
<1>1. CASE Export
  <2> DEFINE job == task["generate"]
             files == {n \in Name : n.ts = job.ts /\ n.ch \in job.keys}
  <2>1. job \in Job["generate"]
    BY <1>1, IdleIsNoJob DEF Export, Kind, Stages
  <2>2. PICK made \in [job.keys -> {"good", "bad", Gone}] :
          /\ out' = [out EXCEPT ![job.profile] =
                      [n \in Name |-> IF n \in files THEN made[n.ch]
                                     ELSE out[job.profile][n]]]
          /\ End("generate") \/ Go("generate", "configure")
    BY <1>1 DEF Export
  <2>3. [n \in Name |-> IF n \in files THEN made[n.ch] ELSE out[job.profile][n]]
          \in [Name -> File]
    BY <2>1 DEF DiskTypes, File, Job
  <2>4. out' \in [Profile -> [Name -> File]]
    BY <2>2, <2>3 DEF DiskTypes
  <2>5. UNCHANGED <<profiles, identity, outConf, coeffs, conf, marker, node, now, asked>>
    BY <1>1 DEF Export, speakers
  <2>6. JobTypes'
    BY <1>e, <1>g, <2>1, <2>2, <2>5 DEF Kind, Stages
  <2> QED BY <2>4, <2>5, <2>6 DEF DiskTypes
<1>2. CASE Configure
  <2> DEFINE job == task["generate"]
             p == job.profile
             given == [k \in job.keys |-> [dir |-> p, name |-> [ch |-> k, ts |-> job.ts]]]
  <2>1. job \in Job["generate"]
    BY <1>2, IdleIsNoJob DEF Configure, Kind, Stages
  <2>2. given \in [job.keys -> Ref] /\ job.keys \in SUBSET Key /\ p \in Profile
    BY <2>1, FilterStoreAssumption DEF Job, Ref, Name
  <2>3. outConf' \in {outConf, [outConf EXCEPT ![p] = Generated(profiles[p], given)]}
        /\ (outConf' # outConf => profiles[p] # Gone)
    BY <1>2 DEF Configure
  <2>4. profiles[p] # Gone => Generated(profiles[p], given) \in Config
    BY <2>2, GeneratedIs DEF DiskTypes
  <2>5. outConf' \in [Profile -> Config \union {Gone}]
    BY <2>2, <2>3, <2>4 DEF DiskTypes
  <2>6. UNCHANGED <<profiles, identity, out, coeffs, conf, marker, node, now, asked>>
        /\ End("generate")
    BY <1>2 DEF Configure, speakers
  <2>7. JobTypes'
    BY <1>e, <2>6 DEF Kind
  <2> QED BY <2>5, <2>6, <2>7 DEF DiskTypes
<1>3. ASSUME NEW ch \in Standard, Truncate(ch) \/ Fill(ch) PROVE FilterTypes'
  <2> DEFINE job == task["deploy"]
  <2>1. job \in Job["deploy"] /\ Unversioned(ch) \in Name
    BY <1>3, IdleIsNoJob, ChannelNames, FilterStoreAssumption
    DEF Truncate, Fill, Copying, Kind, Stages, Unversioned, Name
  <2>2. PICK left \in SUBSET Standard, open \in SUBSET Standard :
          task' = [task EXCEPT !["deploy"].left = left, !["deploy"].open = open]
    <3>1. CASE Truncate(ch)
      BY <2>1, <3>1 DEF Truncate, Job
    <3>2. CASE Fill(ch)
      <4>1. task' = [task EXCEPT !["deploy"].open = {}]
        BY <3>2 DEF Fill
      <4>2. [job EXCEPT !.left = job.left, !.open = {}] = [job EXCEPT !.open = {}]
        BY <2>1 DEF Job
      <4>3. task' = [task EXCEPT !["deploy"].left = job.left, !["deploy"].open = {}]
        BY <4>1, <4>2 DEF JobTypes, Kind
      <4> QED BY <2>1, <4>3 DEF Job
    <3> QED BY <1>3, <3>1, <3>2
  <2> DEFINE rest == [job EXCEPT !.left = left, !.open = open]
  <2>3. rest \in Job["deploy"]
    BY <2>1 DEF Job
  <2>4. task' = [task EXCEPT !["deploy"] = rest]
    BY <2>2 DEF JobTypes, Kind
  <2> HIDE DEF rest
  <2>5. task'["generate"] = task["generate"]
    BY <2>4 DEF JobTypes, Kind
  <2>6. UNCHANGED <<profiles, identity, out, outConf, conf, marker, node, now, asked>>
    BY <1>3 DEF Truncate, Fill, speakers
  <2>7. JobTypes'
    BY <2>3, <2>4, <2>5, <2>6, Task_Begin DEF JobTypes, Kind
  <2>8. coeffs' \in [Name -> File]
    <3>1. job.profile \in Profile
      BY <2>1 DEF Job
    <3>2. out[job.profile][Unversioned(ch)] \in File
      BY <2>1, <3>1 DEF DiskTypes
    <3> QED BY <1>3, <3>2 DEF Truncate, Fill, DiskTypes, File
  <2> QED BY <2>6, <2>7, <2>8 DEF DiskTypes
<1>4. CASE Install
  <2>1. task["deploy"] \in Job["deploy"]
    BY <1>4, IdleIsNoJob DEF Install, Copying, Kind, Stages
  <2>2. task["deploy"].profile \in Profile
    BY <2>1 DEF Job
  <2>3. conf' \in Config \union {Gone}
    BY <1>4, <2>2 DEF Install, DiskTypes
  <2>4. UNCHANGED <<profiles, identity, out, outConf, coeffs, marker, node, now, asked>>
        /\ End("deploy")
    BY <1>4 DEF Install, speakers
  <2>5. JobTypes'
    BY <1>e, <2>4 DEF Kind
  <2> QED BY <2>3, <2>4, <2>5 DEF DiskTypes
<1>5. CASE Rollback
  <2> DEFINE For(r) == {n \in task["rollback"].names : n.ch = r.name.ch /\ r.name.ts > 0}
             New(r) == IF For(r) = {} THEN r
                       ELSE [dir |-> "coeffs", name |-> CHOOSE n \in For(r) : TRUE]
             refs == [k \in DOMAIN conf |-> New(conf[k])]
  <2>1. task["rollback"] \in Job["rollback"]
    BY <1>5, IdleIsNoJob DEF Rollback, Kind, Stages
  <2>2. \A r \in Ref : New(r) \in Ref
    <3> SUFFICES ASSUME NEW r \in Ref, For(r) # {} PROVE New(r) \in Ref
      OBVIOUS
    <3>1. (CHOOSE n \in For(r) : TRUE) \in Name
      BY <2>1 DEF Job
    <3> QED BY <3>1 DEF Ref
  <2>3. conf # Gone => refs \in Paths
    <3> SUFFICES ASSUME conf # Gone PROVE refs \in Paths
      OBVIOUS
    <3>1. DOMAIN conf \in SUBSET Key /\ \A k \in DOMAIN conf : conf[k] \in Ref
      BY RefsAre DEF DiskTypes
    <3> HIDE DEF New
    <3>2. refs \in [DOMAIN conf -> Ref]
      BY <2>2, <3>1
    <3> HIDE DEF refs
    <3> QED BY <3>1, <3>2, PathsAre
  <2>4. conf' = IF conf = Gone THEN conf ELSE refs
    BY <1>5 DEF Rollback
  <2> HIDE DEF refs
  <2>5. conf' \in Config \union {Gone}
    BY <2>3, <2>4 DEF DiskTypes, Config
  <2>6. UNCHANGED <<profiles, identity, out, outConf, coeffs, marker, node, now, asked>>
        /\ End("rollback")
    BY <1>5 DEF Rollback, speakers
  <2>7. JobTypes'
    BY <1>e, <2>6 DEF Kind
  <2> QED BY <2>5, <2>6, <2>7 DEF DiskTypes
<1>6. CASE Snapshot
  <2>1. task["snapshot"] \in Job["snapshot"]
    BY <1>6, IdleIsNoJob DEF Snapshot, Kind, Stages
  <2>2. PICK made \in SUBSET Name : \E from \in [made -> Name] :
          coeffs' = [n \in Name |-> IF n \in made THEN coeffs[from[n]] ELSE coeffs[n]]
    BY <1>6, <2>1, SnapshotIs
  <2>3. coeffs' \in [Name -> File]
    BY <2>2 DEF DiskTypes
  <2>4. UNCHANGED <<profiles, identity, out, outConf, conf, marker, node, now, asked>>
        /\ End("snapshot")
    BY <1>6 DEF Snapshot, speakers
  <2>5. JobTypes'
    BY <1>e, <2>4 DEF Kind
  <2> QED BY <2>3, <2>4, <2>5 DEF DiskTypes
<1>7. ASSUME NEW ch \in Standard, Cleanup(ch) PROVE FilterTypes'
  <2> DEFINE job == task["cleanup"]
  <2>1. job \in Job["cleanup"]
    BY <1>7, IdleIsNoJob DEF Cleanup, Kind, Stages
  <2>2. coeffs' \in [Name -> File]
    BY <1>7 DEF Cleanup, DiskTypes, File
  <2>3. UNCHANGED <<profiles, identity, out, outConf, conf, marker, node, now, asked>>
        /\ task' = [task EXCEPT !["cleanup"] =
                      IF job.left = {ch} THEN Idle ELSE [job EXCEPT !.left = job.left \ {ch}]]
    BY <1>7 DEF Cleanup, speakers
  <2>4. CASE job.left = {ch}
    <3>1. End("cleanup")
      BY <2>3, <2>4 DEF End
    <3>2. JobTypes'
      BY <1>e, <2>3, <3>1 DEF Kind
    <3> QED BY <2>2, <2>3, <3>2 DEF DiskTypes
  <2>5. CASE job.left # {ch}
    <3> DEFINE rest == [job EXCEPT !.left = job.left \ {ch}]
    <3>1. rest \in Job["cleanup"]
      BY <2>1 DEF Job
    <3>2. task' = [task EXCEPT !["cleanup"] = rest]
      BY <2>3, <2>5
    <3> HIDE DEF rest
    <3>3. task'["generate"] = task["generate"]
      BY <3>2 DEF JobTypes, Kind
    <3>4. JobTypes'
      BY <2>3, <3>1, <3>2, <3>3, Task_Begin DEF JobTypes, Kind
    <3> QED BY <2>2, <2>3, <3>4 DEF DiskTypes
  <2> QED BY <2>4, <2>5
<1>8. CASE Muted
  <2> DEFINE p == task["activate"].profile
  <2>1. task["activate"] \in Job["activate"]
    BY <1>8, IdleIsNoJob DEF Muted, Kind, Stages
  <2>2. p \in Profile
    BY <2>1 DEF Job
  <2>3. profiles[p] # Gone => Generated(profiles[p], <<>>) \in Config
    <3>1. <<>> \in [{} -> Ref]
      OBVIOUS
    <3> QED BY <2>2, <3>1, GeneratedIs DEF DiskTypes
  <2>4. conf' \in Config \union {Gone} /\ marker' \in Profile \union {Gone}
    BY <1>8, <2>2, <2>3 DEF Muted, DiskTypes
  <2>5. UNCHANGED <<profiles, identity, out, outConf, coeffs, node, now, asked>>
        /\ End("activate")
    BY <1>8 DEF Muted, speakers
  <2>6. JobTypes'
    BY <1>e, <2>5 DEF Kind
  <2> QED BY <2>4, <2>5, <2>6 DEF DiskTypes
<1> QED
  BY <1>1, <1>2, <1>3, <1>4, <1>5, <1>6, <1>7, <1>8 DEF Progress

LEMMA Reload_Types == FilterTypes /\ Reload => FilterTypes'
<1> SUFFICES ASSUME FilterTypes, Reload PROVE FilterTypes'
  OBVIOUS
<1> DEFINE K == DOMAIN node.paths
           l == [k \in K |-> IF FileAt(node.paths[k]) # Gone
                              THEN FileAt(node.paths[k]) ELSE node.loaded[k]]
<1>1. node \in Node
  BY DEF FilterTypes, Reload
<1>2. node.paths \in Paths /\ node.loaded \in [K -> {"good", "bad"}]
  BY <1>1 DEF Node
<1>3. K \in SUBSET Key /\ \A k \in K : node.paths[k] \in Ref
  BY <1>2, PathsAre
<1>4. \A k \in K : FileAt(node.paths[k]) \in File
  BY <1>3, FileIs DEF FilterTypes
<1>5. l \in [K -> {"good", "bad"}]
  BY <1>2, <1>4 DEF File
<1>6. node' = [node EXCEPT !.loaded = l]
  BY <1>1, <1>2 DEF Reload
<1>7. DOMAIN l = K
  OBVIOUS
<1> HIDE DEF l
<1>8. node' \in Node
  BY <1>1, <1>3, <1>5, <1>6, <1>7 DEF Node
<1>9. UNCHANGED <<profiles, identity, out, outConf, coeffs, conf, marker, task, now, asked>>
  BY DEF Reload, disk, speakers
<1> QED BY <1>8, <1>9 DEF FilterTypes, DiskTypes, JobTypes

LEMMA Types_Next == FilterTypes /\ [FilterNext]_storeVars => FilterTypes'
<1> SUFFICES ASSUME FilterTypes, [FilterNext]_storeVars PROVE FilterTypes'
  OBVIOUS
<1>1. CASE Restart
  BY <1>1, BootedIs DEF FilterTypes, DiskTypes, JobTypes, Restart, disk, speakers
<1>2. CASE WebUiEnds
  <2>1. UNCHANGED <<profiles, identity, out, outConf, coeffs, conf, marker, node, now, asked>>
    BY <1>2 DEF WebUiEnds, disk, speakers
  <2>2. task' = [t \in Kind |-> Idle]
    BY <1>2 DEF WebUiEnds
  <2>3. JobTypes'
    BY <2>1, <2>2 DEF FilterTypes, JobTypes, AnyJob, Kind
  <2> QED BY <2>1, <2>3 DEF FilterTypes, DiskTypes
<1>3. CASE UNCHANGED storeVars
  BY <1>3 DEF FilterTypes, DiskTypes, JobTypes, storeVars, disk, speakers
<1> QED
  BY <1>1, <1>2, <1>3, Request_Types, Progress_Types, Reload_Types DEF FilterNext

LEMMA Past_Next == FilterTypes /\ PastTypes /\ [FilterNext]_storeVars => PastTypes'
<1> SUFFICES ASSUME FilterTypes, PastTypes, [FilterNext]_storeVars PROVE PastTypes'
  OBVIOUS
<1> USE DEF FilterTypes, PastTypes, Kind
<1>0. \A ns \in SUBSET Name, d \in Profile \union {"coeffs"} : Filters(d, ns) \subseteq Ref
  BY DEF Filters, Ref
<1>1. ASSUME NEW p \in Profile, RunCorrection(p) PROVE PastTypes'
  BY <1>0, <1>1 DEF RunCorrection, Write
<1>2. CASE Export
  <2>1. task["generate"].profile \in Profile
    BY <1>2, IdleIsNoJob DEF Export, Stages, Job
  <2>2. PICK files \in SUBSET Name : Write(task["generate"].profile, files)
    BY <1>2 DEF Export
  <2> QED BY <1>0, <2>1, <2>2 DEF Write
<1>3. ASSUME NEW ch \in Standard, Truncate(ch) \/ Fill(ch) PROVE PastTypes'
  <2>1. Unversioned(ch) \in Name
    BY ChannelNames, FilterStoreAssumption DEF Unversioned, Name
  <2> QED BY <1>0, <1>3, <2>1 DEF Truncate, Fill
<1>4. CASE Snapshot
  <2>1. task["snapshot"] \in Job["snapshot"]
    BY <1>4, IdleIsNoJob DEF Snapshot, Stages
  <2>2. PICK new \in SUBSET Name : raced' = raced \union Filters("coeffs", new)
    BY <1>4, <2>1, SnapshotIs
  <2> QED BY <1>0, <1>4, <2>2 DEF Snapshot
<1>5. ASSUME NEW ch \in Standard, Cleanup(ch) PROVE PastTypes'
  BY <1>5 DEF Cleanup, Old, Versions, Names
<1>6. ASSUME NEW keep \in Keep, CleanupBegin(keep) PROVE PastTypes'
  BY <1>6, ActiveNamesAre DEF CleanupBegin
<1>7. ASSUME (\E p \in Profile : DeployBegin(p)) \/ \E ts \in 1..MaxTime : RollbackBegin(ts)
      PROVE  PastTypes'
  BY <1>7 DEF DeployBegin, RollbackBegin
<1>8. Edit \/ Configure \/ Install \/ Rollback \/ Muted => UNCHANGED past
  BY DEF Edit, Configure, Install, Rollback, Muted
<1>9. SnapshotBegin \/ (\E p \in Profile : GenerateBegin(p) \/ ActivateBegin(p))
        => UNCHANGED past
  BY DEF SnapshotBegin, GenerateBegin, ActivateBegin
<1>10. Reload \/ Restart \/ WebUiEnds \/ UNCHANGED storeVars => UNCHANGED past
  BY DEF Reload, Restart, WebUiEnds, storeVars
<1>11. UNCHANGED past => PastTypes'
  BY DEF past
<1> QED
  BY <1>1, <1>2, <1>3, <1>4, <1>5, <1>6, <1>7, <1>8, <1>9, <1>10, <1>11
  DEF FilterNext, Request, Progress

(* The types of FilterStore: profiles, filters, configurations, what the   *)
(* convolver has and what each request is about.                           *)
THEOREM FilterTypesHold == FilterSpec => []FilterTypeOK
<1>1. FilterTypes /\ PastTypes => FilterTypeOK
  <2> SUFFICES ASSUME FilterTypes, PastTypes PROVE FilterTypeOK
    OBVIOUS
  <2>1. \A c \in {outConf[p] : p \in Profile} \union {conf} :
          c # Gone => DOMAIN c \subseteq Key /\ Refs(c) \subseteq Ref
    <3> SUFFICES ASSUME NEW c \in Config
                 PROVE  DOMAIN c \subseteq Key /\ Refs(c) \subseteq Ref
      BY DEF FilterTypes, DiskTypes
    <3> QED BY RefsAre DEF Refs
  <2>2. node # Down => DOMAIN node.paths \subseteq Key
                       /\ node.loaded \in [DOMAIN node.paths -> {"good", "bad"}]
    <3> SUFFICES ASSUME node \in Node
                 PROVE  DOMAIN node.paths \subseteq Key
                        /\ node.loaded \in [DOMAIN node.paths -> {"good", "bad"}]
      BY DEF FilterTypes
    <3> QED BY PathsAre DEF Node
  <2>3. \A t \in Kind : task[t].at \in {"idle"} \union Stages[t]
    BY DEF FilterTypes, JobTypes, Kind, Job, Stages, Idle
  <2>4. now \in 0..MaxTime /\ asked \in 0..MaxRequests
    BY DEF FilterTypes, JobTypes
  <2> QED BY <2>1, <2>2, <2>3, <2>4 DEF FilterTypeOK, FilterTypes, DiskTypes, File, PastTypes
<1>2. FilterInit => PastTypes
  BY DEF FilterInit, PastTypes
<1> QED BY <1>1, <1>2, Types_Init, Types_Next, Past_Next, PTL DEF FilterSpec

-----------------------------------------------------------------------------
(* No removal of the newest version.                                       *)

(* Whatever is asked for in whatever order, interrupted or not, a channel's *)
(* newest version stays on the disk.                                       *)
THEOREM NewestSurvivesHolds == FilterSpec => NewestSurvives
<1>1. ASSUME FilterTypes, [FilterNext]_storeVars, NEW n \in Names(coeffs), n.ts > 0,
             \A m \in Versions(coeffs, n.ch) : m.ts <= n.ts
      PROVE  Present(coeffs', n)
  <2>0. n \in Name /\ n.ts \in Nat /\ coeffs[n] # Gone
    BY <1>1, FilterStoreAssumption DEF Names, Present, Name
  <2>1. ASSUME NEW ch \in Standard, Truncate(ch) \/ Fill(ch) PROVE Present(coeffs', n)
    <3>1. n # Unversioned(ch)
      BY <2>0, <1>1, FilterStoreAssumption DEF Unversioned
    <3> QED BY <1>1, <2>0, <2>1, <3>1 DEF Truncate, Fill, Present, FilterTypes, DiskTypes
  <2>2. CASE Snapshot
    <3>1. task["snapshot"] \in Job["snapshot"]
      BY <1>1, <2>2, IdleIsNoJob DEF Snapshot, Kind, Stages, FilterTypes
    <3> QED BY <2>0, <2>2, <3>1, SnapshotIs DEF Present
  <2>3. ASSUME NEW ch \in Standard, Cleanup(ch) PROVE Present(coeffs', n)
    <3>1. task["cleanup"] \in Job["cleanup"]
      BY <1>1, <2>3, IdleIsNoJob DEF Cleanup, Kind, Stages, FilterTypes
    <3>2. task["cleanup"].keep \in Nat \ {0}
      BY <3>1, FilterStoreAssumption DEF Job
    <3>3. n \in Old(ch, task["cleanup"].keep) => n.ch = ch
      BY DEF Old, Versions
    <3>4. \A m \in Versions(coeffs, n.ch) : m.ts \in Nat
      BY FilterStoreAssumption DEF Versions, Names, Name
    <3>5. {m \in Versions(coeffs, n.ch) : m.ts > n.ts} = {}
      BY <1>1, <2>0, <3>4
    <3>6. n \notin Old(ch, task["cleanup"].keep)
      BY <3>2, <3>3, <3>5, FS_EmptySet DEF Old
    <3> QED BY <2>0, <2>3, <3>6 DEF Cleanup, Present
  <2>4. CASE UNCHANGED coeffs
    BY <1>1, <2>0, <2>4 DEF Present
  <2>5. Edit \/ Export \/ Configure \/ Install \/ Rollback \/ Muted => UNCHANGED coeffs
    BY DEF Edit, Export, Configure, Install, Rollback, Muted
  <2>6. Request => UNCHANGED coeffs
    BY <2>5 DEF Request, GenerateBegin, RunCorrection, DeployBegin, ActivateBegin,
                RollbackBegin, SnapshotBegin, CleanupBegin, disk
  <2>7. Reload \/ Restart \/ WebUiEnds \/ UNCHANGED storeVars => UNCHANGED coeffs
    BY DEF Reload, Restart, WebUiEnds, storeVars, disk
  <2> QED BY <1>1, <2>1, <2>2, <2>3, <2>4, <2>5, <2>6, <2>7 DEF FilterNext, Progress
<1>2. FilterTypes /\ [FilterNext]_storeVars =>
        [\A n \in Names(coeffs) :
           n.ts > 0 /\ (\A m \in Versions(coeffs, n.ch) : m.ts <= n.ts)
             => Present(coeffs', n)]_storeVars
  BY <1>1
<1> QED BY <1>2, Types_Init, Types_Next, PTL DEF FilterSpec, NewestSurvives

-----------------------------------------------------------------------------
(* Generated configurations.                                               *)

(* One generation at a time, each in a second of its own.                  *)
LEMMA GenerateStep ==
  ASSUME FilterTypes, [FilterNext]_storeVars
  PROVE  /\ now' \in {now, now + 1}
         /\ task'["generate"].at = "export" =>
              task'["generate"] = task["generate"] \/ task'["generate"].ts = now + 1
<1> USE DEF FilterTypes, JobTypes, Kind
<1>0. "generate" \in Kind /\ DOMAIN task = Kind
  OBVIOUS
<1>1. ASSUME NEW p \in Profile, GenerateBegin(p)
      PROVE  now' = now + 1 /\ task'["generate"].ts = now + 1
  BY <1>0, <1>1 DEF GenerateBegin, Later, Begin
<1>2. ASSUME NEW t \in Kind \ {"generate"}, NEW job, Begin(t, job)
      PROVE  task'["generate"] = task["generate"]
  BY <1>0, <1>2 DEF Begin
<1>3. SnapshotBegin => now' = now + 1 /\ task'["generate"] = task["generate"]
  BY <1>2 DEF SnapshotBegin, Later
<1>4. /\ Edit => UNCHANGED <<now, task>>
      /\ \A p \in Profile :
           /\ RunCorrection(p) => UNCHANGED <<now, task>>
           /\ DeployBegin(p) \/ ActivateBegin(p)
                => now' = now /\ task'["generate"] = task["generate"]
      /\ \A ts \in 1..MaxTime :
           RollbackBegin(ts) => now' = now /\ task'["generate"] = task["generate"]
      /\ \A keep \in Keep :
           CleanupBegin(keep) => now' = now /\ task'["generate"] = task["generate"]
  BY <1>2 DEF Edit, RunCorrection, DeployBegin, ActivateBegin, RollbackBegin, CleanupBegin
<1>5. Export \/ Configure => now' = now /\ task'["generate"].at # "export"
  <2>1. Configure => now' = now /\ task'["generate"].at # "export"
    BY <1>0 DEF Configure, End, Idle
  <2>2. ASSUME Export PROVE now' = now /\ task'["generate"].at # "export"
    <3>1. task["generate"] \in Job["generate"]
      BY <2>2, IdleIsNoJob DEF Export, Stages
    <3>2. End("generate") => task'["generate"].at # "export"
      BY <1>0 DEF End, Idle
    <3>3. Go("generate", "configure")
            => task'["generate"] = [task["generate"] EXCEPT !.at = "configure"]
      BY <1>0 DEF Go
    <3>4. [task["generate"] EXCEPT !.at = "configure"].at = "configure"
      BY <3>1 DEF Job
    <3> QED BY <2>2, <3>2, <3>3, <3>4 DEF Export
  <2> QED BY <2>1, <2>2
<1>6. Install \/ Rollback \/ Snapshot \/ Muted
        => now' = now /\ task'["generate"] = task["generate"]
  BY <1>0 DEF Install, Rollback, Snapshot, Muted, End
<1>7. ASSUME NEW ch \in Standard, Truncate(ch) \/ Fill(ch) \/ Cleanup(ch)
      PROVE  now' = now /\ task'["generate"] = task["generate"]
  BY <1>0, <1>7 DEF Truncate, Fill, Cleanup
<1>8. Reload \/ Restart \/ UNCHANGED storeVars => UNCHANGED <<now, task>>
  BY DEF Reload, Restart, storeVars
<1>9. WebUiEnds => now' = now /\ task'["generate"].at # "export"
  BY <1>0 DEF WebUiEnds, Idle
<1> QED
  BY <1>1, <1>3, <1>4, <1>5, <1>6, <1>7, <1>8, <1>9 DEF FilterNext, Request, Progress

LEMMA DraftedStays ==
  ASSUME FilterTypes, [FilterNext]_storeVars, NEW p, NEW r \in Ref, Drafted(r, p)
  PROVE  Drafted(r, p)'
<1>1. now \in Int /\ r.name.ts \in Int
  BY FilterStoreAssumption DEF FilterTypes, JobTypes, Ref, Name
<1> QED
  BY <1>1, GenerateStep DEF Drafted

LEMMA OutConfOr ==
  ASSUME [FilterNext]_storeVars
  PROVE  UNCHANGED outConf \/ Configure
<1>1. Edit \/ Export \/ Install \/ Rollback \/ Snapshot \/ Muted => UNCHANGED outConf
  BY DEF Edit, Export, Install, Rollback, Snapshot, Muted
<1>2. Request => UNCHANGED outConf
  BY <1>1 DEF Request, GenerateBegin, RunCorrection, DeployBegin, ActivateBegin,
              RollbackBegin, SnapshotBegin, CleanupBegin, disk
<1>3. (\E ch \in Standard : Truncate(ch) \/ Fill(ch) \/ Cleanup(ch)) => UNCHANGED outConf
  BY DEF Truncate, Fill, Cleanup
<1>4. Reload \/ Restart \/ WebUiEnds \/ UNCHANGED storeVars => UNCHANGED outConf
  BY DEF Reload, Restart, WebUiEnds, storeVars, disk
<1> QED BY <1>1, <1>2, <1>3, <1>4 DEF FilterNext, Progress

LEMMA RefsTyped ==
  ASSUME FilterTypes, NEW c \in Config \union {Gone}
  PROVE  \A r \in Refs(c) : r \in Ref
  BY RefsAre DEF Refs

LEMMA Drafts_Next == FilterTypes /\ Drafts /\ [FilterNext]_storeVars => Drafts'
<1> SUFFICES ASSUME FilterTypes, Drafts, [FilterNext]_storeVars,
                    NEW p \in Profile, NEW r \in Refs(outConf'[p])
             PROVE  Drafted(r, p)'
  BY DEF Drafts, Refs
<1>1. CASE outConf'[p] = outConf[p]
  <2>1. r \in Ref /\ Drafted(r, p)
    BY <1>1, RefsTyped DEF Drafts, FilterTypes, DiskTypes, Refs
  <2> QED BY <2>1, DraftedStays
<1>2. CASE outConf'[p] # outConf[p]
  <2> DEFINE job == task["generate"]
             given == [k \in job.keys |-> [dir |-> p, name |-> [ch |-> k, ts |-> job.ts]]]
  <2>0. Configure
    BY <1>2, OutConfOr
  <2>1. job \in Job["generate"]
    BY <2>0, IdleIsNoJob DEF Configure, Kind, Stages, FilterTypes
  <2>2. p = job.profile /\ profiles[p] # Gone
        /\ outConf'[p] = Generated(profiles[p], given)
    BY <1>2, <2>0 DEF Configure, FilterTypes, DiskTypes
  <2>3. given \in [job.keys -> Ref] /\ job.keys \in SUBSET Key
    BY <2>1, FilterStoreAssumption DEF Job, Ref, Name
  <2>4. profiles[p] \in Content
    BY <2>2 DEF FilterTypes, DiskTypes
  <2>5. PICK k \in DOMAIN outConf'[p] : r = outConf'[p][k]
    BY DEF Refs
  <2>6. \/ k \in job.keys /\ r = given[k]
        \/ r.dir = "coeffs" /\ r.name.ts = 0
    <3> HIDE DEF job, given
    <3>1. \A x \in DOMAIN Generated(profiles[p], given) :
            \/ x \in job.keys /\ Generated(profiles[p], given)[x] = given[x]
            \/ /\ Generated(profiles[p], given)[x].dir = "coeffs"
               /\ Generated(profiles[p], given)[x].name.ts = 0
      BY <2>3, <2>4, GeneratedIs
    <3> QED BY <2>2, <2>5, <3>1
  <2>7. now' = now /\ task'["generate"].at = "idle" /\ job.ts \in 1..now
    BY <2>0, <2>1 DEF Configure, End, Idle, FilterTypes, JobTypes, Kind, Job
  <2>8. k \in job.keys /\ r = given[k] => r.dir = p /\ r.name.ts = job.ts
    OBVIOUS
  <2> HIDE DEF given
  <2> QED BY <2>6, <2>7, <2>8 DEF Drafted
<1> QED BY <1>1, <1>2

LEMMA Drafts_Init == FilterInit => Drafts
  BY DEF FilterInit, Drafts, Refs

-----------------------------------------------------------------------------
(* The versions in use.                                                    *)

(* Only a clean-up removes a version, and only the names of versions that  *)
(* it removes are added to those that were lost.                           *)
LEMMA VersionStays ==
  ASSUME FilterTypes, [FilterNext]_storeVars, VersionsHeld,
         NEW n \in Name, n.ts > 0, n \in Wanted, Present(coeffs, n) \/ n \in lost
  PROVE  Present(coeffs', n) \/ n \in lost'
<1> USE DEF Kind
<1>1. ASSUME NEW ch \in Standard, Truncate(ch) \/ Fill(ch) PROVE Present(coeffs', n) \/ n \in lost'
  <2>1. n # Unversioned(ch)
    BY FilterStoreAssumption DEF Unversioned, Name
  <2> QED BY <1>1, <2>1 DEF Truncate, Fill, Present, FilterTypes, DiskTypes
<1>2. CASE Snapshot
  <2>1. task["snapshot"] \in Job["snapshot"]
    BY <1>2, IdleIsNoJob DEF Snapshot, Stages, FilterTypes
  <2>2. lost' = lost
    BY <1>2 DEF Snapshot
  <2> QED BY <2>1, <2>2, <1>2, SnapshotIs DEF Present
<1>3. ASSUME NEW ch \in Standard, Cleanup(ch) PROVE Present(coeffs', n) \/ n \in lost'
  <2>1. task["cleanup"] \in Job["cleanup"] /\ task["cleanup"] # Idle
    BY <1>3, IdleIsNoJob DEF Cleanup, Stages, FilterTypes, Idle
  <2>2. task["cleanup"].active = inUse
    BY <2>1 DEF VersionsHeld
  <2>3. n \in Old(ch, task["cleanup"].keep) \ inUse => n \in lost'
    BY <1>3, <2>2 DEF Cleanup
  <2>4. n \notin Old(ch, task["cleanup"].keep) \ inUse => coeffs'[n] = coeffs[n]
    BY <1>3, <2>2 DEF Cleanup
  <2>5. lost \subseteq lost'
    BY <1>3 DEF Cleanup
  <2> QED BY <2>3, <2>4, <2>5 DEF Present
<1>4. Edit \/ Export \/ Configure \/ Install \/ Rollback \/ Muted => UNCHANGED <<coeffs, lost>>
  BY DEF Edit, Export, Configure, Install, Rollback, Muted, Write, past
<1>5. Request => UNCHANGED <<coeffs, lost>>
  BY <1>4 DEF Request, GenerateBegin, RunCorrection, DeployBegin, ActivateBegin,
              RollbackBegin, SnapshotBegin, CleanupBegin, Write, disk, past
<1>6. Reload \/ Restart \/ WebUiEnds \/ UNCHANGED storeVars => UNCHANGED <<coeffs, lost>>
  BY DEF Reload, Restart, WebUiEnds, storeVars, disk, past
<1>7. UNCHANGED <<coeffs, lost>> => Present(coeffs', n) \/ n \in lost'
  BY DEF Present
<1> QED BY <1>1, <1>2, <1>3, <1>4, <1>5, <1>6, <1>7 DEF FilterNext, Progress

(* What a rollback puts into the configuration.                            *)
LEMMA RollbackRefs ==
  ASSUME FilterTypes, Rollback, NEW r \in Refs(conf')
  PROVE  \/ r \in Refs(conf)
         \/ /\ task["rollback"] # Idle /\ r.name \in task["rollback"].names
            /\ r \in Ref /\ r.dir = "coeffs"
<1> DEFINE job == task["rollback"]
           For(x) == {n \in job.names : n.ch = x.name.ch /\ x.name.ts > 0}
           New(x) == IF For(x) = {} THEN x
                     ELSE [dir |-> "coeffs", name |-> CHOOSE n \in For(x) : TRUE]
           refs == [k \in DOMAIN conf |-> New(conf[k])]
<1>1. job \in Job["rollback"] /\ job # Idle
  BY IdleIsNoJob DEF Rollback, Kind, Stages, FilterTypes, Idle
<1>2. \A x : New(x) = x \/ (New(x) \in Ref /\ New(x).dir = "coeffs" /\ New(x).name \in job.names)
  <2> SUFFICES ASSUME NEW x, For(x) # {}
               PROVE  New(x) \in Ref /\ New(x).dir = "coeffs" /\ New(x).name \in job.names
    OBVIOUS
  <2>1. (CHOOSE n \in For(x) : TRUE) \in job.names
    OBVIOUS
  <2> QED BY <1>1, <2>1 DEF Job, Ref
<1>3. conf' = IF conf = Gone THEN conf ELSE refs
  BY DEF Rollback
<1>4. CASE conf = Gone
  BY <1>3, <1>4 DEF Refs
<1>5. CASE conf # Gone
  <2>1. PICK k \in DOMAIN refs : r = refs[k]
    BY <1>3, <1>5 DEF Refs
  <2>2. k \in DOMAIN conf /\ r = New(conf[k])
    BY <2>1
  <2>3. conf[k] \in Refs(conf)
    BY <1>5, <2>2 DEF Refs
  <2> HIDE DEF New
  <2> QED BY <1>1, <1>2, <2>2, <2>3
<1> QED BY <1>4, <1>5

(* What an activation does: default names only.                            *)
LEMMA MutedRefs ==
  ASSUME FilterTypes, Muted, NEW r \in Refs(conf')
  PROVE  r \in Refs(conf) \/ (r.dir = "coeffs" /\ r.name.ts = 0)
<1> DEFINE p == task["activate"].profile
<1>1. task["activate"] \in Job["activate"]
  BY IdleIsNoJob DEF Muted, Kind, Stages, FilterTypes
<1>2. profiles[p] # Gone => profiles[p] \in Content
  BY <1>1 DEF Job, FilterTypes, DiskTypes
<1>3. conf' = conf \/ (profiles[p] # Gone /\ conf' = Generated(profiles[p], <<>>))
  BY DEF Muted
<1> HIDE DEF p
<1> QED BY <1>2, <1>3, DefaultRefs

LEMMA ConfOr ==
  ASSUME [FilterNext]_storeVars
  PROVE  UNCHANGED conf \/ Install \/ Rollback \/ Muted
<1>1. Edit \/ Export \/ Configure \/ Snapshot => UNCHANGED conf
  BY DEF Edit, Export, Configure, Snapshot
<1>2. Request => UNCHANGED conf
  BY <1>1 DEF Request, GenerateBegin, RunCorrection, DeployBegin, ActivateBegin,
              RollbackBegin, SnapshotBegin, CleanupBegin, disk
<1>3. (\E ch \in Standard : Truncate(ch) \/ Fill(ch) \/ Cleanup(ch)) => UNCHANGED conf
  BY DEF Truncate, Fill, Cleanup
<1>4. Reload \/ Restart \/ WebUiEnds \/ UNCHANGED storeVars => UNCHANGED conf
  BY DEF Reload, Restart, WebUiEnds, storeVars, disk
<1> QED BY <1>1, <1>2, <1>3, <1>4 DEF FilterNext, Progress

(* What comes into the configuration: drafts, versions that a rollback     *)
(* names, files without a timestamp.                                       *)
LEMMA ConfFrom ==
  ASSUME FilterTypes, [FilterNext]_storeVars, NEW r \in Refs(conf')
  PROVE  \/ r \in Refs(conf)
         \/ /\ Install /\ task["deploy"] # Idle /\ task["deploy"].profile \in Profile
            /\ r \in Refs(outConf[task["deploy"].profile])
         \/ /\ Rollback /\ task["rollback"] # Idle /\ r.name \in task["rollback"].names
            /\ r.dir = "coeffs"
         \/ r.dir = "coeffs" /\ r.name.ts = 0
<1>1. CASE Install
  <2>1. task["deploy"] \in Job["deploy"] /\ task["deploy"] # Idle
    BY <1>1, IdleIsNoJob DEF Install, Copying, Kind, Stages, FilterTypes, Idle
  <2> QED BY <1>1, <2>1 DEF Install, Job
<1>2. CASE UNCHANGED conf
  BY <1>2
<1> QED BY <1>1, <1>2, RollbackRefs, MutedRefs, ConfOr

(* The jobs of rollbacks and clean-ups.                                    *)
LEMMA VersionJobs ==
  ASSUME FilterTypes, [FilterNext]_storeVars
  PROVE  /\ \/ task'["rollback"] \in {task["rollback"], Idle}
            \/ \E ts \in 1..MaxTime : RollbackBegin(ts)
         /\ \/ task'["cleanup"] = Idle
            \/ /\ task["cleanup"] # Idle /\ inUse' = inUse
               /\ task'["cleanup"].active = task["cleanup"].active
            \/ \E keep \in Keep : CleanupBegin(keep)
<1> USE DEF FilterTypes, JobTypes, Kind
<1> DEFINE Kept == /\ task'["rollback"] \in {task["rollback"], Idle}
                   /\ task'["cleanup"] \in {task["cleanup"], Idle}
                   /\ inUse' = inUse
<1>0. DOMAIN task = Kind
  OBVIOUS
<1>1. ASSUME NEW t \in Kind \ {"rollback", "cleanup"}, NEW job, Begin(t, job), UNCHANGED inUse
      PROVE  Kept
  BY <1>0, <1>1 DEF Begin
<1>2. SnapshotBegin \/ (\E p \in Profile : GenerateBegin(p) \/ DeployBegin(p) \/ ActivateBegin(p))
        => Kept
  BY <1>1 DEF SnapshotBegin, GenerateBegin, DeployBegin, ActivateBegin, past
<1>3. Edit \/ (\E p \in Profile : RunCorrection(p)) => Kept
  BY DEF Edit, RunCorrection, Write, past
<1>4. ASSUME NEW ts \in 1..MaxTime, RollbackBegin(ts)
      PROVE  task'["cleanup"] = task["cleanup"] /\ inUse' = inUse
  BY <1>0, <1>4 DEF RollbackBegin, Begin
<1>5. ASSUME NEW keep \in Keep, CleanupBegin(keep) PROVE task'["rollback"] = task["rollback"]
  BY <1>0, <1>5 DEF CleanupBegin, Begin
<1>6. Export \/ Configure \/ Install \/ Snapshot \/ Muted \/ Rollback => Kept
  BY <1>0 DEF Export, Configure, Install, Snapshot, Muted, Rollback, End, Go, Write, past
<1>7. ASSUME NEW ch \in Standard, Truncate(ch) \/ Fill(ch) PROVE Kept
  BY <1>0, <1>7 DEF Truncate, Fill
<1>8. ASSUME NEW ch \in Standard, Cleanup(ch)
      PROVE  /\ task'["rollback"] = task["rollback"]
             /\ \/ task'["cleanup"] = Idle
                \/ /\ task["cleanup"] # Idle /\ inUse' = inUse
                   /\ task'["cleanup"].active = task["cleanup"].active
  <2>1. task["cleanup"] \in Job["cleanup"] /\ task["cleanup"] # Idle
    BY <1>8, IdleIsNoJob DEF Cleanup, Stages, Idle
  <2>2. [task["cleanup"] EXCEPT !.left = @ \ {ch}].active = task["cleanup"].active
    BY <2>1 DEF Job
  <2> QED BY <1>0, <1>8, <2>1, <2>2 DEF Cleanup
<1>9. Reload \/ Restart \/ WebUiEnds \/ UNCHANGED storeVars => Kept
  BY <1>0 DEF Reload, Restart, WebUiEnds, storeVars, past
<1> QED
  BY <1>2, <1>3, <1>4, <1>5, <1>6, <1>7, <1>8, <1>9 DEF FilterNext, Request, Progress

LEMMA VersionsHeld_Next ==
  FilterTypes /\ Drafts /\ VersionsHeld /\ [FilterNext]_storeVars => VersionsHeld'
<1> SUFFICES ASSUME FilterTypes, Drafts, VersionsHeld, [FilterNext]_storeVars
             PROVE  VersionsHeld'
  OBVIOUS
<1> USE DEF Kind
<1>1. \A r \in Refs(conf) : r \in Ref /\ r.name \in Name /\ r.name \in Wanted
  BY RefsTyped DEF FilterTypes, DiskTypes, Ref, Wanted, ActiveNames
<1>2. task["rollback"] # Idle =>
        /\ task["rollback"].names \subseteq Name
        /\ task["rollback"].names \subseteq Wanted
  BY DEF FilterTypes, JobTypes, Job, Wanted
<1>3. ASSUME NEW r \in Refs(conf'), r.dir = "coeffs", r.name.ts > 0
      PROVE  Present(coeffs', r.name) \/ r.name \in lost'
  <2>1. CASE r \in Refs(conf)
    BY <1>1, <1>3, <2>1, VersionStays DEF VersionsHeld
  <2>2. CASE task["rollback"] # Idle /\ r.name \in task["rollback"].names
    BY <1>2, <1>3, <2>2, VersionStays DEF VersionsHeld
  <2>3. ASSUME task["deploy"].profile \in Profile, r \in Refs(outConf[task["deploy"].profile])
        PROVE  FALSE
    BY <1>3, <2>3, FilterStoreAssumption DEF Drafts, Drafted
  <2>4. r.name.ts # 0
    BY <1>3
  <2> QED BY <2>1, <2>2, <2>3, <2>4, ConfFrom
<1>4. ASSUME task'["rollback"] # Idle, NEW n \in task'["rollback"].names
      PROVE  n.ts > 0 /\ (Present(coeffs', n) \/ n \in lost')
  <2>1. CASE task'["rollback"] = task["rollback"]
    BY <1>2, <1>4, <2>1, VersionStays DEF VersionsHeld
  <2>2. ASSUME NEW ts \in 1..MaxTime, RollbackBegin(ts)
        PROVE  n.ts > 0 /\ (Present(coeffs', n) \/ n \in lost')
    <3>1. task'["rollback"].names = {m \in Names(coeffs) : m.ts = ts}
          /\ UNCHANGED <<coeffs, lost>>
      BY <2>2 DEF RollbackBegin, Begin, FilterTypes, JobTypes, disk
    <3> QED BY <1>4, <2>2, <3>1 DEF Names, RollbackBegin
  <2> QED BY <1>4, <2>1, <2>2, VersionJobs
<1>5. ASSUME task'["cleanup"] # Idle PROVE task'["cleanup"].active = inUse'
  <2>1. ASSUME NEW keep \in Keep, CleanupBegin(keep)
        PROVE  task'["cleanup"].active = inUse'
    BY <2>1 DEF CleanupBegin, Begin, FilterTypes, JobTypes
  <2> QED BY <1>5, <2>1, VersionJobs DEF VersionsHeld
<1>6. Refs(conf)' = Refs(conf')
  BY DEF Refs
<1> QED BY <1>3, <1>4, <1>5, <1>6 DEF VersionsHeld, Present

(* A version that the configuration names is there, whatever is done       *)
(* meanwhile: one is missing only if the configuration did not name it yet *)
(* when the clean-up began that removed it.                                *)
THEOREM ActiveVersionsExistHolds == FilterSpec => []ActiveVersionsExist
<1>1. FilterInit => VersionsHeld
  <2> SUFFICES ASSUME FilterInit PROVE VersionsHeld
    OBVIOUS
  <2>1. PICK ts \in {0, 1} :
          /\ coeffs = [n \in Name |->
                         IF n.ch \in Channel /\ n.ts = ts THEN "good" ELSE Gone]
          /\ conf \in {Gone,
                       [k \in Key |-> [dir |-> "coeffs",
                                      name |-> [ch |-> Suffix[k], ts |-> ts]]]}
    BY DEF FilterInit
  <2>2. \A r \in Refs(conf) : r.name.ch \in Channel /\ r.name.ts = ts /\ r.name \in Name
    <3> SUFFICES ASSUME NEW r \in Refs(conf)
                 PROVE  r.name.ch \in Channel /\ r.name.ts = ts /\ r.name \in Name
      OBVIOUS
    <3>1. PICK k \in Key : r = [dir |-> "coeffs", name |-> [ch |-> Suffix[k], ts |-> ts]]
      BY <2>1 DEF Refs
    <3> QED BY <3>1, ChannelNames, FilterStoreAssumption DEF Name
  <2>3. \A r \in Refs(conf) : Present(coeffs, r.name)
    BY <2>1, <2>2, FilterStoreAssumption DEF Present
  <2>4. task["rollback"] = Idle /\ task["cleanup"] = Idle
    BY DEF FilterInit, Kind
  <2> QED BY <2>3, <2>4 DEF VersionsHeld
<1>2. VersionsHeld => ActiveVersionsExist
  BY DEF VersionsHeld, ActiveVersionsExist, Present, FileAt
<1> QED
  BY <1>1, <1>2, VersionsHeld_Next, Types_Init, Types_Next, Drafts_Init, Drafts_Next, PTL
  DEF FilterSpec

-----------------------------------------------------------------------------
(* What sounds passed the check.                                           *)

LEMMA UsedTyped ==
  ASSUME FilterTypes
  PROVE  \A r \in Used : r \in Ref /\ r.name \in Name /\ (r.dir = "coeffs" \/ r.dir \in Profile)
<1>1. \A r \in Refs(conf) : r \in Ref
  BY RefsTyped DEF FilterTypes, DiskTypes
<1>2. \A r \in NodePaths : r \in Ref
  <2> SUFFICES ASSUME node \in Node, NEW k \in DOMAIN node.paths PROVE node.paths[k] \in Ref
    BY DEF NodePaths, FilterTypes
  <2>1. node.paths \in Paths
    BY DEF Node
  <2> QED BY <2>1, PathsAre
<1> QED BY <1>1, <1>2 DEF Used, Ref

(* The same of the next state. *)
LEMMA UsedTypedNext == FilterTypes' => (\A r \in Used : r \in Ref)'
<1>1. FilterTypes => \A r \in Used : r \in Ref
  BY UsedTyped
<1> QED BY <1>1, PTL

(* In the coefficients directory: what is copied passes or was raced where *)
(* it comes from.                                                          *)
LEMMA CoeffsSound ==
  ASSUME FilterTypes, FilesSound, [FilterNext]_storeVars
  PROVE  \A n \in Name : coeffs'[n] = "bad" => [dir |-> "coeffs", name |-> n] \in raced'
<1> USE DEF Kind
<1> DEFINE At(n) == [dir |-> "coeffs", name |-> n]
<1>0. /\ \A n \in Name : coeffs[n] = "bad" => At(n) \in raced
      /\ \A n \in Name, p \in Profile : \A ns : At(n) \notin Filters(p, ns)
      /\ \A n \in Name : \A ns : At(n) \in Filters("coeffs", ns) <=> n \in ns
  BY FilterStoreAssumption DEF FilesSound, PassesOrRaced, FileAt, Filters
<1> SUFFICES ASSUME NEW n \in Name, coeffs'[n] = "bad" PROVE At(n) \in raced'
  OBVIOUS
<1>a. ASSUME UNCHANGED coeffs, raced \subseteq raced' PROVE At(n) \in raced'
  BY <1>0, <1>a
<1>1. ASSUME NEW ch \in Standard, Truncate(ch) PROVE At(n) \in raced'
  <2>1. CASE n = Unversioned(ch) /\ Present(out[task["deploy"].profile], Unversioned(ch))
    BY <1>0, <1>1, <2>1 DEF Truncate
  <2>2. CASE ~(n = Unversioned(ch) /\ Present(out[task["deploy"].profile], Unversioned(ch)))
    <3>1. coeffs'[n] = coeffs[n] /\ raced \subseteq raced'
      BY <1>1, <2>2 DEF Truncate, FilterTypes, DiskTypes
    <3> QED BY <1>0, <3>1
  <2> QED BY <2>1, <2>2
<1>2. ASSUME NEW ch \in Standard, Fill(ch) PROVE At(n) \in raced'
  <2> DEFINE p == task["deploy"].profile
             from == [dir |-> p, name |-> Unversioned(ch)]
  <2>1. task["deploy"] \in Job["deploy"] /\ task["deploy"] # Idle
    BY <1>2, IdleIsNoJob DEF Fill, Copying, Stages, FilterTypes, Idle
  <2>2. p \in Profile
    BY <2>1 DEF Job
  <2>3. CASE n = Unversioned(ch)
    <3>1. out[p][n] = "bad"
      BY <1>2, <2>3 DEF Fill, FilterTypes, DiskTypes
    <3>2. from \in raced
      BY <2>1, <2>2, <2>3, <3>1, FilterStoreAssumption
      DEF FilesSound, PassesOrRaced, FileAt, Filters
    <3>3. At(n) \in Filters("coeffs", {Unversioned(ch)})
      BY <1>0, <2>3
    <3> QED BY <1>2, <3>2, <3>3 DEF Fill
  <2>4. CASE n # Unversioned(ch)
    <3>1. coeffs'[n] = coeffs[n]
      BY <1>2, <2>4 DEF Fill, FilterTypes, DiskTypes
    <3>2. At(n) \notin Filters("coeffs", {Unversioned(ch)})
      BY <1>0, <2>4
    <3> QED BY <1>0, <1>2, <3>1, <3>2 DEF Fill
  <2> QED BY <2>3, <2>4
<1>3. CASE Snapshot
  <2>1. task["snapshot"] \in Job["snapshot"]
    BY <1>3, IdleIsNoJob DEF Snapshot, Stages, FilterTypes
  <2>a. PICK made \in SUBSET Name : \E from \in [made -> Name] :
          /\ coeffs' = [m \in Name |-> IF m \in made THEN coeffs[from[m]] ELSE coeffs[m]]
          /\ raced' = raced \union Filters("coeffs", {m \in made : At(from[m]) \in raced})
    BY <1>3, <2>1, SnapshotIs
  <2>2. PICK from \in [made -> Name] :
          /\ coeffs' = [m \in Name |-> IF m \in made THEN coeffs[from[m]] ELSE coeffs[m]]
          /\ raced' = raced \union Filters("coeffs", {m \in made : At(from[m]) \in raced})
    BY <2>a
  <2>3. CASE n \in made
    <3>1. coeffs[from[n]] = "bad" /\ from[n] \in Name
      BY <2>2, <2>3
    <3>2. n \in {m \in made : At(from[m]) \in raced}
      BY <1>0, <2>3, <3>1
    <3> HIDE DEF At
    <3> QED BY <1>0, <2>2, <3>2
  <2>4. CASE n \notin made
    BY <1>0, <2>2, <2>4
  <2> QED BY <2>3, <2>4
<1>4. ASSUME NEW ch \in Standard, Cleanup(ch) PROVE At(n) \in raced'
  BY <1>0, <1>4, FilterStoreAssumption DEF Cleanup
<1>5. ASSUME NEW p \in Profile, DeployBegin(p) PROVE At(n) \in raced'
  BY <1>0, <1>5 DEF DeployBegin, disk
<1>6. ASSUME NEW ts \in 1..MaxTime, RollbackBegin(ts) PROVE At(n) \in raced'
  <2>1. coeffs[n] = "bad" /\ n \notin {m \in Names(coeffs) : m.ts = ts}
    BY <1>6 DEF RollbackBegin, disk
  <2> HIDE DEF At
  <2> QED BY <1>0, <1>6, <2>1 DEF RollbackBegin
<1>7. Export \/ (\E p \in Profile : RunCorrection(p)) => UNCHANGED coeffs /\ raced \subseteq raced'
  BY DEF Export, RunCorrection, Write
<1>8. Edit \/ Configure \/ Install \/ Rollback \/ Muted => UNCHANGED <<coeffs, raced>>
  BY DEF Edit, Configure, Install, Rollback, Muted, past
<1>9. SnapshotBegin \/ (\E p \in Profile : GenerateBegin(p) \/ ActivateBegin(p))
        \/ (\E keep \in Keep : CleanupBegin(keep)) => UNCHANGED <<coeffs, raced>>
  BY DEF SnapshotBegin, GenerateBegin, ActivateBegin, CleanupBegin, disk, past
<1>10. Reload \/ Restart \/ WebUiEnds \/ UNCHANGED storeVars => UNCHANGED <<coeffs, raced>>
  BY DEF Reload, Restart, WebUiEnds, storeVars, disk, past
<1> HIDE DEF At
<1> QED
  BY <1>a, <1>1, <1>2, <1>3, <1>4, <1>5, <1>6, <1>7, <1>8, <1>9, <1>10
  DEF FilterNext, Request, Progress

(* In an output directory: what may be written, and what is then raced.    *)
LEMMA OutStep ==
  ASSUME FilterTypes, [FilterNext]_storeVars, NEW r \in Ref, r.dir # "coeffs"
  PROVE  /\ \/ FileAt(r)' = FileAt(r)
            \/ /\ \/ r.name.ts = 0
                  \/ /\ task["generate"].at = "export"
                     /\ r.name.ts = task["generate"].ts
               /\ task["deploy"] # Idle /\ task["deploy"].profile = r.dir => r \in raced'
         /\ r \in raced => r \in raced' \/ FileAt(r)' # "bad"
<1> USE DEF Kind
<1>0. /\ FileAt(r) = out[r.dir][r.name] /\ FileAt(r)' = out'[r.dir][r.name]
      /\ r.dir \in Profile /\ r.name \in Name
      /\ \A ns \in SUBSET Name : r \in Filters(r.dir, ns) <=> r.name \in ns
      /\ \A p, ns : p # r.dir => r \notin Filters(p, ns)
  BY DEF FileAt, Ref, Filters
<1>a. ASSUME UNCHANGED out, raced \subseteq raced'
      PROVE  FileAt(r)' = FileAt(r) /\ (r \in raced => r \in raced')
  BY <1>0, <1>a
<1>w. ASSUME NEW p \in Profile, NEW files \in SUBSET Name, NEW made, Write(p, files),
             out' = [out EXCEPT ![p] = [n \in Name |-> IF n \in files THEN made[n.ch]
                                                       ELSE out[p][n]]]
      PROVE  /\ \/ FileAt(r)' = FileAt(r)
                \/ /\ r.name \in files
                   /\ task["deploy"] # Idle /\ task["deploy"].profile = r.dir => r \in raced'
             /\ r \in raced => r \in raced'
  <2>1. raced \subseteq raced'
    BY <1>w DEF Write
  <2>2. CASE r.dir = p /\ r.name \in files
    BY <1>0, <1>w, <2>1, <2>2 DEF Write
  <2>3. CASE r.dir # p \/ r.name \notin files
    BY <1>0, <1>w, <2>1, <2>3 DEF FilterTypes, DiskTypes
  <2> QED BY <2>2, <2>3
<1>1. CASE Export
  <2> DEFINE job == task["generate"]
             files == {n \in Name : n.ts = job.ts /\ n.ch \in job.keys}
  <2>1. job \in Job["generate"] /\ job.at = "export"
    BY <1>1, IdleIsNoJob DEF Export, Stages, FilterTypes
  <2>2. job.profile \in Profile
    BY <2>1 DEF Job
  <2>3. PICK made : /\ out' = [out EXCEPT ![job.profile] =
                                [n \in Name |-> IF n \in files THEN made[n.ch]
                                               ELSE out[job.profile][n]]]
                    /\ Write(job.profile, files)
    BY <1>1 DEF Export
  <2>4. r.name \in files => r.name.ts = job.ts
    OBVIOUS
  <2>5. files \in SUBSET Name
    OBVIOUS
  <2> HIDE DEF files
  <2> QED BY <1>w, <2>1, <2>2, <2>3, <2>4, <2>5
<1>2. ASSUME NEW p \in Profile, RunCorrection(p)
      PROVE  /\ \/ FileAt(r)' = FileAt(r)
                \/ /\ r.name.ts = 0
                   /\ task["deploy"] # Idle /\ task["deploy"].profile = r.dir => r \in raced'
             /\ r \in raced => r \in raced'
  <2> DEFINE files == {n \in Name : n.ch \in Standard /\ n.ts = 0}
  <2>1. PICK made : /\ out' = [out EXCEPT ![p] = [n \in Name |-> IF n \in files THEN made[n.ch]
                                                                ELSE out[p][n]]]
                    /\ Write(p, files)
    BY <1>2 DEF RunCorrection
  <2>2. r.name \in files => r.name.ts = 0
    OBVIOUS
  <2>3. files \in SUBSET Name
    OBVIOUS
  <2> HIDE DEF files
  <2> QED BY <1>w, <2>1, <2>2, <2>3
<1>3. ASSUME NEW p \in Profile, DeployBegin(p)
      PROVE  /\ FileAt(r)' = FileAt(r)
             /\ r \in raced => r \in raced' \/ FileAt(r)' # "bad"
  <2>1. UNCHANGED out /\ raced' = raced \ Filters(p, Name)
    BY <1>3 DEF DeployBegin, disk
  <2>2. \A n \in Name : out[p][n] # "bad"
    BY <1>3, FilterStoreAssumption DEF DeployBegin, AllPass, Names, Present
  <2> QED BY <1>0, <2>1, <2>2
<1>4. ASSUME (\E ch \in Standard : Truncate(ch) \/ Fill(ch)) \/ Snapshot
               \/ \E ts \in 1..MaxTime : RollbackBegin(ts)
      PROVE  FileAt(r)' = FileAt(r) /\ (r \in raced => r \in raced')
  <2>1. UNCHANGED out /\ \E ns : raced \ Filters("coeffs", ns) \subseteq raced'
    <3>1. (\E ch \in Standard : Truncate(ch)) \/ Snapshot
            => UNCHANGED out /\ raced \subseteq raced'
      BY DEF Truncate, Snapshot
    <3>2. (\E ch \in Standard : Fill(ch)) \/ (\E ts \in 1..MaxTime : RollbackBegin(ts))
            => UNCHANGED out /\ \E ns : raced \ Filters("coeffs", ns) \subseteq raced'
      BY DEF Fill, RollbackBegin, disk
    <3> QED BY <1>4, <3>1, <3>2
  <2> QED BY <1>0, <2>1
<1>5. (\E ch \in Standard : Cleanup(ch)) => UNCHANGED <<out, raced>>
  BY DEF Cleanup
<1>6. Edit \/ Configure \/ Install \/ Rollback \/ Muted => UNCHANGED <<out, raced>>
  BY DEF Edit, Configure, Install, Rollback, Muted, past
<1>7. SnapshotBegin \/ (\E p \in Profile : GenerateBegin(p) \/ ActivateBegin(p))
        \/ (\E keep \in Keep : CleanupBegin(keep)) => UNCHANGED <<out, raced>>
  BY DEF SnapshotBegin, GenerateBegin, ActivateBegin, CleanupBegin, disk, past
<1>8. Reload \/ Restart \/ WebUiEnds \/ UNCHANGED storeVars => UNCHANGED <<out, raced>>
  BY DEF Reload, Restart, WebUiEnds, storeVars, disk, past
<1> QED
  BY <1>a, <1>1, <1>2, <1>3, <1>4, <1>5, <1>6, <1>7, <1>8 DEF FilterNext, Request, Progress

(* What the convolver gets was in use before, and nothing else changes     *)
(* what it has.                                                            *)
LEMMA NodeFrom ==
  ASSUME FilterTypes, [FilterNext]_storeVars
  PROVE  \/ UNCHANGED node
         \/ /\ UNCHANGED <<out, coeffs, raced>>
            /\ node' # Down => \A k \in DOMAIN node'.paths : node'.paths[k] \in Used
<1>1. CASE Reload
  <2>1. node # Down /\ node \in Node
    BY <1>1 DEF Reload, FilterTypes
  <2>2. PICK l : node' = [node EXCEPT !.loaded = l]
    BY <1>1, <2>1 DEF Reload
  <2>3. node'.paths = node.paths
    BY <2>1, <2>2 DEF Node
  <2>4. \A k \in DOMAIN node.paths : node.paths[k] \in Used
    BY <2>1 DEF Used, NodePaths
  <2> QED BY <1>1, <2>3, <2>4 DEF Reload, disk, past
<1>2. CASE Restart
  <2>1. Loads(conf) => Booted.paths = conf /\ conf # Gone
    BY LoadedIs DEF Loads, FilterTypes, DiskTypes, Booted
  <2>2. ~Loads(conf) => Booted = Down
    BY DEF Booted
  <2>3. conf # Gone => \A k \in DOMAIN conf : conf[k] \in Used
    BY DEF Used, Refs
  <2> QED BY <1>2, <2>1, <2>2, <2>3 DEF Restart, disk, past
<1>3. Edit \/ Export \/ Configure \/ Install \/ Rollback \/ Snapshot \/ Muted => UNCHANGED node
  BY DEF Edit, Export, Configure, Install, Rollback, Snapshot, Muted
<1>4. Request => UNCHANGED node
  BY <1>3 DEF Request, GenerateBegin, RunCorrection, DeployBegin, ActivateBegin,
              RollbackBegin, SnapshotBegin, CleanupBegin
<1>5. (\E ch \in Standard : Truncate(ch) \/ Fill(ch) \/ Cleanup(ch)) => UNCHANGED node
  BY DEF Truncate, Fill, Cleanup
<1>6. WebUiEnds \/ UNCHANGED storeVars => UNCHANGED node
  BY DEF WebUiEnds, storeVars
<1> QED BY <1>1, <1>2, <1>3, <1>4, <1>5, <1>6 DEF FilterNext, Progress

(* What comes into use is a draft that the deployment checked, or in the   *)
(* coefficients directory.                                                 *)
LEMMA UsedFrom ==
  ASSUME FilterTypes, [FilterNext]_storeVars, NEW r \in Used'
  PROVE  \/ r \in Used
         \/ /\ Install /\ task["deploy"] # Idle /\ task["deploy"].profile \in Profile
            /\ r \in Refs(outConf[task["deploy"].profile])
         \/ r.dir = "coeffs"
<1>1. Refs(conf)' = Refs(conf') /\ Refs(conf) \subseteq Used
  BY DEF Refs, Used
<1>2. r \in NodePaths' => r \in Used
  <2> SUFFICES ASSUME node' # Down, NEW k \in DOMAIN node'.paths, r = node'.paths[k]
               PROVE  r \in Used
    BY DEF NodePaths
  <2>1. CASE UNCHANGED node
    BY <2>1 DEF Used, NodePaths
  <2> QED BY <2>1, NodeFrom
<1> QED BY <1>1, <1>2, ConfFrom DEF Used

(* The deployment under way.                                               *)
LEMMA DeployJob ==
  ASSUME FilterTypes, [FilterNext]_storeVars, task'["deploy"] # Idle
  PROVE  \/ task["deploy"] # Idle /\ task'["deploy"].profile = task["deploy"].profile
         \/ DeployBegin(task'["deploy"].profile) /\ task'["deploy"].profile \in Profile
<1> USE DEF FilterTypes, JobTypes, Kind
<1>0. DOMAIN task = Kind
  OBVIOUS
<1>1. ASSUME NEW p \in Profile, DeployBegin(p) PROVE task'["deploy"].profile = p
  BY <1>0, <1>1 DEF DeployBegin, Begin
<1>2. ASSUME NEW t \in Kind \ {"deploy"}, NEW job, Begin(t, job)
      PROVE  task'["deploy"] = task["deploy"]
  BY <1>0, <1>2 DEF Begin
<1>3. SnapshotBegin \/ (\E p \in Profile : GenerateBegin(p) \/ ActivateBegin(p))
        \/ (\E keep \in Keep : CleanupBegin(keep)) \/ (\E ts \in 1..MaxTime : RollbackBegin(ts))
        => task'["deploy"] = task["deploy"]
  BY <1>2 DEF SnapshotBegin, GenerateBegin, ActivateBegin, CleanupBegin, RollbackBegin
<1>4. Edit \/ (\E p \in Profile : RunCorrection(p)) => task' = task
  BY DEF Edit, RunCorrection
<1>5. ASSUME NEW ch \in Standard, Truncate(ch) \/ Fill(ch)
      PROVE  task["deploy"] # Idle /\ task'["deploy"].profile = task["deploy"].profile
  <2>1. task["deploy"] \in Job["deploy"] /\ task["deploy"] # Idle
    BY <1>5, IdleIsNoJob DEF Truncate, Fill, Copying, Stages, Idle
  <2>2. task["deploy"].profile = task'["deploy"].profile
    BY <1>0, <1>5, <2>1 DEF Truncate, Fill, Job
  <2> QED BY <2>1, <2>2
<1>6. Export \/ Configure \/ Rollback \/ Snapshot \/ Muted => task'["deploy"] = task["deploy"]
  BY <1>0 DEF Export, Configure, Rollback, Snapshot, Muted, End, Go
<1>7. (\E ch \in Standard : Cleanup(ch)) => task'["deploy"] = task["deploy"]
  BY <1>0 DEF Cleanup
<1>8. ~Install /\ ~WebUiEnds
  BY <1>0 DEF Install, End, WebUiEnds
<1>9. Reload \/ Restart \/ UNCHANGED storeVars => task' = task
  BY DEF Reload, Restart, storeVars
<1> QED
  BY <1>1, <1>3, <1>4, <1>5, <1>6, <1>7, <1>8, <1>9 DEF FilterNext, Request, Progress

LEMMA FilesSound_Next ==
  FilterTypes /\ Drafts /\ FilesSound /\ [FilterNext]_storeVars => FilesSound'
<1> SUFFICES ASSUME FilterTypes, Drafts, FilesSound, [FilterNext]_storeVars
             PROVE  FilesSound'
  OBVIOUS
<1>1. ASSUME NEW r \in Filters("coeffs", Name) PROVE PassesOrRaced(r)'
  BY CoeffsSound DEF PassesOrRaced, FileAt, Filters
<1>2. ASSUME NEW r \in Ref, Settled(r) PROVE Settled(r)'
  <2>1. CASE r.dir = "coeffs"
    BY <1>1, <2>1 DEF Settled, Ref, Filters
  <2>2. CASE r.dir # "coeffs"
    <3>1. Drafted(r, r.dir) /\ Drafted(r, r.dir)'
      BY <1>2, <2>2, DraftedStays DEF Settled
    <3>2. r.name.ts # 0 /\ ~(task["generate"].at = "export" /\ r.name.ts = task["generate"].ts)
      BY <2>2, <3>1 DEF Drafted, FilterTypes, JobTypes
    <3>3. PassesOrRaced(r)'
      BY <1>2, <2>2, <3>2, OutStep DEF Settled, PassesOrRaced
    <3> QED BY <3>1, <3>3 DEF Settled
  <2> QED BY <2>1, <2>2
<1>3. ASSUME NEW r \in Used' PROVE Settled(r)'
  <2>0. r \in Ref
    BY UsedTypedNext, Types_Next
  <2>1. CASE r \in Used
    BY <1>2, <2>0, <2>1 DEF FilesSound
  <2>2. CASE r.dir = "coeffs"
    BY <1>1, <2>0, <2>2 DEF Settled, Ref, Filters
  <2>3. ASSUME task["deploy"] # Idle, task["deploy"].profile \in Profile,
               r \in Refs(outConf[task["deploy"].profile]), r.dir # "coeffs"
        PROVE  Settled(r)'
    <3>1. r.dir = task["deploy"].profile /\ Drafted(r, r.dir)
      BY <2>3 DEF Drafts, Drafted
    <3>2. PassesOrRaced(r)
      BY <2>0, <2>3, <3>1 DEF FilesSound, Filters, Ref
    <3> QED BY <1>2, <2>0, <3>1, <3>2 DEF Settled
  <2> QED BY <2>1, <2>2, <2>3, UsedFrom
<1>4. ASSUME task'["deploy"] # Idle, NEW r \in Filters(task'["deploy"].profile, Name)
      PROVE  PassesOrRaced(r)'
  <2> DEFINE p == task'["deploy"].profile
  <2>0. r.dir = p /\ r.name \in Name
    BY DEF Filters
  <2>1. CASE DeployBegin(p) /\ p \in Profile
    <3>1. out[p][r.name] # "bad" /\ UNCHANGED out
      BY <2>0, <2>1, FilterStoreAssumption DEF DeployBegin, AllPass, Names, Present, disk
    <3> QED BY <2>0, <2>1, <3>1, FilterStoreAssumption DEF PassesOrRaced, FileAt
  <2>2. CASE task["deploy"] # Idle /\ p = task["deploy"].profile
    <3>1. p \in Profile /\ PassesOrRaced(r)
      BY <2>2 DEF FilesSound, FilterTypes, JobTypes, Job, Kind
    <3>2. r \in Ref /\ r.dir # "coeffs"
      BY <2>0, <3>1, FilterStoreAssumption DEF Ref, Filters
    <3> QED BY <2>0, <2>2, <3>1, <3>2, OutStep DEF PassesOrRaced
  <2> QED BY <1>4, <2>1, <2>2, DeployJob
<1>5. Filters("coeffs", Name)' = Filters("coeffs", Name)
      /\ Filters(task["deploy"].profile, Name)' = Filters(task'["deploy"].profile, Name)
  BY DEF Filters
<1> QED BY <1>1, <1>3, <1>4, <1>5 DEF FilesSound

(* D-009: whatever overlaps, a filter that the convolver reads passes the  *)
(* check, or was written after the deployment under way had checked it, is *)
(* a copy of one that was, or is being copied itself.                      *)
THEOREM OnlyPassingSoundsHolds == FilterSpec => OnlyPassingSounds
<1>1. FilterInit => FilesSound
  <2> SUFFICES ASSUME FilterInit PROVE FilesSound
    OBVIOUS
  <2>1. PICK ts \in {0, 1} :
          /\ coeffs = [n \in Name |->
                         IF n.ch \in Channel /\ n.ts = ts THEN "good" ELSE Gone]
          /\ conf \in {Gone,
                       [k \in Key |-> [dir |-> "coeffs",
                                      name |-> [ch |-> Suffix[k], ts |-> ts]]]}
    BY DEF FilterInit
  <2>2. FilterTypes
    BY Types_Init
  <2>3. \A r \in Filters("coeffs", Name) : FileAt(r) # "bad"
    BY <2>1, FilterStoreAssumption DEF FileAt, Filters
  <2>4. \A r \in Refs(conf) : r.dir = "coeffs"
    BY <2>1 DEF Refs
  <2>5. NodePaths \subseteq Refs(conf)
    <3>1. Loads(conf) => node.paths = conf /\ conf # Gone
      BY <2>2, LoadedIs DEF Loads, FilterTypes, DiskTypes, Booted, FilterInit
    <3>2. ~Loads(conf) => node = Down
      BY DEF FilterInit, Booted
    <3> QED BY <3>1, <3>2 DEF NodePaths, Refs
  <2>6. \A r \in Used : r \in Filters("coeffs", Name) /\ r.dir = "coeffs"
    BY <2>2, <2>4, <2>5, UsedTyped DEF Used, Filters, Ref
  <2>7. task["deploy"] = Idle
    BY DEF FilterInit, Kind
  <2> QED BY <2>3, <2>6, <2>7 DEF FilesSound, Settled, PassesOrRaced
<1>2. ASSUME FilterTypes, FilesSound, [FilterNext]_storeVars
      PROVE  [node' # node /\ node' # Down =>
                \A k \in DOMAIN node'.paths :
                  FileAt(node'.paths[k]) = "bad" => node'.paths[k] \in raced]_storeVars
  BY <1>2, NodeFrom DEF FilesSound, Settled, PassesOrRaced
<1> QED
  BY <1>1, <1>2, FilesSound_Next, Types_Init, Types_Next, Drafts_Init, Drafts_Next, PTL
  DEF FilterSpec, OnlyPassingSounds

-----------------------------------------------------------------------------
(* Passkeys.                                                               *)

(* The statements of each kind of request.                                 *)
AuthCourse(kind) ==
  CASE kind = "register_options" -> {"consumed", "listed", "end"}
    [] kind = "register_verify"  -> {"added", "created", "end"}
    [] kind = "login_options"    -> {"listed", "end"}
    [] kind = "login_verify"     -> {"looked", "counted", "replaced", "created", "end"}
    [] kind = "logout"           -> {"deleted", "end"}
    [] kind = "guarded"          -> {"read", "expired", "touched", "end"}

RequestsRight ==
  \A r \in Received :
    LET q == request[r] IN
    /\ q.at \in AuthCourse(q.kind)
    /\ q.at = "end" => ~q.commit
    /\ q.told # Absent => q.at = "end"
    /\ q.kind = "register_options" => q.invite \in Invite /\ q.row \in {"none", "found"}
    /\ q.kind = "register_options" /\ (q.at = "listed" \/ q.told = "ok") => q.row = "found"
    /\ q.kind \in {"logout", "guarded"} => q.token # Absent
    /\ q.kind = "guarded" => q.row # "found"
    /\ q.token # Absent => q.token \in Received /\ request[q.token].told = "ok"

AuthTypes ==
  /\ db \in Tables /\ saved \in Tables
  /\ challenges \in [Number \union {Login} -> [of : Number, old : BOOLEAN] \union {Absent}]
  /\ request \in Seq(RequestRecord) /\ Len(request) <= MaxAuths

(* A registration that has taken its invitation and may still use it.      *)
Holds(r) ==
  /\ request[r].kind = "register_options" /\ request[r].row = "found"
  /\ request[r].told = "ok" \/ request[r].at # "end"

InvitesTaken ==
  /\ \A r \in Received : Holds(r) =>
       /\ db.invites[request[r].invite] # "valid"
       /\ ~request[r].commit => saved.invites[request[r].invite] # "valid"
  /\ \A r, s \in Received :
       Holds(r) /\ Holds(s) /\ request[r].invite = request[s].invite => r = s

(* Whoever registered a credential has used up the challenge.              *)
UserOf(d, c) == d.creds[c] # Absent /\ d.creds[c].user # Absent

UsersOnce(d, requests, kept) ==
  /\ \A c \in Credential : UserOf(d, c) =>
       LET u == d.creds[c].user IN
       /\ u \in DOMAIN requests /\ requests[u].kind = "register_options" /\ requests[u].told = "ok"
       /\ kept[u] = Absent
  /\ \A b, c \in Credential :
       UserOf(d, b) /\ UserOf(d, c) /\ d.creds[b].user = d.creds[c].user => b = c

KnownCredentials ==
  \A r \in Received : request[r].at = "looked" /\ request[r].row = "found" =>
    request[r].cred \in Credential /\ db.creds[request[r].cred] # Absent

(* A request that has deleted the session of its cookie.                   *)
Revokes(r) ==
  \/ request[r].kind = "logout" /\ (request[r].at = "deleted" \/ request[r].told = "ok")
  \/ /\ request[r].kind = "login_verify" /\ request[r].token # Absent
     /\ request[r].at \in {"replaced", "created"} \/ request[r].told = "ok"

Revoked ==
  \A r \in Received : Revokes(r) =>
    /\ db.sessions[request[r].token] = Absent
    /\ ~(request[r].commit /\ request[r].at \in {"deleted", "replaced"})
         => saved.sessions[request[r].token] = Absent

AuthInv ==
  /\ AuthTypes /\ RequestsRight /\ InvitesTaken
  /\ UsersOnce(db, request, challenges) /\ UsersOnce(saved, request, challenges)
  /\ KnownCredentials /\ Revoked

-----------------------------------------------------------------------------
(* How requests change. *)

LEMMA AuthConstants ==
  /\ MaxAuths \in Nat /\ Absent \notin Nat /\ Absent \notin Invite /\ Absent \notin Credential
  /\ Absent # "fresh" /\ Absent # "old" /\ Absent # "ok" /\ Absent # "no"
  /\ Login \notin Number /\ Absent \notin Number
BY AuthAssumption DEF Login, Number

LEMMA RequestIs ==
  ASSUME AuthTypes, NEW r \in Received
  PROVE  request[r] \in RequestRecord /\ r \in Number
BY AuthConstants DEF AuthTypes, Received, Number

(* A request that arrives is the last one. *)
Arrived(q) ==
  /\ request' \in Seq(RequestRecord) /\ Len(request') <= MaxAuths
  /\ Len(request) + 1 \in Number \ Received
  /\ Received' = Received \union {Len(request) + 1}
  /\ request'[Len(request) + 1] = q
  /\ \A r \in Received : request'[r] = request[r]

LEMMA ArrivesIs ==
  ASSUME AuthTypes, NEW q \in RequestRecord, Arrives(q)
  PROVE  Arrived(q)
<1>1. request \in Seq(RequestRecord) /\ Len(request) < MaxAuths /\ request' = Append(request, q)
  BY DEF AuthTypes, Arrives
<1>2. /\ request' \in Seq(RequestRecord) /\ Len(request') = Len(request) + 1 /\ Len(request) \in Nat
      /\ request'[Len(request) + 1] = q
      /\ \A r \in 1..Len(request) : request'[r] = request[r]
  BY <1>1
<1>3. Received = 1..Len(request) /\ Received' = 1..Len(request')
  BY <1>1, <1>2 DEF Received
<1> QED BY <1>1, <1>2, <1>3, AuthConstants DEF Arrived, Number

(* Of a request under way, this is all that changes. *)
Moved(r, at, commit, told) ==
  /\ request' \in Seq(RequestRecord) /\ Len(request') <= MaxAuths /\ Received' = Received
  /\ request'[r].at = at /\ (request'[r].commit <=> commit) /\ request'[r].told = told
  /\ request'[r].kind = request[r].kind /\ request'[r].invite = request[r].invite
  /\ request'[r].cred = request[r].cred /\ request'[r].token = request[r].token
  /\ request'[r].row = request[r].row
  /\ \A s \in Received \ {r} : request'[s] = request[s]

LEMMA BecomesIs ==
  ASSUME AuthTypes, NEW r \in Received, NEW q \in RequestRecord, Becomes(r, q),
         q.kind = request[r].kind, q.invite = request[r].invite, q.cred = request[r].cred,
         q.token = request[r].token, q.row = request[r].row
  PROVE  Moved(r, q.at, q.commit, q.told)
<1>1. request \in Seq(RequestRecord) /\ request' = [request EXCEPT ![r] = q] /\ r \in 1..Len(request)
  BY DEF AuthTypes, Becomes, Received
<1>2. /\ request' \in Seq(RequestRecord) /\ Len(request') = Len(request)
      /\ request'[r] = q /\ \A s \in 1..Len(request) : s # r => request'[s] = request[s]
  BY <1>1, ExceptSeq
<1>3. Received = 1..Len(request) /\ Received' = Received
  BY <1>1, <1>2 DEF Received
<1> QED BY <1>2, <1>3 DEF Moved, AuthTypes

Place == {"consumed", "listed", "added", "looked", "counted", "replaced", "created",
          "deleted", "read", "expired", "touched", "end"}

RequestKind == {"register_options", "register_verify", "login_options", "login_verify",
                "logout", "guarded"}

Counts == 0..MaxCount

LEMMA RecordIs ==
  RequestRecord =
    [kind : RequestKind, at : Place, commit : BOOLEAN, told : {Absent, "ok", "no"},
     invite : Invite \union {Absent}, user : Number \union {Absent},
     cred : Credential \union {Absent}, count : Counts,
     token : Number \union {Absent}, row : {"none", "found", "fresh", "old"},
     stored : Counts, seen : SUBSET Credential]
BY DEF RequestRecord, RequestKind, Place, Counts

LEMMA PlaceIs ==
  ASSUME NEW q \in RequestRecord, NEW at \in Place
  PROVE  LET p == [q EXCEPT !.at = at, !.commit = TRUE] IN
         /\ p \in RequestRecord /\ p.kind = q.kind /\ p.invite = q.invite /\ p.cred = q.cred
         /\ p.token = q.token /\ p.row = q.row /\ p.at = at /\ p.commit /\ p.told = q.told
BY RecordIs

LEMMA MovesAre ==
  ASSUME AuthTypes, NEW r \in Received
  PROVE  /\ Becomes(r, [request[r] EXCEPT !.commit = FALSE]) => Moved(r, request[r].at, FALSE, request[r].told)
         /\ \A at \in Place : Becomes(r, [request[r] EXCEPT !.at = at, !.commit = TRUE])
                               => Moved(r, at, TRUE, request[r].told)
         /\ \A seen \in SUBSET Credential :
              Becomes(r, [request[r] EXCEPT !.seen = seen, !.at = "listed"])
                => Moved(r, "listed", request[r].commit, request[r].told)
         /\ \A told \in {"ok", "no"} : Tells(r, told) => Moved(r, "end", request[r].commit, told)
<1>1. request[r] \in RequestRecord
  BY RequestIs
<1>2. Becomes(r, [request[r] EXCEPT !.commit = FALSE]) => Moved(r, request[r].at, FALSE, request[r].told)
  <2> DEFINE q == [request[r] EXCEPT !.commit = FALSE]
  <2>1. /\ q \in RequestRecord /\ q.kind = request[r].kind /\ q.invite = request[r].invite
        /\ q.cred = request[r].cred /\ q.token = request[r].token /\ q.row = request[r].row
        /\ q.at = request[r].at /\ ~q.commit /\ q.told = request[r].told
    BY <1>1 DEF RequestRecord
  <2> HIDE DEF q
  <2>2. Becomes(r, q) => Moved(r, q.at, q.commit, q.told)
    BY <2>1, BecomesIs
  <2>3. Becomes(r, q) => Moved(r, request[r].at, FALSE, request[r].told)
    BY <2>1, <2>2 DEF Moved
  <2> QED BY <2>3 DEF q
<1>3. ASSUME NEW at \in Place
      PROVE  Becomes(r, [request[r] EXCEPT !.at = at, !.commit = TRUE]) => Moved(r, at, TRUE, request[r].told)
  <2> DEFINE q == [request[r] EXCEPT !.at = at, !.commit = TRUE]
  <2>1. /\ q \in RequestRecord /\ q.kind = request[r].kind /\ q.invite = request[r].invite
        /\ q.cred = request[r].cred /\ q.token = request[r].token /\ q.row = request[r].row
        /\ q.at = at /\ q.commit /\ q.told = request[r].told
    BY <1>1, PlaceIs
  <2> HIDE DEF q
  <2>2. Becomes(r, q) => Moved(r, q.at, q.commit, q.told)
    BY <2>1, BecomesIs
  <2>3. Becomes(r, q) => Moved(r, at, TRUE, request[r].told)
    BY <2>1, <2>2 DEF Moved
  <2> QED BY <2>3 DEF q
<1>4. ASSUME NEW seen \in SUBSET Credential
      PROVE  Becomes(r, [request[r] EXCEPT !.seen = seen, !.at = "listed"])
               => Moved(r, "listed", request[r].commit, request[r].told)
  <2> DEFINE q == [request[r] EXCEPT !.seen = seen, !.at = "listed"]
  <2>1. /\ q \in RequestRecord /\ q.kind = request[r].kind /\ q.invite = request[r].invite
        /\ q.cred = request[r].cred /\ q.token = request[r].token /\ q.row = request[r].row
        /\ q.at = "listed" /\ q.commit = request[r].commit /\ q.told = request[r].told
    BY <1>1 DEF RequestRecord
  <2> HIDE DEF q
  <2>2. Becomes(r, q) => Moved(r, q.at, q.commit, q.told)
    BY <2>1, BecomesIs
  <2> QED BY <2>1, <2>2 DEF q
<1>5. ASSUME NEW told \in {"ok", "no"}
      PROVE  Tells(r, told) => Moved(r, "end", request[r].commit, told)
  <2> DEFINE q == [request[r] EXCEPT !.told = told, !.at = "end"]
  <2>1. /\ q \in RequestRecord /\ q.kind = request[r].kind /\ q.invite = request[r].invite
        /\ q.cred = request[r].cred /\ q.token = request[r].token /\ q.row = request[r].row
        /\ q.at = "end" /\ q.commit = request[r].commit /\ q.told = told
    BY <1>1 DEF RequestRecord
  <2> HIDE DEF q
  <2>2. Becomes(r, q) => Moved(r, q.at, q.commit, q.told)
    BY <2>1, BecomesIs
  <2> QED BY <2>1, <2>2 DEF q, Tells
<1> QED BY <1>2, <1>3, <1>4, <1>5

-----------------------------------------------------------------------------
(* What a step of one request, or the arrival of one, leaves true.         *)

Challenges == [Number \union {Login} -> [of : Number, old : BOOLEAN] \union {Absent}]

Fits(q) ==
  /\ q.at \in AuthCourse(q.kind)
  /\ q.at = "end" => ~q.commit
  /\ q.told # Absent => q.at = "end"
  /\ q.kind = "register_options" => q.invite \in Invite /\ q.row \in {"none", "found"}
  /\ q.kind = "register_options" /\ (q.at = "listed" \/ q.told = "ok") => q.row = "found"
  /\ q.kind \in {"logout", "guarded"} => q.token # Absent
  /\ q.kind = "guarded" => q.row # "found"

LEMMA FitsIs ==
  RequestsRight <=>
    \A r \in Received :
      /\ Fits(request[r])
      /\ request[r].token # Absent =>
           request[r].token \in Received /\ request[request[r].token].told = "ok"
BY DEF RequestsRight, Fits

LEMMA MovedRight ==
  ASSUME AuthInv, NEW r \in Received, NEW at, NEW commit, NEW told, Moved(r, at, commit, told),
         request[r].at # "end", Fits(request'[r])
  PROVE  RequestsRight' /\ request[r].told = Absent
<1>1. request[r].told = Absent
  BY DEF AuthInv, RequestsRight
<1>2. \A s \in Received : Fits(request[s])
  BY FitsIs DEF AuthInv
<1>3. \A s \in Received : request[s].token # Absent => request[s].token \in Received /\ request[request[s].token].told = "ok"
  BY FitsIs DEF AuthInv
<1>4. \A s \in Received : request'[s].token = request[s].token
  BY DEF Moved
<1>5. \A s \in Received : request[s].told = "ok" => request'[s].told = "ok"
  BY <1>1, AuthConstants DEF Moved
<1>6. \A s \in Received' : Fits(request'[s])
  BY <1>2 DEF Moved
<1>7. Received' = Received
  BY DEF Moved
<1> QED BY <1>1, <1>3, <1>4, <1>5, <1>6, <1>7 DEF RequestsRight, Fits

(* What such a step does to the tables and to the challenges.              *)
SameUsers(d, e) ==
  /\ \A c \in Credential : d.creds[c] # Absent => e.creds[c] # Absent
  /\ \A c \in Credential : UserOf(e, c) => UserOf(d, c) /\ e.creds[c].user = d.creds[c].user

Gentle(r) ==
  /\ db'.invites = db.invites /\ SameUsers(db, db')
  /\ \A t \in Number \ {r} : db.sessions[t] = Absent => db'.sessions[t] = Absent
  /\ \/ saved' = db /\ db' = db
     \/ saved' = saved /\ ~request[r].commit
  /\ \A u \in Received \ {r} : challenges[u] = Absent => challenges'[u] = Absent

LEMMA MovedInvites ==
  ASSUME AuthInv, NEW r \in Received, NEW at, NEW commit, NEW told, Moved(r, at, commit, told),
         request[r].at # "end", Gentle(r)
  PROVE  InvitesTaken'
<1>1. \A s \in Received : Holds(s)' => Holds(s)
  BY DEF Moved, Holds
<1>2. \A s \in Received : request'[s].invite = request[s].invite
  BY DEF Moved
<1>3. ASSUME NEW s \in Received, Holds(s)'
      PROVE  /\ db'.invites[request'[s].invite] # "valid"
             /\ ~request'[s].commit => saved'.invites[request'[s].invite] # "valid"
  <2>1. /\ db.invites[request[s].invite] # "valid"
        /\ ~request[s].commit => saved.invites[request[s].invite] # "valid"
    BY <1>1, <1>3 DEF AuthInv, InvitesTaken
  <2>2. CASE saved' = db
    BY <1>2, <2>1, <2>2 DEF Gentle
  <2>3. CASE saved' = saved /\ s # r
    BY <1>2, <2>1, <2>3 DEF Gentle, Moved
  <2>4. CASE saved' = saved /\ s = r /\ ~request[r].commit
    BY <1>2, <2>1, <2>4 DEF Gentle
  <2> QED BY <2>2, <2>3, <2>4 DEF Gentle
<1>4. \A s, t \in Received : Holds(s)' /\ Holds(t)' /\ request'[s].invite = request'[t].invite => s = t
  BY <1>1, <1>2 DEF AuthInv, InvitesTaken
<1> QED BY <1>3, <1>4 DEF InvitesTaken, Moved

LEMMA MovedUsers ==
  ASSUME NEW d, NEW e, UsersOnce(d, request, challenges), SameUsers(d, e),
         NEW r \in Received, NEW at, NEW commit, NEW told, Moved(r, at, commit, told),
         request[r].told # "ok",
         \A u \in Received \ {r} : challenges[u] = Absent => challenges'[u] = Absent
  PROVE  UsersOnce(e, request', challenges')
<1>1. \A u \in Received : request[u].told = "ok" =>
        /\ u # r /\ u \in Received' /\ request'[u] = request[u]
        /\ challenges[u] = Absent => challenges'[u] = Absent
  BY DEF Moved
<1>2. ASSUME NEW c \in Credential, UserOf(e, c)
      PROVE  LET u == e.creds[c].user IN
             /\ u \in Received' /\ request'[u].kind = "register_options" /\ request'[u].told = "ok"
             /\ challenges'[u] = Absent
  BY <1>1, <1>2 DEF UsersOnce, SameUsers, Received
<1>3. \A b, c \in Credential :
        UserOf(e, b) /\ UserOf(e, c) /\ e.creds[b].user = e.creds[c].user => b = c
  BY DEF UsersOnce, SameUsers
<1> QED BY <1>2, <1>3 DEF UsersOnce, Received

LEMMA MovedRevoked ==
  ASSUME AuthInv, NEW r \in Received, NEW at, NEW commit, NEW told, Moved(r, at, commit, told),
         request[r].at # "end", Gentle(r),
         Revokes(r)' => \/ Revokes(r)
                        \/ commit /\ at \in {"deleted", "replaced"}
                             /\ db'.sessions[request[r].token] = Absent
  PROVE  Revoked'
<1>1. request[r].told = Absent /\ \A s \in Received : request[s] \in RequestRecord
  BY RequestIs DEF AuthInv, RequestsRight
<1>2. \A s \in Received : request[s].token # Absent =>
        request[s].token \in Received /\ request[s].token # r
  BY <1>1, AuthConstants DEF AuthInv, RequestsRight
<1>3. Received \subseteq Number
  BY RequestIs DEF AuthInv
<1>4. \A s \in Received : Revokes(s) => request[s].token # Absent
  BY DEF Revokes, AuthInv, RequestsRight
<1>5. \A s \in Received : Revokes(s) => db'.sessions[request[s].token] = Absent
  BY <1>2, <1>3, <1>4 DEF Gentle, AuthInv, Revoked
<1>6. ASSUME NEW s \in Received, Revokes(s)'
      PROVE  /\ db'.sessions[request'[s].token] = Absent
             /\ ~(request'[s].commit /\ request'[s].at \in {"deleted", "replaced"})
                  => saved'.sessions[request'[s].token] = Absent
  <2>1. CASE s # r
    <3>1. request'[s] = request[s] /\ Revokes(s)
      BY <1>6, <2>1 DEF Moved, Revokes
    <3> QED BY <1>5, <3>1 DEF Gentle, AuthInv, Revoked
  <2>2. CASE s = r /\ Revokes(r)
    BY <1>5, <2>2 DEF Gentle, AuthInv, Revoked, Moved
  <2>3. CASE s = r /\ ~Revokes(r)
    BY <1>6, <2>3 DEF Moved
  <2> QED BY <2>1, <2>2, <2>3
<1> QED BY <1>6 DEF Revoked, Moved

LEMMA Progresses ==
  ASSUME AuthInv, NEW r \in Received, NEW at, NEW commit, NEW told, Moved(r, at, commit, told),
         request[r].at # "end", Gentle(r), AuthTypes', Fits(request'[r]),
         at = "looked" => request[r].at = "looked",
         Revokes(r)' => \/ Revokes(r)
                        \/ commit /\ at \in {"deleted", "replaced"}
                             /\ db'.sessions[request[r].token] = Absent
  PROVE  AuthInv'
<1>1. RequestsRight' /\ request[r].told = Absent
  BY MovedRight
<1>2. InvitesTaken'
  BY MovedInvites
<1>3. Revoked'
  BY MovedRevoked
<1>4. KnownCredentials'
  BY DEF AuthInv, KnownCredentials, Moved, Gentle, SameUsers
<1>5. request[r].told # "ok" /\ (\A u \in Received \ {r} : challenges[u] = Absent => challenges'[u] = Absent)
  BY <1>1, AuthConstants DEF Gentle
<1>6. SameUsers(db, db') /\ SameUsers(db, db) /\ SameUsers(saved, saved)
  BY DEF Gentle, SameUsers
<1>7. UsersOnce(db, request, challenges) /\ UsersOnce(saved, request, challenges)
  BY DEF AuthInv
<1>8. UsersOnce(db', request', challenges')
  BY <1>5, <1>6, <1>7, MovedUsers
<1>9. UsersOnce(saved', request', challenges')
  <2>1. UsersOnce(saved, request', challenges')
    BY <1>5, <1>6, <1>7, MovedUsers
  <2>2. CASE saved' = saved
    BY <2>1, <2>2
  <2>3. CASE saved' = db /\ db' = db
    BY <1>8, <2>3
  <2> QED BY <2>2, <2>3 DEF Gentle
<1> QED BY <1>1, <1>2, <1>3, <1>4, <1>8, <1>9 DEF AuthInv

-----------------------------------------------------------------------------
(* Each step of a request. *)

LEMMA TypesKept ==
  ASSUME AuthTypes, NEW r \in Received, NEW at, NEW commit, NEW told, Moved(r, at, commit, told),
         db' \in Tables, saved' = db \/ saved' = saved,
         challenges' \in [Number \union {Login} -> [of : Number, old : BOOLEAN] \union {Absent}]
  PROVE  AuthTypes'
BY DEF AuthTypes, Moved

LEMMA CourseIs ==
  ASSUME AuthInv, NEW r \in Received
  PROVE  /\ request[r].at = "consumed" => request[r].kind = "register_options"
         /\ request[r].at = "added" => request[r].kind = "register_verify"
         /\ request[r].at \in {"looked", "counted", "replaced"} => request[r].kind = "login_verify"
         /\ request[r].at = "created" => request[r].kind \in {"register_verify", "login_verify"}
         /\ request[r].at = "deleted" => request[r].kind = "logout"
         /\ request[r].at \in {"read", "expired", "touched"} => request[r].kind = "guarded"
<1>1. request[r].kind \in {"register_options", "register_verify", "login_options", "login_verify",
                            "logout", "guarded"}
  BY RequestIs DEF AuthInv, RequestRecord
<1>2. request[r].at \in AuthCourse(request[r].kind)
  BY DEF AuthInv, RequestsRight
<1> QED BY <1>1, <1>2 DEF AuthCourse

LEMMA CommitKeeps ==
  ASSUME AuthInv, NEW r \in Received, Commit(r)
  PROVE  AuthInv'
<1>1. Moved(r, request[r].at, FALSE, request[r].told)
  BY MovesAre DEF AuthInv, Commit
<1>2. request[r].at # "end" /\ Fits(request[r])
  BY FitsIs DEF AuthInv, RequestsRight, Commit
<1>3. Fits(request'[r])
  BY <1>1, <1>2 DEF Fits, Moved
<1>4. Gentle(r)
  BY DEF Commit, Gentle, SameUsers
<1>5. AuthTypes'
  BY <1>1, TypesKept DEF Commit, AuthInv, AuthTypes
<1>6. Revokes(r)' => Revokes(r)
  BY <1>1 DEF Moved, Revokes
<1> QED BY <1>1, <1>2, <1>3, <1>4, <1>5, <1>6, Progresses

LEMMA UnchangedIsGentle ==
  ASSUME NEW r, ~request[r].commit, UNCHANGED <<db, saved, challenges>>
  PROVE  Gentle(r)
BY DEF Gentle, SameUsers

LEMMA ConsumedKeeps ==
  ASSUME AuthInv, NEW r \in Received, Consumed(r)
  PROVE  AuthInv'
<1>1. request[r].at = "consumed" /\ ~request[r].commit /\ Fits(request[r])
  BY FitsIs DEF AuthInv, Consumed, Awaits
<1>2. request[r].kind = "register_options"
  BY <1>1, CourseIs
<1>3. Gentle(r)
  BY <1>1, UnchangedIsGentle DEF Consumed
<1>4. Registered \in SUBSET Credential
  BY DEF Registered
<1>5. CASE request[r].row = "found" /\ Becomes(r, [request[r] EXCEPT !.seen = Registered, !.at = "listed"])
  <2>1. Moved(r, "listed", request[r].commit, request[r].told)
    BY <1>4, <1>5, MovesAre DEF AuthInv
  <2>2. AuthTypes'
    BY <2>1, TypesKept DEF Consumed, AuthInv, AuthTypes
  <2>3. Fits(request'[r]) /\ ~Revokes(r)'
    BY <1>1, <1>2, <1>5, <2>1 DEF Fits, Moved, AuthCourse, Revokes
  <2> QED BY <1>1, <1>3, <2>1, <2>2, <2>3, Progresses
<1>6. CASE request[r].row = "none" /\ Tells(r, "no")
  <2>1. Moved(r, "end", request[r].commit, "no")
    BY <1>6, MovesAre DEF AuthInv
  <2>2. AuthTypes'
    BY <2>1, TypesKept DEF Consumed, AuthInv, AuthTypes
  <2>3. Fits(request'[r]) /\ ~Revokes(r)'
    BY <1>1, <1>2, <2>1, AuthConstants DEF Fits, Moved, AuthCourse, Revokes
  <2> QED BY <1>1, <1>3, <2>1, <2>2, <2>3, Progresses
<1> QED BY <1>5, <1>6 DEF Consumed

LEMMA OfferKeeps ==
  ASSUME AuthInv, NEW r \in Received, NEW kind \in {"register_options", "login_options"},
         NEW key \in {r, Login}, Offer(r, kind, key)
  PROVE  AuthInv'
<1>1. request[r].at = "listed" /\ ~request[r].commit /\ Fits(request[r]) /\ request[r].kind = kind
  BY FitsIs DEF AuthInv, Offer, Awaits
<1>2. r \in Number /\ Received \subseteq Number
  BY RequestIs DEF AuthInv
<1>3. Moved(r, "end", request[r].commit, "ok")
  BY MovesAre DEF AuthInv, Offer
<1>4. challenges' \in [Number \union {Login} -> [of : Number, old : BOOLEAN] \union {Absent}]
  BY <1>2 DEF Offer, StoreChallenge, AuthInv, AuthTypes
<1>5. AuthTypes'
  BY <1>3, <1>4, TypesKept DEF Offer, AuthInv, AuthTypes
<1>6. \A u \in Received \ {r} : challenges[u] = Absent => challenges'[u] = Absent
  BY <1>2, AuthConstants DEF Offer, StoreChallenge, AuthInv, AuthTypes
<1>7. Gentle(r)
  BY <1>1, <1>6 DEF Gentle, SameUsers, Offer
<1>8. Fits(request'[r]) /\ ~Revokes(r)'
  BY <1>1, <1>3, AuthConstants DEF Fits, Moved, AuthCourse, Revokes
<1> QED BY <1>1, <1>3, <1>5, <1>7, <1>8, Progresses

LEMMA CountKept ==
  ASSUME AuthTypes, NEW c \in Credential, NEW n \in 0..MaxCount, db.creds[c] # Absent,
         UpdateSignCount(c, n)
  PROVE  /\ db' \in Tables /\ db'.invites = db.invites /\ db'.sessions = db.sessions
         /\ SameUsers(db, db')
<1> DEFINE Row == [user : Number \union {Absent}, count : 0..MaxCount]
           creds == db.creds
           row == [creds[c] EXCEPT !.count = n]
           after == [creds EXCEPT ![c] = row]
<1>1. db \in Tables /\ creds \in [Credential -> Row \union {Absent}] /\ creds[c] \in Row
  BY DEF AuthTypes, Tables
<1>2. row \in Row /\ row.user = creds[c].user
  BY <1>1
<1>3. row # Absent
  BY <1>2, AuthAssumption DEF Number
<1>4. db' = [db EXCEPT !.creds = after]
  BY DEF UpdateSignCount
<1> HIDE DEF row
<1>5. /\ after \in [Credential -> Row \union {Absent}]
      /\ after[c] = row /\ \A d \in Credential \ {c} : after[d] = creds[d]
  BY <1>1, <1>2
<1> HIDE DEF after, Row
<1>6. db' \in Tables /\ db'.invites = db.invites /\ db'.sessions = db.sessions /\ db'.creds = after
  BY <1>1, <1>4, <1>5 DEF Tables, Row
<1>7. SameUsers(db, db')
  BY <1>2, <1>3, <1>5, <1>6 DEF SameUsers, UserOf
<1> QED BY <1>6, <1>7

LEMMA LookedKeeps ==
  ASSUME AuthInv, NEW r \in Received, Looked(r)
  PROVE  AuthInv'
<1>1. /\ request[r].at = "looked" /\ ~request[r].commit /\ Fits(request[r])
      /\ request[r].kind = "login_verify" /\ request[r].told = Absent
  BY FitsIs, CourseIs DEF AuthInv, Looked, Awaits, RequestsRight
<1>2. /\ r \in Number /\ Received \subseteq Number /\ request[r].count \in 0..MaxCount
  BY RequestIs DEF AuthInv, RequestRecord
<1>3. CASE request[r].row = "none" /\ Tells(r, "no") /\ UNCHANGED <<db, challenges>>
  <2>1. Moved(r, "end", request[r].commit, "no")
    BY <1>3, MovesAre DEF AuthInv
  <2>2. AuthTypes'
    BY <1>3, <2>1, TypesKept DEF Looked, AuthInv, AuthTypes
  <2>3. Fits(request'[r]) /\ ~Revokes(r)'
    BY <1>1, <2>1, AuthConstants DEF Fits, Moved, AuthCourse, Revokes
  <2>4. Gentle(r)
    BY <1>1, <1>3, UnchangedIsGentle DEF Looked
  <2> QED BY <1>1, <2>1, <2>2, <2>3, <2>4, Progresses
<1>4. CASE request[r].row = "found" /\ PopChallenge(Login)
  <2>1. /\ challenges' \in [Number \union {Login} -> [of : Number, old : BOOLEAN] \union {Absent}]
        /\ \A u \in Received \ {r} : challenges[u] = Absent => challenges'[u] = Absent
    BY <1>2, <1>4 DEF PopChallenge, AuthInv, AuthTypes
  <2>2. CASE /\ UpdateSignCount(request[r].cred, request[r].count)
             /\ Becomes(r, [request[r] EXCEPT !.at = "counted", !.commit = TRUE])
    <3>1. Moved(r, "counted", TRUE, request[r].told)
      BY <2>2, MovesAre DEF AuthInv, Place
    <3>2. request[r].cred \in Credential /\ db.creds[request[r].cred] # Absent
      BY <1>1, <1>4 DEF AuthInv, KnownCredentials
    <3>3. db' \in Tables /\ db'.invites = db.invites /\ db'.sessions = db.sessions /\ SameUsers(db, db')
      BY <1>2, <2>2, <3>2, CountKept DEF AuthInv
    <3>4. AuthTypes'
      BY <2>1, <3>1, <3>3, TypesKept DEF Looked, AuthInv
    <3>5. Gentle(r)
      BY <1>1, <2>1, <3>3 DEF Gentle, Looked
    <3>6. Fits(request'[r]) /\ ~Revokes(r)'
      BY <1>1, <3>1, AuthConstants DEF Fits, Moved, AuthCourse, Revokes
    <3> QED BY <1>1, <3>1, <3>4, <3>5, <3>6, Progresses
  <2>3. CASE Tells(r, "no") /\ UNCHANGED db
    <3>1. Moved(r, "end", request[r].commit, "no")
      BY <2>3, MovesAre DEF AuthInv
    <3>2. AuthTypes'
      BY <2>1, <2>3, <3>1, TypesKept DEF Looked, AuthInv, AuthTypes
    <3>3. Gentle(r)
      BY <1>1, <2>1, <2>3 DEF Gentle, Looked, SameUsers
    <3>4. Fits(request'[r]) /\ ~Revokes(r)'
      BY <1>1, <3>1, AuthConstants DEF Fits, Moved, AuthCourse, Revokes
    <3> QED BY <1>1, <3>1, <3>2, <3>3, <3>4, Progresses
  <2> QED
    <3>1. \/ UpdateSignCount(request[r].cred, request[r].count)
               /\ Becomes(r, [request[r] EXCEPT !.at = "counted", !.commit = TRUE])
          \/ Tells(r, "no") /\ UNCHANGED db
      BY <1>4 DEF Looked
    <3> QED BY <2>2, <2>3, <3>1
<1> QED BY <1>3, <1>4 DEF Looked

(* What happens to one session. *)
OneSession(t, session) ==
  /\ db' \in Tables /\ db'.invites = db.invites /\ db'.creds = db.creds
  /\ db'.sessions[t] = session
  /\ \A s \in Number \ {t} : db'.sessions[s] = db.sessions[s]

LEMMA OneSessionIs ==
  ASSUME db \in Tables, NEW t \in Number, NEW session \in {"fresh", "old", Absent},
         db' = [db EXCEPT !.sessions[t] = session]
  PROVE  OneSession(t, session)
<1> DEFINE after == [db.sessions EXCEPT ![t] = session]
<1>1. after \in [Number -> {"fresh", "old", Absent}] /\ after[t] = session
      /\ \A s \in Number \ {t} : after[s] = db.sessions[s]
  BY DEF Tables
<1>2. db' = [db EXCEPT !.sessions = after]
  OBVIOUS
<1> HIDE DEF after
<1>3. db' \in Tables /\ db'.invites = db.invites /\ db'.creds = db.creds /\ db'.sessions = after
  BY <1>1, <1>2 DEF Tables
<1> QED BY <1>1, <1>3 DEF OneSession

LEMMA SessionIsGentle ==
  ASSUME NEW r, NEW t, NEW session, OneSession(t, session), t = r \/ session = Absent,
         ~request[r].commit, UNCHANGED <<saved, challenges>>
  PROVE  Gentle(r)
BY DEF OneSession, Gentle, SameUsers, UserOf

LEMMA ReplaceKeeps ==
  ASSUME AuthInv, NEW r \in Received, Replace(r)
  PROVE  AuthInv'
<1>1. /\ request[r].at = "counted" /\ ~request[r].commit /\ Fits(request[r])
      /\ request[r].kind = "login_verify" /\ request[r].told = Absent
  BY FitsIs, CourseIs DEF AuthInv, Replace, Awaits, RequestsRight
<1>2. request[r].token \in Number
  BY RequestIs DEF AuthInv, Replace, RequestRecord
<1>3. Moved(r, "replaced", TRUE, request[r].told)
  BY MovesAre DEF AuthInv, Replace, Place
<1>4. OneSession(request[r].token, Absent)
  BY <1>2, OneSessionIs DEF Replace, DeleteSession, AuthInv, AuthTypes
<1>5. Gentle(r)
  BY <1>1, <1>4, SessionIsGentle DEF Replace
<1>6. AuthTypes'
  BY <1>3, <1>4, TypesKept DEF Replace, AuthInv, AuthTypes, OneSession
<1>7. Fits(request'[r])
  BY <1>1, <1>3, AuthConstants DEF Fits, Moved, AuthCourse
<1>8. db'.sessions[request[r].token] = Absent
  BY <1>4 DEF OneSession
<1> QED BY <1>1, <1>3, <1>5, <1>6, <1>7, <1>8, Progresses

LEMMA CreateSessionKeeps ==
  ASSUME AuthInv, NEW r \in Received, CreateSession(r)
  PROVE  AuthInv'
<1>1. /\ request[r].at \in {"added", "replaced", "counted"} /\ ~request[r].commit /\ Fits(request[r])
      /\ request[r].at = "counted" => request[r].token = Absent
  BY FitsIs DEF AuthInv, CreateSession, Awaits
<1>2. /\ request[r].told = Absent /\ r \in Number
      /\ request[r].kind \in {"register_verify", "login_verify"}
  BY <1>1, CourseIs, RequestIs DEF AuthInv, RequestsRight
<1>3. Moved(r, "created", TRUE, request[r].told)
  BY MovesAre DEF AuthInv, CreateSession, Place
<1>4. OneSession(r, "fresh")
  BY <1>2, OneSessionIs DEF CreateSession, AuthInv, AuthTypes
<1>5. Gentle(r)
  BY <1>1, <1>4, SessionIsGentle DEF CreateSession
<1>6. AuthTypes'
  BY <1>3, <1>4, TypesKept DEF CreateSession, AuthInv, AuthTypes, OneSession
<1>7. Fits(request'[r])
  BY <1>1, <1>2, <1>3, AuthConstants DEF Fits, Moved, AuthCourse
<1>8. Revokes(r)' => Revokes(r)
  BY <1>1, <1>2, <1>3, CourseIs, AuthConstants DEF Revokes, Moved
<1> QED BY <1>1, <1>3, <1>5, <1>6, <1>7, <1>8, Progresses

LEMMA EndsKeeps ==
  ASSUME AuthInv, NEW r \in Received, Ends(r)
  PROVE  AuthInv'
<1>1. /\ request[r].at \in {"created", "deleted", "touched", "expired"} /\ ~request[r].commit
      /\ Fits(request[r])
  BY FitsIs DEF AuthInv, Ends, Awaits
<1>2. /\ request[r].told = Absent
      /\ request[r].kind \in {"register_verify", "login_verify", "logout", "guarded"}
      /\ request[r].kind = "login_verify" => request[r].at = "created"
      /\ request[r].kind = "logout" => request[r].at = "deleted"
  BY <1>1, CourseIs DEF AuthInv, RequestsRight
<1>3. PICK answer \in {"ok", "no"} : Tells(r, answer)
  BY DEF Ends
<1>4. Moved(r, "end", request[r].commit, answer)
  BY <1>3, MovesAre DEF AuthInv
<1>5. AuthTypes'
  BY <1>4, TypesKept DEF Ends, AuthInv, AuthTypes
<1>6. Gentle(r)
  BY <1>1, UnchangedIsGentle DEF Ends
<1>7. Fits(request'[r])
  BY <1>1, <1>2, <1>4, AuthConstants DEF Fits, Moved, AuthCourse
<1>8. Revokes(r)' => Revokes(r)
  BY <1>1, <1>2, <1>4, AuthConstants DEF Revokes, Moved
<1> QED BY <1>1, <1>4, <1>5, <1>6, <1>7, <1>8, Progresses

LEMMA ValidateKeeps ==
  ASSUME AuthInv, NEW r \in Received, Validate(r)
  PROVE  AuthInv'
<1>1. /\ request[r].at = "read" /\ ~request[r].commit /\ Fits(request[r])
      /\ request[r].kind = "guarded" /\ request[r].told = Absent
      /\ UNCHANGED <<saved, challenges>>
  BY FitsIs, CourseIs DEF AuthInv, Validate, Awaits, RequestsRight
<1>2. request[r].token \in Number /\ request[r].row \in {"none", "found", "fresh", "old"}
  BY <1>1, RequestIs DEF AuthInv, RequestRecord, Fits
<1>3. db \in Tables
  BY DEF AuthInv, AuthTypes
<1>4. CASE Tells(r, "no") /\ UNCHANGED db
  <2>1. Moved(r, "end", request[r].commit, "no")
    BY <1>4, MovesAre DEF AuthInv
  <2>2. AuthTypes'
    BY <1>1, <1>4, <2>1, TypesKept DEF AuthInv, AuthTypes
  <2>3. Gentle(r)
    BY <1>1, <1>4, UnchangedIsGentle
  <2>4. Fits(request'[r]) /\ ~Revokes(r)'
    BY <1>1, <2>1, AuthConstants DEF Fits, Moved, AuthCourse, Revokes
  <2> QED BY <1>1, <2>1, <2>2, <2>3, <2>4, Progresses
<1>5. CASE /\ DeleteSession(request[r].token)
           /\ Becomes(r, [request[r] EXCEPT !.at = "expired", !.commit = TRUE])
  <2>1. Moved(r, "expired", TRUE, request[r].told)
    BY <1>5, MovesAre DEF AuthInv, Place
  <2>2. OneSession(request[r].token, Absent)
    BY <1>2, <1>3, <1>5, OneSessionIs DEF DeleteSession
  <2>3. AuthTypes'
    BY <1>1, <2>1, <2>2, TypesKept DEF AuthInv, AuthTypes, OneSession
  <2>4. Gentle(r)
    BY <1>1, <2>2, SessionIsGentle
  <2>5. Fits(request'[r]) /\ ~Revokes(r)'
    BY <1>1, <2>1, AuthConstants DEF Fits, Moved, AuthCourse, Revokes
  <2> QED BY <1>1, <2>1, <2>3, <2>4, <2>5, Progresses
<1>6. CASE /\ TouchSession(request[r].token)
           /\ Becomes(r, [request[r] EXCEPT !.at = "touched", !.commit = TRUE])
  <2>1. Moved(r, "touched", TRUE, request[r].told)
    BY <1>6, MovesAre DEF AuthInv, Place
  <2>2. db' \in Tables /\ Gentle(r)
    <3>1. CASE db.sessions[request[r].token] = Absent
      BY <1>1, <1>3, <1>6, <3>1 DEF TouchSession, Gentle, SameUsers
    <3>2. CASE db.sessions[request[r].token] # Absent
      <4>1. OneSession(request[r].token, "fresh")
        BY <1>2, <1>3, <1>6, <3>2, OneSessionIs DEF TouchSession
      <4> QED BY <1>1, <3>2, <4>1 DEF OneSession, Gentle, SameUsers, UserOf
    <3> QED BY <3>1, <3>2
  <2>3. AuthTypes'
    BY <1>1, <2>1, <2>2, TypesKept DEF AuthInv, AuthTypes
  <2>4. Fits(request'[r]) /\ ~Revokes(r)'
    BY <1>1, <2>1, AuthConstants DEF Fits, Moved, AuthCourse, Revokes
  <2> QED BY <1>1, <2>1, <2>2, <2>3, <2>4, Progresses
<1>7. request[r].row # "found"
  BY <1>1 DEF Fits
<1> QED BY <1>2, <1>4, <1>5, <1>6, <1>7 DEF Validate

LEMMA ProgressKeeps ==
  ASSUME AuthInv, NEW r \in Received, AuthProgress(r)
  PROVE  AuthInv'
<1>1. CASE OfferRegistration(r)
  BY <1>1, OfferKeeps DEF OfferRegistration
<1>2. CASE OfferLogin(r)
  BY <1>2, OfferKeeps DEF OfferLogin
<1> QED
  BY <1>1, <1>2, CommitKeeps, ConsumedKeeps, LookedKeeps, ReplaceKeeps, CreateSessionKeeps,
     ValidateKeeps, EndsKeeps DEF AuthProgress

-----------------------------------------------------------------------------
(* The arrival of a request. *)

(* What may happen to the tables and the challenges with it.               *)
Welcome ==
  /\ saved' = saved /\ db' \in Tables
  /\ challenges' \in [Number \union {Login} -> [of : Number, old : BOOLEAN] \union {Absent}]
  /\ \A u \in Received : challenges[u] = Absent => challenges'[u] = Absent
  /\ \A i \in Invite : db.invites[i] # "valid" => db'.invites[i] # "valid"
  /\ \A c \in Credential : db.creds[c] # Absent => db'.creds[c] # Absent
  /\ \A t \in Number : db.sessions[t] = Absent => db'.sessions[t] = Absent

(* What is known of the request, and what it has done already.             *)
Welcomed(q) ==
  /\ Fits(q) /\ (q.token # Absent => q.token \in Received /\ request[q.token].told = "ok")
  /\ q.kind = "register_options" =>
       /\ q.told = Absent /\ q.commit
       /\ q.row = "found" => db.invites[q.invite] = "valid" /\ db'.invites[q.invite] # "valid"
  /\ q.at = "looked" /\ q.row = "found" => q.cred \in Credential /\ db.creds[q.cred] # Absent
  /\ q.kind = "login_verify" => q.at = "looked"
  /\ q.kind = "logout" => q.commit /\ q.at = "deleted" /\ db'.sessions[q.token] = Absent

LEMMA ArrivedUsers ==
  ASSUME NEW d, NEW e, UsersOnce(d, request, challenges), SameUsers(d, e), NEW q, Arrived(q),
         \A u \in Received : challenges[u] = Absent => challenges'[u] = Absent
  PROVE  UsersOnce(e, request', challenges')
<1>1. \A u \in Received :
        /\ u \in Received' /\ request'[u] = request[u]
        /\ challenges[u] = Absent => challenges'[u] = Absent
  BY DEF Arrived
<1>2. ASSUME NEW c \in Credential, UserOf(e, c)
      PROVE  LET u == e.creds[c].user IN
             /\ u \in Received' /\ request'[u].kind = "register_options" /\ request'[u].told = "ok"
             /\ challenges'[u] = Absent
  BY <1>1, <1>2 DEF UsersOnce, SameUsers, Received
<1>3. \A b, c \in Credential :
        UserOf(e, b) /\ UserOf(e, c) /\ e.creds[b].user = e.creds[c].user => b = c
  BY DEF UsersOnce, SameUsers
<1> QED BY <1>2, <1>3 DEF UsersOnce, Received

LEMMA ArrivalKeeps ==
  ASSUME AuthInv, NEW q \in RequestRecord, Arrives(q), Welcome, Welcomed(q),
         UsersOnce(db', request', challenges')
  PROVE  AuthInv'
<1>1. Arrived(q)
  BY ArrivesIs DEF AuthInv
<1>2. PICK n :
      /\ n \in Number \ Received /\ Received' = Received \union {n} /\ request'[n] = q
      /\ \A r \in Received : request'[r] = request[r]
  BY <1>1 DEF Arrived
<1>3. AuthTypes'
  BY <1>1 DEF Arrived, Welcome, AuthInv, AuthTypes
<1>4. RequestsRight'
  <2>1. \A r \in Received : Fits(request[r]) /\
          (request[r].token # Absent =>
             request[r].token \in Received /\ request[request[r].token].told = "ok")
    BY FitsIs DEF AuthInv
  <2>2. \A r \in Received' : Fits(request'[r])
    BY <1>2, <2>1 DEF Welcomed
  <2>3. \A r \in Received' : request'[r].token # Absent =>
          request'[r].token \in Received /\ request[request'[r].token].told = "ok"
    BY <1>2, <2>1 DEF Welcomed
  <2>4. \A r \in Received' : request'[r].token # Absent =>
          request'[r].token \in Received' /\ request'[request'[r].token].told = "ok"
    BY <1>2, <2>3
  <2> QED BY <2>2, <2>4 DEF RequestsRight, Fits
<1>5. InvitesTaken'
  <2>1. \A r \in Received : (Holds(r)' <=> Holds(r)) /\ request'[r] = request[r]
    BY <1>2 DEF Holds
  <2>2. Holds(n)' => /\ q.invite \in Invite /\ db.invites[q.invite] = "valid"
                     /\ db'.invites[q.invite] # "valid" /\ q.commit
    BY <1>2 DEF Holds, Welcomed, Fits
  <2>3. \A r \in Received : Holds(r) => request[r].invite \in Invite
    BY DEF Holds, AuthInv, RequestsRight
  <2>4. ASSUME NEW r \in Received', Holds(r)'
        PROVE  /\ db'.invites[request'[r].invite] # "valid"
               /\ ~request'[r].commit => saved'.invites[request'[r].invite] # "valid"
    <3>1. CASE r \in Received
      BY <2>1, <2>3, <2>4, <3>1 DEF AuthInv, InvitesTaken, Welcome
    <3>2. CASE r = n
      BY <1>2, <2>2, <2>4, <3>2
    <3> QED BY <1>2, <3>1, <3>2
  <2>5. \A r \in Received : Holds(r) /\ Holds(n)' => request[r].invite # q.invite
    BY <2>2 DEF AuthInv, InvitesTaken
  <2>6. \A r, s \in Received' :
          Holds(r)' /\ Holds(s)' /\ request'[r].invite = request'[s].invite => r = s
    BY <1>2, <2>1, <2>5 DEF AuthInv, InvitesTaken
  <2> QED BY <2>4, <2>6 DEF InvitesTaken
<1>6. UsersOnce(saved', request', challenges')
  <2>1. SameUsers(saved, saved)
    BY DEF SameUsers
  <2>2. UsersOnce(saved, request', challenges')
    BY <1>1, <2>1, ArrivedUsers DEF AuthInv, Welcome
  <2> QED BY <2>2 DEF Welcome
<1>7. KnownCredentials'
  BY <1>2 DEF AuthInv, KnownCredentials, Welcome, Welcomed
<1>8. Revoked'
  <2>1. \A r \in Received : (Revokes(r)' <=> Revokes(r)) /\ request'[r] = request[r]
    BY <1>2 DEF Revokes
  <2>2. Received \subseteq Number /\ \A r \in Received : Revokes(r) => request[r].token \in Number
    <3>1. \A r \in Received : Revokes(r) => request[r].token # Absent
      BY DEF AuthInv, Revokes, RequestsRight
    <3>2. \A r \in Received : r \in Number /\ request[r].token \in Number \union {Absent}
      BY RequestIs DEF AuthInv, RequestRecord
    <3>3. Received \subseteq Number
      BY <3>2
    <3>4. \A r \in Received : Revokes(r) => request[r].token \in Number
      BY <3>1, <3>2
    <3> QED BY <3>3, <3>4
  <2>3. Revokes(n)' => q.commit /\ q.at = "deleted" /\ db'.sessions[q.token] = Absent
    BY <1>2, AuthConstants DEF Revokes, Welcomed, Fits
  <2>4. ASSUME NEW r \in Received', Revokes(r)'
        PROVE  /\ db'.sessions[request'[r].token] = Absent
               /\ ~(request'[r].commit /\ request'[r].at \in {"deleted", "replaced"})
                    => saved'.sessions[request'[r].token] = Absent
    <3>1. CASE r \in Received
      BY <2>1, <2>2, <2>4, <3>1 DEF AuthInv, Revoked, Welcome
    <3>2. CASE r = n
      BY <1>2, <2>3, <2>4, <3>2
    <3> QED BY <1>2, <3>1, <3>2
  <2> QED BY <2>4 DEF Revoked
<1> QED BY <1>3, <1>4, <1>5, <1>6, <1>7, <1>8 DEF AuthInv

LEMMA BlankIs ==
  ASSUME NEW kind \in RequestKind, NEW at \in Place, NEW commit \in BOOLEAN
  PROVE  LET b == Blank(kind, at, commit) IN
         /\ b \in RequestRecord /\ b.kind = kind /\ b.at = at /\ b.commit = commit
         /\ b.told = Absent /\ b.invite = Absent /\ b.user = Absent /\ b.cred = Absent
         /\ b.token = Absent /\ b.row = "none"
<1>1. 0 \in Counts /\ {} \in SUBSET Credential
  BY AuthAssumption DEF Counts
<1> QED BY <1>1, RecordIs DEF Blank

(* The step leaves the tables alone. *)
LEMMA WelcomeUnchanged ==
  ASSUME AuthTypes, UNCHANGED <<db, saved, challenges>>
  PROVE  Welcome /\ SameUsers(db, db')
BY DEF Welcome, AuthTypes, SameUsers

LEMMA RegisterOptionsKeeps ==
  ASSUME AuthInv, NEW i \in Invite, RegisterOptions(i)
  PROVE  AuthInv'
<1> DEFINE q == [Blank("register_options", "consumed", TRUE)
                   EXCEPT !.invite = i, !.row = IF db.invites[i] = "valid" THEN "found" ELSE @]
<1>1. /\ q \in RequestRecord /\ q.kind = "register_options" /\ q.at = "consumed" /\ q.commit
      /\ q.told = Absent /\ q.invite = i /\ q.token = Absent
      /\ q.row = IF db.invites[i] = "valid" THEN "found" ELSE "none"
  <2>1. "register_options" \in RequestKind /\ "consumed" \in Place
    BY DEF RequestKind, Place
  <2>2. LET b == Blank("register_options", "consumed", TRUE) IN
        /\ b \in RequestRecord /\ b.kind = "register_options" /\ b.at = "consumed" /\ b.commit = TRUE
        /\ b.told = Absent /\ b.invite = Absent /\ b.user = Absent /\ b.cred = Absent
        /\ b.token = Absent /\ b.row = "none"
    BY <2>1, BlankIs
  <2> QED BY <2>2, RecordIs
<1>2. Arrives(q) /\ ConsumeInvite(i) /\ UNCHANGED <<saved, challenges>>
  BY DEF RegisterOptions
<1> HIDE DEF q
<1>3. /\ db' \in Tables /\ db'.creds = db.creds /\ db'.sessions = db.sessions
      /\ db'.invites[i] # "valid"
      /\ \A j \in Invite \ {i} : db'.invites[j] = db.invites[j]
  <2>1. db \in Tables
    BY DEF AuthInv, AuthTypes
  <2>2. CASE db.invites[i] = "valid"
    <3> DEFINE after == [db.invites EXCEPT ![i] = "consumed"]
    <3>1. after \in [Invite -> {"valid", "consumed", "expired"}] /\ after[i] = "consumed"
          /\ \A j \in Invite \ {i} : after[j] = db.invites[j]
      BY <2>1 DEF Tables
    <3>2. db' = [db EXCEPT !.invites = after]
      BY <1>2, <2>2 DEF ConsumeInvite
    <3> HIDE DEF after
    <3>3. db' \in Tables /\ db'.invites = after /\ db'.creds = db.creds /\ db'.sessions = db.sessions
      BY <2>1, <3>1, <3>2 DEF Tables
    <3> QED BY <3>1, <3>3
  <2>3. CASE db.invites[i] # "valid"
    BY <1>2, <2>1, <2>3 DEF ConsumeInvite
  <2> QED BY <2>2, <2>3
<1>4. SameUsers(db, db')
  BY <1>3 DEF SameUsers, UserOf
<1>5. Welcome
  BY <1>2, <1>3 DEF Welcome, AuthInv, AuthTypes
<1>6. Fits(q)
  BY <1>1, AuthConstants DEF Fits, AuthCourse
<1>7. Welcomed(q)
  BY <1>1, <1>3, <1>6 DEF Welcomed
<1>8. UsersOnce(db', request', challenges')
  BY <1>1, <1>2, <1>4, <1>5, ArrivesIs, ArrivedUsers DEF AuthInv, Welcome
<1> QED BY <1>1, <1>2, <1>5, <1>7, <1>8, ArrivalKeeps

LEMMA LoginOptionsKeeps ==
  ASSUME AuthInv, LoginOptions
  PROVE  AuthInv'
<1> DEFINE q == [Blank("login_options", "listed", FALSE) EXCEPT !.seen = Registered]
<1>1. /\ q \in RequestRecord /\ q.kind = "login_options" /\ q.at = "listed" /\ ~q.commit
      /\ q.told = Absent /\ q.token = Absent
  <2>1. "login_options" \in RequestKind /\ "listed" \in Place
    BY DEF RequestKind, Place
  <2>2. LET b == Blank("login_options", "listed", FALSE) IN
        /\ b \in RequestRecord /\ b.kind = "login_options" /\ b.at = "listed" /\ b.commit = FALSE
        /\ b.told = Absent /\ b.invite = Absent /\ b.user = Absent /\ b.cred = Absent
        /\ b.token = Absent /\ b.row = "none"
    BY <2>1, BlankIs
  <2> QED BY <2>2, RecordIs DEF Registered
<1>2. Arrives(q) /\ UNCHANGED <<db, saved, challenges>>
  BY DEF LoginOptions
<1> HIDE DEF q
<1>3. Welcome /\ SameUsers(db, db')
  BY <1>2, WelcomeUnchanged DEF AuthInv
<1>4. Fits(q)
  BY <1>1, AuthConstants DEF Fits, AuthCourse
<1>5. Welcomed(q)
  BY <1>1, <1>4 DEF Welcomed
<1>6. UsersOnce(db', request', challenges')
  BY <1>1, <1>2, <1>3, ArrivesIs, ArrivedUsers DEF AuthInv, Welcome
<1> QED BY <1>1, <1>2, <1>3, <1>5, <1>6, ArrivalKeeps

LEMMA CookieIs ==
  ASSUME AuthTypes, NEW t \in Cookies
  PROVE  t \in Received /\ t \in Number /\ t # Absent /\ request[t].told = "ok"
BY RequestIs, AuthConstants DEF Cookies

LEMMA LogoutKeeps ==
  ASSUME AuthInv, NEW t \in Cookies, Logout(t)
  PROVE  AuthInv'
<1> DEFINE q == [Blank("logout", "deleted", TRUE) EXCEPT !.token = t]
<1>1. t \in Received /\ t \in Number /\ t # Absent /\ request[t].told = "ok"
  BY CookieIs DEF AuthInv
<1>2. /\ q \in RequestRecord /\ q.kind = "logout" /\ q.at = "deleted" /\ q.commit
      /\ q.told = Absent /\ q.token = t
  <2>1. "logout" \in RequestKind /\ "deleted" \in Place
    BY DEF RequestKind, Place
  <2>2. LET b == Blank("logout", "deleted", TRUE) IN
        /\ b \in RequestRecord /\ b.kind = "logout" /\ b.at = "deleted" /\ b.commit = TRUE
        /\ b.told = Absent /\ b.invite = Absent /\ b.user = Absent /\ b.cred = Absent
        /\ b.token = Absent /\ b.row = "none"
    BY <2>1, BlankIs
  <2> QED BY <1>1, <2>2, RecordIs
<1>3. Arrives(q) /\ DeleteSession(t) /\ UNCHANGED <<saved, challenges>>
  BY DEF Logout
<1> HIDE DEF q
<1>4. OneSession(t, Absent)
  BY <1>1, <1>3, OneSessionIs DEF DeleteSession, AuthInv, AuthTypes
<1>5. Welcome /\ SameUsers(db, db') /\ db'.sessions[t] = Absent
  BY <1>3, <1>4 DEF OneSession, Welcome, SameUsers, UserOf, AuthInv, AuthTypes
<1>6. Fits(q)
  BY <1>1, <1>2, AuthConstants DEF Fits, AuthCourse
<1>7. Welcomed(q)
  BY <1>1, <1>2, <1>5, <1>6 DEF Welcomed
<1>8. UsersOnce(db', request', challenges')
  BY <1>2, <1>3, <1>5, ArrivesIs, ArrivedUsers DEF AuthInv, Welcome
<1> QED BY <1>2, <1>3, <1>5, <1>7, <1>8, ArrivalKeeps

LEMMA GuardedKeeps ==
  ASSUME AuthInv, NEW t \in Cookies, Guarded(t)
  PROVE  AuthInv'
<1> DEFINE q == [Blank("guarded", "read", FALSE) EXCEPT !.token = t, !.row = GetSession(t)]
<1>1. t \in Received /\ t \in Number /\ t # Absent /\ request[t].told = "ok"
  BY CookieIs DEF AuthInv
<1>2. GetSession(t) \in {"none", "fresh", "old"}
  BY <1>1 DEF GetSession, AuthInv, AuthTypes, Tables
<1>3. /\ q \in RequestRecord /\ q.kind = "guarded" /\ q.at = "read" /\ ~q.commit
      /\ q.told = Absent /\ q.token = t /\ q.row # "found"
  <2>1. "guarded" \in RequestKind /\ "read" \in Place
    BY DEF RequestKind, Place
  <2>2. LET b == Blank("guarded", "read", FALSE) IN
        /\ b \in RequestRecord /\ b.kind = "guarded" /\ b.at = "read" /\ b.commit = FALSE
        /\ b.told = Absent /\ b.invite = Absent /\ b.user = Absent /\ b.cred = Absent
        /\ b.token = Absent /\ b.row = "none"
    BY <2>1, BlankIs
  <2> QED BY <1>1, <1>2, <2>2, RecordIs
<1>4. Arrives(q) /\ UNCHANGED <<db, saved, challenges>>
  BY DEF Guarded
<1> HIDE DEF q
<1>5. Welcome /\ SameUsers(db, db')
  BY <1>4, WelcomeUnchanged DEF AuthInv
<1>6. Fits(q)
  BY <1>1, <1>3, AuthConstants DEF Fits, AuthCourse
<1>7. Welcomed(q)
  BY <1>1, <1>3, <1>6 DEF Welcomed
<1>8. UsersOnce(db', request', challenges')
  BY <1>3, <1>4, <1>5, ArrivesIs, ArrivedUsers DEF AuthInv, Welcome
<1> QED BY <1>3, <1>4, <1>5, <1>7, <1>8, ArrivalKeeps

LEMMA PopIs ==
  ASSUME AuthTypes, NEW key \in Number \union {Login}, PopChallenge(key)
  PROVE  /\ challenges' \in [Number \union {Login} -> [of : Number, old : BOOLEAN] \union {Absent}]
         /\ challenges'[key] = Absent
         /\ \A k \in Number \union {Login} : challenges[k] = Absent => challenges'[k] = Absent
BY DEF AuthTypes, PopChallenge

LEMMA RegisterVerifyKeeps ==
  ASSUME AuthInv, NEW o \in Received, NEW c \in Credential, NEW good \in BOOLEAN,
         RegisterVerify(o, c, good)
  PROVE  AuthInv'
<1> DEFINE q == [Blank("register_verify", "added", TRUE) EXCEPT !.user = o, !.cred = c]
           p == [q EXCEPT !.at = "end", !.told = "no", !.commit = FALSE]
<1>1. Received \subseteq Number /\ o \in Number
  BY RequestIs DEF AuthInv
<1>2. /\ q \in RequestRecord /\ q.kind = "register_verify" /\ q.at = "added" /\ q.commit
      /\ q.told = Absent /\ q.token = Absent
  <2>1. "register_verify" \in RequestKind /\ "added" \in Place
    BY DEF RequestKind, Place
  <2>2. LET b == Blank("register_verify", "added", TRUE) IN
        /\ b \in RequestRecord /\ b.kind = "register_verify" /\ b.at = "added" /\ b.commit = TRUE
        /\ b.told = Absent /\ b.invite = Absent /\ b.user = Absent /\ b.cred = Absent
        /\ b.token = Absent /\ b.row = "none"
    BY <2>1, BlankIs
  <2> QED BY <1>1, <2>2, RecordIs
<1>3. /\ request[o].kind = "register_options" /\ request[o].told = "ok"
      /\ PopChallenge(o) /\ UNCHANGED saved
      /\ \/ VerifyRegistration(o, good) /\ c \notin Registered /\ Arrives(q) /\ AddCredential(c, o)
         \/ Arrives(p) /\ UNCHANGED db
  BY DEF RegisterVerify
<1> HIDE DEF q
<1>4. /\ p \in RequestRecord /\ p.kind = "register_verify" /\ p.at = "end" /\ ~p.commit
      /\ p.told = "no" /\ p.token = Absent
  <2>1. "end" \in Place
    BY DEF Place
  <2> QED BY <1>2, <2>1, RecordIs
<1> HIDE DEF p
<1>5. /\ challenges' \in [Number \union {Login} -> [of : Number, old : BOOLEAN] \union {Absent}]
      /\ challenges'[o] = Absent
      /\ \A k \in Number \union {Login} : challenges[k] = Absent => challenges'[k] = Absent
  BY <1>1, <1>3, PopIs DEF AuthInv
<1>6. Fits(q) /\ Fits(p)
  BY <1>2, <1>4, AuthConstants DEF Fits, AuthCourse
<1>7. Welcomed(q) /\ Welcomed(p)
  BY <1>2, <1>4, <1>6 DEF Welcomed
<1>8. CASE Arrives(p) /\ UNCHANGED db
  <2>1. Welcome
    BY <1>1, <1>3, <1>5, <1>8 DEF Welcome, AuthInv, AuthTypes
  <2>2. SameUsers(db, db')
    BY <1>8 DEF SameUsers
  <2>3. UsersOnce(db', request', challenges')
    BY <1>4, <1>8, <2>1, <2>2, ArrivesIs, ArrivedUsers DEF AuthInv, Welcome
  <2> QED BY <1>4, <1>7, <1>8, <2>1, <2>3, ArrivalKeeps
<1>9. CASE VerifyRegistration(o, good) /\ c \notin Registered /\ Arrives(q) /\ AddCredential(c, o)
  <2> DEFINE Row == [user : Number \union {Absent}, count : 0..MaxCount]
             row == [user |-> o, count |-> 0]
             after == [db.creds EXCEPT ![c] = row]
  <2>1. row \in Row /\ row.user = o
    BY <1>1, AuthAssumption
  <2>2. db \in Tables /\ db.creds \in [Credential -> Row \union {Absent}] /\ db.creds[c] = Absent
    BY <1>9 DEF AuthInv, AuthTypes, Tables, Registered
  <2>3. db' = [db EXCEPT !.creds = after]
    BY <1>9 DEF AddCredential
  <2> HIDE DEF row
  <2>4. /\ after \in [Credential -> Row \union {Absent}] /\ after[c] = row
        /\ \A d \in Credential \ {c} : after[d] = db.creds[d]
    BY <2>1, <2>2
  <2> HIDE DEF after, Row
  <2>5. db' \in Tables /\ db'.invites = db.invites /\ db'.sessions = db.sessions /\ db'.creds = after
    BY <2>2, <2>3, <2>4 DEF Tables, Row
  <2>6. Welcome
    BY <1>1, <1>3, <1>5, <2>2, <2>4, <2>5 DEF Welcome
  <2>7. /\ Received \subseteq Received' /\ \A u \in Received : request'[u] = request[u]
    BY <1>2, <1>9, ArrivesIs DEF AuthInv, Arrived
  <2>8. challenges[o] # Absent
    BY <1>9 DEF VerifyRegistration, Fresh
  <2>9. \A d \in Credential : UserOf(db', d) =>
          \/ d = c /\ db'.creds[d].user = o
          \/ UserOf(db, d) /\ db'.creds[d].user = db.creds[d].user
    <3>1. db'.creds[c].user = o
      BY <2>1, <2>4, <2>5
    <3>2. \A d \in Credential \ {c} : db'.creds[d] = db.creds[d]
      BY <2>4, <2>5
    <3> QED BY <3>1, <3>2 DEF UserOf
  <2>10. \A d \in Credential : UserOf(db, d) =>
           /\ db.creds[d].user \in Received /\ db.creds[d].user # o
           /\ request[db.creds[d].user].kind = "register_options"
           /\ request[db.creds[d].user].told = "ok" /\ challenges[db.creds[d].user] = Absent
    BY <2>8 DEF AuthInv, UsersOnce, Received
  <2>11. ASSUME NEW d \in Credential, UserOf(db', d)
         PROVE  LET u == db'.creds[d].user IN
                /\ u \in Received' /\ request'[u].kind = "register_options" /\ request'[u].told = "ok"
                /\ challenges'[u] = Absent
    BY <1>1, <1>3, <1>5, <2>7, <2>9, <2>10, <2>11
  <2>12. \A b, d \in Credential :
           UserOf(db', b) /\ UserOf(db', d) /\ db'.creds[b].user = db'.creds[d].user => b = d
    BY <2>9, <2>10 DEF AuthInv, UsersOnce
  <2>13. UsersOnce(db', request', challenges')
    BY <2>11, <2>12 DEF UsersOnce, Received
  <2> QED BY <1>2, <1>7, <1>9, <2>6, <2>13, ArrivalKeeps
<1> QED BY <1>3, <1>8, <1>9

LEMMA LoginVerifyKeeps ==
  ASSUME AuthInv, NEW o \in Received, NEW c \in Credential, NEW n \in 0..MaxCount,
         NEW t \in Cookies \union {Absent}, LoginVerify(o, c, n, t)
  PROVE  AuthInv'
<1> DEFINE p == [Blank("login_verify", "looked", FALSE)
                   EXCEPT !.user = o, !.cred = c, !.count = n, !.token = t]
           q == WithStored(p)
<1>1. Received \subseteq Number /\ o \in Number
  BY RequestIs DEF AuthInv
<1>2. t # Absent => t \in Received /\ t \in Number /\ request[t].told = "ok"
  BY CookieIs DEF AuthInv
<1>3. /\ p \in RequestRecord /\ p.kind = "login_verify" /\ p.at = "looked" /\ ~p.commit
      /\ p.told = Absent /\ p.token = t /\ p.row = "none" /\ p.cred = c
  <2>1. "login_verify" \in RequestKind /\ "looked" \in Place /\ n \in Counts
    BY DEF RequestKind, Place, Counts
  <2>2. LET b == Blank("login_verify", "looked", FALSE) IN
        /\ b \in RequestRecord /\ b.kind = "login_verify" /\ b.at = "looked" /\ b.commit = FALSE
        /\ b.told = Absent /\ b.invite = Absent /\ b.user = Absent /\ b.cred = Absent
        /\ b.token = Absent /\ b.row = "none"
    BY <2>1, BlankIs
  <2> QED BY <1>1, <1>2, <2>1, <2>2, RecordIs
<1>4. Arrives(q) /\ UNCHANGED <<db, saved, challenges>>
  BY DEF LoginVerify
<1> HIDE DEF p
<1>5. /\ q \in RequestRecord /\ q.kind = "login_verify" /\ q.at = "looked" /\ ~q.commit
      /\ q.told = Absent /\ q.token = t /\ q.cred = c
      /\ q.row = "found" => db.creds[c] # Absent
  <2>1. CASE c \in Registered
    <3> DEFINE s == db.creds[c].count
    <3>1. s \in Counts /\ db.creds[c] # Absent
      BY <2>1 DEF Registered, AuthInv, AuthTypes, Tables, Counts
    <3> HIDE DEF s
    <3>2. q = [p EXCEPT !.row = "found", !.stored = s]
      BY <1>3, <2>1 DEF WithStored, s
    <3> QED BY <1>3, <3>1, <3>2, RecordIs
  <2>2. CASE c \notin Registered
    BY <1>3, <2>2 DEF WithStored
  <2> QED BY <2>1, <2>2
<1> HIDE DEF q
<1>6. Welcome /\ SameUsers(db, db')
  BY <1>4, WelcomeUnchanged DEF AuthInv
<1>7. Fits(q)
  BY <1>5, AuthConstants DEF Fits, AuthCourse
<1>8. Welcomed(q)
  BY <1>2, <1>5, <1>7 DEF Welcomed
<1>9. UsersOnce(db', request', challenges')
  BY <1>4, <1>5, <1>6, ArrivesIs, ArrivedUsers DEF AuthInv, Welcome
<1> QED BY <1>4, <1>5, <1>6, <1>8, <1>9, ArrivalKeeps

-----------------------------------------------------------------------------
(* Time, and the end of the web UI. *)

LEMMA InviteExpiresKeeps ==
  ASSUME AuthInv, NEW i \in Invite, InviteExpires(i)
  PROVE  AuthInv'
<1> DEFINE Expired(d, e) ==
             /\ e \in Tables /\ e.creds = d.creds /\ e.sessions = d.sessions
             /\ \A j \in Invite : d.invites[j] # "valid" => e.invites[j] # "valid"
<1>1. ASSUME NEW d \in Tables, NEW e, e = [d EXCEPT !.invites[i] = "expired"]
      PROVE  Expired(d, e)
  <2> DEFINE after == [d.invites EXCEPT ![i] = "expired"]
  <2>1. /\ after \in [Invite -> {"valid", "consumed", "expired"}]
        /\ \A j \in Invite : d.invites[j] # "valid" => after[j] # "valid"
    BY DEF Tables
  <2>2. e = [d EXCEPT !.invites = after]
    BY <1>1
  <2> HIDE DEF after
  <2>3. e \in Tables /\ e.invites = after /\ e.creds = d.creds /\ e.sessions = d.sessions
    BY <2>1, <2>2 DEF Tables
  <2> QED BY <2>1, <2>3
<1>2. db \in Tables /\ saved \in Tables
  BY DEF AuthInv, AuthTypes
<1>3. Expired(db, db')
  BY <1>1, <1>2 DEF InviteExpires
<1>4. Expired(saved, saved')
  BY <1>1, <1>2 DEF InviteExpires
<1>5. UNCHANGED <<challenges, request>>
  BY DEF InviteExpires
<1>6. AuthTypes'
  BY <1>3, <1>4, <1>5 DEF AuthInv, AuthTypes
<1>7. RequestsRight' /\ \A r : (Holds(r)' <=> Holds(r)) /\ (Revokes(r)' <=> Revokes(r))
  BY <1>5 DEF AuthInv, RequestsRight, Holds, Revokes, Received
<1>8. InvitesTaken'
  <2>1. \A r \in Received : Holds(r) => request[r].invite \in Invite
    BY DEF Holds, AuthInv, RequestsRight
  <2> QED BY <1>3, <1>4, <1>5, <1>7, <2>1 DEF AuthInv, InvitesTaken, Received
<1>9. UsersOnce(db', request', challenges') /\ UsersOnce(saved', request', challenges')
  BY <1>3, <1>4, <1>5 DEF AuthInv, UsersOnce, UserOf
<1>10. KnownCredentials' /\ Revoked'
  BY <1>3, <1>4, <1>5, <1>7 DEF AuthInv, KnownCredentials, Revoked, Received
<1> QED BY <1>6, <1>7, <1>8, <1>9, <1>10 DEF AuthInv

LEMMA ChallengeExpiresKeeps ==
  ASSUME AuthInv, NEW k \in DOMAIN challenges, ChallengeExpires(k)
  PROVE  AuthInv'
<1>1. UNCHANGED <<db, saved, request>> /\ challenges[k] # Absent
      /\ challenges' = [challenges EXCEPT ![k] = [challenges[k] EXCEPT !.old = TRUE]]
  BY DEF ChallengeExpires
<1>2. /\ challenges \in [Number \union {Login} -> [of : Number, old : BOOLEAN] \union {Absent}]
      /\ k \in Number \union {Login}
  BY DEF AuthInv, AuthTypes
<1> DEFINE aged == [challenges[k] EXCEPT !.old = TRUE]
<1>3. aged \in [of : Number, old : BOOLEAN]
  BY <1>1, <1>2
<1> HIDE DEF aged
<1>4. /\ challenges' \in [Number \union {Login} -> [of : Number, old : BOOLEAN] \union {Absent}]
      /\ \A u \in Number \union {Login} : challenges[u] = Absent => challenges'[u] = Absent
  <2>1. challenges' = [challenges EXCEPT ![k] = aged]
    BY <1>1 DEF aged
  <2> QED BY <1>1, <1>2, <1>3, <2>1
<1>5. Received \subseteq Number
  BY RequestIs DEF AuthInv
<1>6. AuthTypes'
  BY <1>1, <1>4 DEF AuthInv, AuthTypes
<1>7. UsersOnce(db', request', challenges') /\ UsersOnce(saved', request', challenges')
  BY <1>1, <1>4, <1>5 DEF AuthInv, UsersOnce, UserOf, Received
<1>8. RequestsRight' /\ InvitesTaken' /\ KnownCredentials' /\ Revoked'
  BY <1>1 DEF AuthInv, RequestsRight, InvitesTaken, Holds, KnownCredentials, Revoked, Revokes, Received
<1> QED BY <1>6, <1>7, <1>8 DEF AuthInv

LEMMA SessionAgesKeeps ==
  ASSUME AuthInv, NEW t \in Cookies, SessionAges(t)
  PROVE  AuthInv'
<1>1. t \in Number
  BY CookieIs DEF AuthInv
<1>2. db \in Tables /\ saved \in Tables /\ db.sessions[t] = "fresh"
      /\ UNCHANGED <<challenges, request>>
  BY DEF AuthInv, AuthTypes, SessionAges
<1>3. OneSession(t, "old")
  BY <1>1, <1>2, OneSessionIs DEF SessionAges
<1>4. /\ saved' \in Tables /\ saved'.invites = saved.invites /\ saved'.creds = saved.creds
      /\ \A s \in Number : saved.sessions[s] = Absent => saved'.sessions[s] = Absent
  <2> DEFINE after == [saved.sessions EXCEPT ![t] = Aged(@)]
  <2>1. /\ after \in [Number -> {"fresh", "old", Absent}]
        /\ \A s \in Number : saved.sessions[s] = Absent => after[s] = Absent
    BY <1>1, <1>2 DEF Tables, Aged
  <2>2. saved' = [saved EXCEPT !.sessions = after]
    BY DEF SessionAges
  <2> HIDE DEF after
  <2>3. saved' \in Tables /\ saved'.invites = saved.invites /\ saved'.creds = saved.creds
        /\ saved'.sessions = after
    BY <1>2, <2>1, <2>2 DEF Tables
  <2> QED BY <2>1, <2>3
<1>5. \A s \in Number : db.sessions[s] = Absent => db'.sessions[s] = Absent
  <2>1. "fresh" # Absent
    BY AuthConstants
  <2> QED BY <1>2, <1>3, <2>1 DEF OneSession
<1>6. AuthTypes'
  BY <1>2, <1>3, <1>4 DEF AuthInv, AuthTypes, OneSession
<1>7. RequestsRight' /\ InvitesTaken' /\ KnownCredentials'
  BY <1>2, <1>3, <1>4 DEF AuthInv, RequestsRight, InvitesTaken, Holds, KnownCredentials, OneSession, Received
<1>8. UsersOnce(db', request', challenges') /\ UsersOnce(saved', request', challenges')
  BY <1>2, <1>3, <1>4 DEF AuthInv, UsersOnce, UserOf, OneSession
<1>9. Revoked'
  <2>1. \A r \in Received : Revokes(r) => request[r].token # Absent
    BY DEF AuthInv, Revokes, RequestsRight
  <2>2. \A r \in Received : request[r].token \in Number \union {Absent}
    BY RequestIs DEF AuthInv, RequestRecord
  <2>3. \A r \in Received : Revokes(r) => request[r].token \in Number
    BY <2>1, <2>2
  <2>4. Received' = Received /\ \A r \in Received : Revokes(r)' <=> Revokes(r)
    BY <1>2 DEF Revokes, Received
  <2> QED BY <1>2, <1>4, <1>5, <2>3, <2>4 DEF AuthInv, Revoked
<1> QED BY <1>6, <1>7, <1>8, <1>9 DEF AuthInv

LEMMA AuthRestartKeeps ==
  ASSUME AuthInv, AuthRestart
  PROVE  AuthInv'
<1>1. /\ db' = saved /\ saved' = saved
      /\ challenges' = [k \in DOMAIN challenges |-> Absent]
      /\ request' = [r \in Received |-> [request[r] EXCEPT !.at = "end", !.commit = FALSE]]
  BY DEF AuthRestart
<1>2. /\ Received = 1..Len(request) /\ Len(request) \in Nat /\ Len(request) <= MaxAuths
      /\ Received \subseteq Number
  BY RequestIs DEF AuthInv, AuthTypes, Received
<1>3. Received' = Received
  BY <1>1 DEF Received
<1>4. ASSUME NEW r \in Received
      PROVE  LET q == request'[r] IN
             /\ q \in RequestRecord /\ q.at = "end" /\ ~q.commit
             /\ q.kind = request[r].kind /\ q.told = request[r].told /\ q.row = request[r].row
             /\ q.invite = request[r].invite /\ q.token = request[r].token
  <2> DEFINE q == [request[r] EXCEPT !.at = "end", !.commit = FALSE]
  <2>1. request[r] \in RequestRecord /\ "end" \in Place
    BY RequestIs DEF AuthInv, Place
  <2>2. /\ q \in RequestRecord /\ q.at = "end" /\ ~q.commit
        /\ q.kind = request[r].kind /\ q.told = request[r].told /\ q.row = request[r].row
        /\ q.invite = request[r].invite /\ q.token = request[r].token
    BY <2>1, RecordIs
  <2>3. request'[r] = q
    BY <1>1
  <2> QED BY <2>2, <2>3
<1>5. request' \in Seq(RequestRecord) /\ Len(request') = Len(request)
  <2>1. DOMAIN request' = 1..Len(request) /\ \A r \in 1..Len(request) : request'[r] \in RequestRecord
    BY <1>1, <1>2, <1>4
  <2>2. request' = [r \in 1..Len(request) |-> request'[r]]
    BY <1>1, <1>2
  <2> QED BY <1>2, <2>1, <2>2, SeqDef, LenProperties
<1>6. AuthTypes'
  BY <1>1, <1>2, <1>5 DEF AuthInv, AuthTypes
<1>7. \A r \in Received : request[r].told # Absent => request[r].at = "end" /\ ~request[r].commit
  BY DEF AuthInv, RequestsRight
<1>8. RequestsRight'
  <2>1. \A r \in Received : Fits(request[r]) /\
          (request[r].token # Absent =>
             request[r].token \in Received /\ request[request[r].token].told = "ok")
    BY FitsIs DEF AuthInv
  <2>2. ASSUME NEW r \in Received PROVE Fits(request'[r])
    <3>1. "end" \in AuthCourse(request[r].kind)
      <4>1. request[r].kind \in RequestKind
        BY RequestIs, RecordIs DEF AuthInv
      <4> QED BY <4>1 DEF AuthCourse, RequestKind
    <3> QED BY <1>4, <2>1, <3>1 DEF Fits
  <2>3. \A r \in Received : request'[r].token # Absent =>
          request'[r].token \in Received /\ request'[request'[r].token].told = "ok"
    BY <1>4, <2>1
  <2> QED BY <1>3, <2>2, <2>3 DEF RequestsRight, Fits
<1>9. \A r \in Received : Holds(r)' => Holds(r) /\ ~request[r].commit
  BY <1>4, <1>7, AuthConstants DEF Holds
<1>10. InvitesTaken'
  <2>1. ASSUME NEW r \in Received, Holds(r)'
        PROVE  saved.invites[request'[r].invite] # "valid"
    BY <1>4, <1>9, <2>1 DEF AuthInv, InvitesTaken
  <2>2. \A r, s \in Received :
          Holds(r)' /\ Holds(s)' /\ request'[r].invite = request'[s].invite => r = s
    BY <1>4, <1>9 DEF AuthInv, InvitesTaken
  <2> QED BY <1>1, <1>3, <2>1, <2>2 DEF InvitesTaken
<1>11. UsersOnce(saved, request', challenges')
  <2>1. \A u \in Received : challenges'[u] = Absent
    BY <1>1, <1>2 DEF AuthInv, AuthTypes
  <2>2. \A c \in Credential : UserOf(saved, c) =>
          LET u == saved.creds[c].user IN
          u \in Received /\ request[u].kind = "register_options" /\ request[u].told = "ok"
    BY DEF AuthInv, UsersOnce, Received
  <2>3. \A b, c \in Credential :
          UserOf(saved, b) /\ UserOf(saved, c) /\ saved.creds[b].user = saved.creds[c].user => b = c
    BY DEF AuthInv, UsersOnce
  <2> QED BY <1>3, <1>4, <2>1, <2>2, <2>3 DEF UsersOnce, Received
<1>12. KnownCredentials'
  BY <1>3, <1>4 DEF KnownCredentials
<1>13. \A r \in Received : Revokes(r)' => Revokes(r) /\ ~request[r].commit
  BY <1>4, <1>7, AuthConstants DEF Revokes
<1>14. Revoked'
  BY <1>1, <1>3, <1>4, <1>13 DEF AuthInv, Revoked
<1> QED BY <1>1, <1>6, <1>8, <1>10, <1>11, <1>12, <1>14 DEF AuthInv

-----------------------------------------------------------------------------
LEMMA AuthInvHolds == AuthSpec => []AuthInv
<1>1. AuthInit => AuthInv
  <2> SUFFICES ASSUME AuthInit PROVE AuthInv
    OBVIOUS
  <2>1. /\ request = << >> /\ Received = {} /\ Len(request) = 0 /\ request \in Seq(RequestRecord)
        /\ saved = db /\ challenges = [k \in Number \union {Login} |-> Absent]
    BY DEF AuthInit, Received
  <2>2. db \in Tables /\ \A c \in Credential : ~UserOf(db, c)
    <3>1. /\ db \in [invites  : {[i \in Invite |-> "valid"]},
                     creds    : [Credential -> {Absent, [user |-> Absent, count |-> 0]}],
                     sessions : {[t \in Number |-> Absent]}]
      BY DEF AuthInit
    <3>2. [user |-> Absent, count |-> 0] \in [user : Number \union {Absent}, count : 0..MaxCount]
      BY AuthAssumption
    <3>3. [user |-> Absent, count |-> 0].user = Absent
      OBVIOUS
    <3>4. /\ db.invites \in [Invite -> {"valid", "consumed", "expired"}]
          /\ db.creds \in [Credential -> {Absent, [user |-> Absent, count |-> 0]}]
          /\ db.sessions \in [Number -> {"fresh", "old", Absent}]
          /\ db = [invites |-> db.invites, creds |-> db.creds, sessions |-> db.sessions]
      BY <3>1
    <3>5. db.creds \in [Credential -> [user : Number \union {Absent}, count : 0..MaxCount] \union {Absent}]
      BY <3>2, <3>4
    <3>6. db \in Tables
      BY <3>4, <3>5 DEF Tables
    <3> QED BY <3>3, <3>4, <3>6 DEF UserOf
  <2>3. AuthTypes
    BY <2>1, <2>2, AuthConstants DEF AuthTypes
  <2> QED BY <2>1, <2>2, <2>3 DEF AuthInv, RequestsRight, InvitesTaken, UsersOnce, KnownCredentials, Revoked
<1>2. AuthInv /\ [AuthNext]_authVars => AuthInv'
  <2> SUFFICES ASSUME AuthInv, [AuthNext]_authVars PROVE AuthInv'
    OBVIOUS
  <2>1. CASE UNCHANGED authVars
    BY <2>1 DEF authVars, AuthInv, AuthTypes, RequestsRight, InvitesTaken, Holds, UsersOnce, UserOf,
                KnownCredentials, Revoked, Revokes, Received
  <2>2. CASE \E i \in Invite : RegisterOptions(i) \/ InviteExpires(i)
    BY <2>2, RegisterOptionsKeeps, InviteExpiresKeeps
  <2>3. CASE \E o \in Received, c \in Credential, good \in BOOLEAN : RegisterVerify(o, c, good)
    BY <2>3, RegisterVerifyKeeps
  <2>4. CASE \E o \in Received, c \in Credential :
               \E n \in 0..MaxCount, t \in Cookies \union {Absent} : LoginVerify(o, c, n, t)
    BY <2>4, LoginVerifyKeeps
  <2>5. CASE LoginOptions
    BY <2>5, LoginOptionsKeeps
  <2>6. CASE \E t \in Cookies : Logout(t) \/ Guarded(t) \/ SessionAges(t)
    BY <2>6, LogoutKeeps, GuardedKeeps, SessionAgesKeeps
  <2>7. CASE \E k \in DOMAIN challenges : ChallengeExpires(k)
    BY <2>7, ChallengeExpiresKeeps
  <2>8. CASE \E r \in Received : AuthProgress(r)
    BY <2>8, ProgressKeeps
  <2>9. CASE AuthRestart
    BY <2>9, AuthRestartKeeps
  <2> QED BY <2>1, <2>2, <2>3, <2>4, <2>5, <2>6, <2>7, <2>8, <2>9 DEF AuthNext
<1> QED BY <1>1, <1>2, PTL DEF AuthSpec

(* One invitation is for one credential. *)
THEOREM OneCredentialPerInviteHolds == AuthSpec => []OneCredentialPerInvite
<1>1. AuthInv => OneCredentialPerInvite
  <2> SUFFICES ASSUME AuthInv, NEW c \in Registered, NEW d \in Registered,
                      db.creds[c].user # Absent, db.creds[d].user # Absent,
                      request[db.creds[c].user].invite = request[db.creds[d].user].invite
               PROVE  c = d
    BY DEF OneCredentialPerInvite
  <2>1. c \in Credential /\ d \in Credential /\ UserOf(db, c) /\ UserOf(db, d)
    BY DEF Registered, UserOf
  <2>2. ASSUME NEW b \in Credential, UserOf(db, b)
        PROVE  db.creds[b].user \in Received /\ Holds(db.creds[b].user)
    <3>1. /\ db.creds[b].user \in Received /\ request[db.creds[b].user].kind = "register_options"
          /\ request[db.creds[b].user].told = "ok"
      BY <2>2 DEF AuthInv, UsersOnce, Received
    <3> QED BY <3>1 DEF AuthInv, RequestsRight, Holds
  <2>3. db.creds[c].user = db.creds[d].user
    BY <2>1, <2>2 DEF AuthInv, InvitesTaken
  <2> QED BY <2>1, <2>3 DEF AuthInv, UsersOnce
<1> QED BY <1>1, AuthInvHolds, PTL

(* A session that was ended stays ended. *)
THEOREM RevokedStaysRevokedHolds == AuthSpec => []RevokedStaysRevoked
<1>1. AuthInv => RevokedStaysRevoked
  BY AuthConstants DEF AuthInv, Revoked, Revokes, RequestsRight, RevokedStaysRevoked
<1> QED BY <1>1, AuthInvHolds, PTL

-----------------------------------------------------------------------------
(* The status of GraphManager.                                             *)

StatusAsked == {Polled[i] : i \in DOMAIN Polled}

Wire == [up : BOOLEAN, broken : BOOLEAN, asked : Seq(StatusAsked), lines : Seq(Line)]

(* What is on its way answers the question that is waited for, and that    *)
(* once at most.                                                           *)
OneOnItsWay ==
  /\ \A i \in DOMAIN wire.lines : wire.lines[i].to # "event" =>
       /\ awaiting /\ wire.lines[i].to = Polled[polling]
       /\ wire.asked = <<>>
       /\ \A j \in DOMAIN wire.lines : wire.lines[j].to # "event" => i = j
  /\ wire.asked # <<>> => awaiting /\ wire.asked = <<Polled[polling]>>

StatusTypes ==
  /\ wire \in Wire
  /\ polling \in 0..4 /\ awaiting \in BOOLEAN
  /\ awaiting => polling # 0
  /\ section \in [StatusAsked -> Line \union {NoData}]

StatusInv == StatusTypes /\ OneOnItsWay /\ OwnAnswers

LEMMA PolledAre ==
  /\ DOMAIN Polled = 1..4 /\ StatusAsked = {"get_links", "get_state", "watchdog_status", "gain_integrity_status"}
  /\ Polled[1] = "get_links" /\ Polled[2] = "get_state"
  /\ Polled[3] = "watchdog_status" /\ Polled[4] = "gain_integrity_status"
  /\ \A i \in 1..4 : Polled[i] \in StatusAsked /\ Polled[i] # "event"
<1>1. DOMAIN Polled = 1..4 /\ Polled[1] = "get_links" /\ Polled[2] = "get_state"
      /\ Polled[3] = "watchdog_status" /\ Polled[4] = "gain_integrity_status"
  BY DEF Polled
<1>2. \A i \in 1..4 : i = 1 \/ i = 2 \/ i = 3 \/ i = 4
  OBVIOUS
<1> HIDE DEF Polled
<1> QED BY <1>1, <1>2 DEF StatusAsked

LEMMA LinesAre ==
  ASSUME NEW m \in Line
  PROVE  /\ m.to \in StatusAsked \union {"event"}
         /\ m.to = "get_links" => m \in [to : {"get_links"}, ok : BOOLEAN, mode : ShownMode, missing : BOOLEAN]
BY PolledAre DEF Line

LEMMA NoneIs == <<>> \in Seq(StatusAsked) /\ <<>> \in Seq(Line)
BY EmptySeq

LEMMA NoWireIs ==
  /\ NoWire \in Wire /\ NoWire.asked = <<>> /\ NoWire.lines = <<>>
  /\ LET opened == [NoWire EXCEPT !.up = TRUE] IN
       opened \in Wire /\ opened.asked = <<>> /\ opened.lines = <<>>
<1>1. NoWire \in [up : BOOLEAN, broken : BOOLEAN, asked : {<<>>}, lines : {<<>>}]
  BY DEF NoWire
<1>2. [NoWire EXCEPT !.up = TRUE] \in [up : BOOLEAN, broken : BOOLEAN, asked : {<<>>}, lines : {<<>>}]
  BY <1>1
<1> QED BY <1>1, <1>2, NoneIs DEF Wire

LEMMA WireWith ==
  ASSUME NEW w \in Wire, NEW a \in Seq(StatusAsked), NEW l \in Seq(Line)
  PROVE  /\ LET q == [w EXCEPT !.asked = a] IN q \in Wire /\ q.asked = a /\ q.lines = w.lines
         /\ LET q == [w EXCEPT !.lines = l] IN q \in Wire /\ q.asked = w.asked /\ q.lines = l
         /\ LET q == [w EXCEPT !.asked = a, !.lines = l] IN q \in Wire /\ q.asked = a /\ q.lines = l
         /\ LET q == [w EXCEPT !.broken = TRUE, !.asked = a] IN
              q \in Wire /\ q.asked = a /\ q.lines = w.lines
BY DEF Wire

LEMMA StatusStarts ==
  ASSUME StatusInit
  PROVE  StatusInv
<1>1. section = [q \in StatusAsked |-> NoData]
  BY DEF StatusInit, StatusAsked
<1>2. StatusTypes
  <2>1. wire = NoWire /\ polling = 0 /\ ~awaiting /\ awaiting \in BOOLEAN
    BY DEF StatusInit
  <2>2. section \in [StatusAsked -> Line \union {NoData}]
    BY <1>1
  <2> QED BY <2>1, <2>2, NoWireIs DEF StatusTypes
<1>3. wire.asked = <<>> /\ wire.lines = <<>>
  BY NoWireIs DEF StatusInit
<1>4. OneOnItsWay
  BY <1>3 DEF OneOnItsWay
<1>5. OwnAnswers
  BY <1>1 DEF OwnAnswers
<1> QED BY <1>2, <1>4, <1>5 DEF StatusInv

LEMMA NextQuestionIs ==
  ASSUME StatusTypes, NextQuestion
  PROVE  polling' \in 0..4 /\ ~awaiting'
<1>1. Len(Polled) = 4
  BY DEF Polled
<1> QED BY <1>1 DEF NextQuestion, StatusTypes

(* The sections stay, and nothing is on its way.                           *)
LEMMA NothingOnItsWay ==
  ASSUME StatusInv, section' = section,
         wire' \in Wire,
         wire'.asked = <<>>,
         \A i \in DOMAIN wire'.lines : wire'.lines[i].to = "event",
         polling' \in 0..4, awaiting' \in BOOLEAN, awaiting' => polling' # 0
  PROVE  StatusInv'
<1>1. StatusTypes' /\ OneOnItsWay'
  BY DEF StatusInv, StatusTypes, OneOnItsWay
<1>2. OwnAnswers'
  BY DEF StatusInv, OwnAnswers
<1> QED BY <1>1, <1>2 DEF StatusInv

LEMMA Unanswered ==
  ASSUME StatusInv, ~awaiting
  PROVE  wire.asked = <<>> /\ \A i \in DOMAIN wire.lines : wire.lines[i].to = "event"
BY DEF StatusInv, OneOnItsWay

LEMMA PollKeeps ==
  ASSUME StatusInv, Poll
  PROVE  StatusInv'
<1>1. ~awaiting /\ ~awaiting' /\ polling' \in 0..4 /\ section' = section
  BY DEF Poll, StatusInv, StatusTypes
<1>2. CASE wire.up
  BY <1>1, <1>2, Unanswered, NothingOnItsWay DEF Poll, EnsureConnected, StatusInv, StatusTypes
<1>3. CASE ~wire.up
  <2>1. wire' = [NoWire EXCEPT !.up = TRUE] /\ awaiting' \in BOOLEAN /\ awaiting' = awaiting
    BY <1>3 DEF Poll, EnsureConnected, StatusInv, StatusTypes
  <2> QED BY <1>1, <2>1, NoWireIs, NothingOnItsWay
<1> QED BY <1>2, <1>3

LEMMA QuestionKeeps ==
  ASSUME StatusInv, Question
  PROVE  StatusInv'
<1>1. ~awaiting /\ polling \in 1..4 /\ section' = section
  BY DEF Question, StatusInv, StatusTypes
<1>2. wire.asked = <<>> /\ \A i \in DOMAIN wire.lines : wire.lines[i].to = "event"
  BY <1>1, Unanswered
<1>3. CASE wire.up /\ ~wire.broken
  <2>1. awaiting' /\ polling' = polling
    BY <1>3 DEF Question
  <2>2. wire' = [wire EXCEPT !.asked = <<Polled[polling]>>]
    BY <1>2, <1>3 DEF Question, StatusInv, StatusTypes
  <2>3. /\ wire' \in Wire
        /\ wire'.asked = <<Polled[polling]>> /\ wire'.lines = wire.lines
    <3>1. <<Polled[polling]>> \in Seq(StatusAsked)
      BY <1>1, PolledAre
    <3> QED BY <2>2, <3>1, WireWith, NoneIs DEF StatusInv, StatusTypes
  <2>4. StatusTypes' /\ OneOnItsWay'
    BY <1>1, <1>2, <2>1, <2>3 DEF StatusInv, StatusTypes, OneOnItsWay, Question
  <2> QED BY <1>1, <2>4 DEF StatusInv, OwnAnswers
<1>4. CASE wire.up /\ wire.broken
  <2>1. awaiting' /\ polling' = polling /\ wire' = wire
    BY <1>4 DEF Question, StatusInv, StatusTypes, Wire
  <2> QED BY <1>1, <1>2, <2>1, NothingOnItsWay DEF StatusInv, StatusTypes
<1>5. CASE ~wire.up
  <2>1. NextQuestion /\ wire' = wire /\ awaiting' \in BOOLEAN
    BY <1>5 DEF Question, NextQuestion
  <2> QED BY <1>1, <1>2, <2>1, NextQuestionIs, NothingOnItsWay DEF StatusInv, StatusTypes
<1> QED BY <1>3, <1>4, <1>5 DEF StatusInv, StatusTypes

LEMMA NoAnswerKeeps ==
  ASSUME StatusInv, NoAnswer
  PROVE  StatusInv'
<1>1. wire' = NoWire /\ section' = section /\ polling' \in 0..4 /\ ~awaiting'
  BY NextQuestionIs DEF NoAnswer, Dropped, StatusInv
<1>2. awaiting' \in BOOLEAN
  BY DEF NoAnswer, NextQuestion
<1> QED BY <1>1, <1>2, NoWireIs, NothingOnItsWay

LEMMA ReadLineKeeps ==
  ASSUME StatusInv, ReadLine
  PROVE  StatusInv'
<1> DEFINE m == Head(wire.lines)
<1>1. /\ m \in Line /\ 1 \in DOMAIN wire.lines /\ wire.lines[1] = m /\ awaiting
      /\ Tail(wire.lines) \in Seq(Line)
      /\ \A i \in DOMAIN Tail(wire.lines) :
           i + 1 \in DOMAIN wire.lines /\ Tail(wire.lines)[i] = wire.lines[i + 1] /\ i + 1 # 1
  BY DEF ReadLine, StatusInv, StatusTypes, Wire
<1>2. /\ wire' \in Wire
      /\ wire'.asked = wire.asked /\ wire'.lines = Tail(wire.lines)
  BY <1>1, WireWith, NoneIs DEF ReadLine, StatusInv, StatusTypes
<1>3. CASE m.to = "event"
  <2>1. UNCHANGED <<polling, awaiting, section>>
    BY <1>3 DEF ReadLine
  <2>2. OneOnItsWay'
    BY <1>1, <1>2, <2>1 DEF StatusInv, OneOnItsWay
  <2> QED BY <1>2, <2>1, <2>2 DEF StatusInv, StatusTypes, OwnAnswers
<1>4. CASE m.to # "event"
  <2>1. /\ m.to = Polled[polling] /\ wire.asked = <<>>
        /\ \A j \in DOMAIN wire.lines : wire.lines[j].to # "event" => 1 = j
    BY <1>1, <1>4 DEF StatusInv, OneOnItsWay
  <2>2. \A i \in DOMAIN wire'.lines : wire'.lines[i].to = "event"
    BY <1>1, <1>2, <2>1
  <2>3. polling' \in 0..4 /\ ~awaiting' /\ awaiting' \in BOOLEAN
    BY <1>4, NextQuestionIs DEF ReadLine, StatusInv, NextQuestion
  <2>4. section' = section \/ section' = [section EXCEPT ![Polled[polling]] = m]
    BY <1>4 DEF ReadLine
  <2>5. Polled[polling] \in StatusAsked
    BY <1>1, PolledAre DEF StatusInv, StatusTypes
  <2>6. section' \in [StatusAsked -> Line \union {NoData}] /\ OwnAnswers'
    BY <1>1, <2>1, <2>4, <2>5 DEF StatusInv, StatusTypes, OwnAnswers
  <2>7. StatusTypes' /\ OneOnItsWay'
    BY <1>2, <2>1, <2>2, <2>3, <2>6 DEF StatusTypes, OneOnItsWay
  <2> QED BY <2>6, <2>7 DEF StatusInv
<1> QED BY <1>3, <1>4

(* A line more at the end.                                                 *)
LEMMA LineMore ==
  ASSUME StatusInv, NEW m \in Line
  PROVE  LET after == Append(wire.lines, m) IN
         /\ after \in Seq(Line)
         /\ DOMAIN after = DOMAIN wire.lines \union {Len(wire.lines) + 1}
         /\ Len(wire.lines) + 1 \notin DOMAIN wire.lines
         /\ after[Len(wire.lines) + 1] = m
         /\ \A i \in DOMAIN wire.lines : after[i] = wire.lines[i]
BY DEF StatusInv, StatusTypes, Wire

LEMMA GmAnswersKeeps ==
  ASSUME StatusInv, NEW m \in Line, GmAnswers(m)
  PROVE  StatusInv'
<1>1. /\ awaiting /\ wire.asked = <<Polled[polling]>> /\ m.to = Polled[polling]
      /\ \A i \in DOMAIN wire.lines : wire.lines[i].to = "event"
  BY DEF GmAnswers, StatusInv, OneOnItsWay
<1>2. Tail(wire.asked) = <<>>
  BY <1>1
<1>3. /\ wire' \in Wire
      /\ wire'.asked = <<>> /\ wire'.lines = Append(wire.lines, m)
  <2> DEFINE l == Append(wire.lines, m)
  <2>1. wire' = [wire EXCEPT !.asked = <<>>, !.lines = l]
    BY <1>2 DEF GmAnswers, StatusInv, StatusTypes, Wire
  <2>2. wire \in Wire /\ l \in Seq(Line)
    BY LineMore DEF StatusInv, StatusTypes
  <2> HIDE DEF l
  <2>3. wire'.asked = <<>> /\ wire'.lines = l /\ wire' \in Wire
    BY <2>1, <2>2, NoneIs DEF Wire
  <2> QED BY <2>3 DEF l
<1>4. UNCHANGED <<polling, awaiting, section>>
  BY DEF GmAnswers
<1>5. OneOnItsWay'
  BY <1>1, <1>3, <1>4, LineMore DEF OneOnItsWay
<1> QED BY <1>3, <1>4, <1>5 DEF StatusInv, StatusTypes, OwnAnswers

LEMMA GmPushesKeeps ==
  ASSUME StatusInv, NEW m \in Line, GmPushes(m)
  PROVE  StatusInv'
<1>1. m.to = "event" /\ UNCHANGED <<polling, awaiting, section>>
  BY DEF GmPushes
<1>2. /\ wire' \in Wire
      /\ wire'.asked = wire.asked /\ wire'.lines = Append(wire.lines, m)
  <2> DEFINE l == Append(wire.lines, m)
  <2>1. wire' = [wire EXCEPT !.lines = l]
    BY DEF GmPushes
  <2>2. wire \in Wire /\ l \in Seq(Line)
    BY LineMore DEF StatusInv, StatusTypes
  <2> HIDE DEF l
  <2>3. wire'.asked = wire.asked /\ wire'.lines = l /\ wire' \in Wire
    BY <2>1, <2>2 DEF Wire
  <2> QED BY <2>3 DEF l
<1>3. OneOnItsWay'
  BY <1>1, <1>2, LineMore DEF StatusInv, OneOnItsWay
<1> QED BY <1>1, <1>2, <1>3 DEF StatusInv, StatusTypes, OwnAnswers

LEMMA GmGoneKeeps ==
  ASSUME StatusInv, GmGone
  PROVE  StatusInv'
<1>1. /\ wire' \in Wire
      /\ wire'.asked = <<>> /\ wire'.lines = wire.lines /\ UNCHANGED <<polling, awaiting, section>>
  BY WireWith, NoneIs DEF GmGone, StatusInv, StatusTypes
<1>2. OneOnItsWay'
  BY <1>1 DEF StatusInv, OneOnItsWay
<1> QED BY <1>1, <1>2 DEF StatusInv, StatusTypes, OwnAnswers

LEMMA NotifyKeeps ==
  ASSUME StatusInv, NEW m \in ShownMode, NotifyModeChange(m)
  PROVE  StatusInv'
<1> DEFINE links == IF section["get_links"] = NoData THEN NoData ELSE [section["get_links"] EXCEPT !.mode = m]
           state == IF section["get_state"] = NoData THEN [to |-> "get_state", ok |-> TRUE] ELSE section["get_state"]
<1>1. "get_links" \in StatusAsked /\ "get_state" \in StatusAsked /\ "get_links" # "get_state"
  BY PolledAre
<1>2. links \in Line \union {NoData} /\ (links # NoData => links.to = "get_links")
  <2>1. CASE section["get_links"] = NoData
    BY <2>1
  <2>2. CASE section["get_links"] # NoData
    <3>1. section["get_links"] \in [to : {"get_links"}, ok : BOOLEAN, mode : ShownMode, missing : BOOLEAN]
      BY <1>1, <2>2, LinesAre DEF StatusInv, StatusTypes, OwnAnswers
    <3>2. links \in [to : {"get_links"}, ok : BOOLEAN, mode : ShownMode, missing : BOOLEAN]
      BY <2>2, <3>1
    <3> HIDE DEF links
    <3> QED BY <3>2 DEF Line
  <2> QED BY <2>1, <2>2
<1>3. state \in Line \union {NoData} /\ (state # NoData => state.to = "get_state")
  BY <1>1, PolledAre DEF StatusInv, StatusTypes, OwnAnswers, Line
<1>4. section' = [section EXCEPT !["get_links"] = links, !["get_state"] = state]
      /\ UNCHANGED <<wire, polling, awaiting>>
  BY DEF NotifyModeChange
<1> HIDE DEF links, state
<1>5. section' \in [StatusAsked -> Line \union {NoData}] /\ OwnAnswers'
  BY <1>1, <1>2, <1>3, <1>4 DEF StatusInv, StatusTypes, OwnAnswers
<1> QED BY <1>4, <1>5 DEF StatusInv, StatusTypes, OneOnItsWay

(* A section of the status never shows the answer to another question.     *)
THEOREM OwnAnswersHolds == StatusSpec => []OwnAnswers
<1>1. StatusInit => StatusInv
  BY StatusStarts
<1>2. StatusInv /\ [StatusNext]_statusVars => StatusInv'
  <2> SUFFICES ASSUME StatusInv, [StatusNext]_statusVars
               PROVE  StatusInv'
    OBVIOUS
  <2>1. CASE LookAtStatus \/ StatusTick \/ UNCHANGED statusVars
    BY <2>1 DEF LookAtStatus, StatusTick, statusVars, StatusInv, StatusTypes, OneOnItsWay, OwnAnswers
  <2> QED BY <2>1, PollKeeps, QuestionKeeps, NoAnswerKeeps, ReadLineKeeps, GmAnswersKeeps, GmPushesKeeps,
             GmGoneKeeps, NotifyKeeps DEF StatusNext
<1>3. StatusInv => OwnAnswers
  BY DEF StatusInv
<1> QED BY <1>1, <1>2, <1>3, PTL DEF StatusSpec

-----------------------------------------------------------------------------
(* The transfer function that is watched.                                  *)

Coordinator ==
  [running : BOOLEAN, loop : BOOLEAN, latest : BOOLEAN,
   reader : [Stream -> {"connecting", "connected", "waiting", "off"}],
   queued : [Stream -> Nat]]

Counted == {v \in Viewer : viewer[v].at \in {"in", "leaving"}}

TransferTypes ==
  /\ coordinators \in Seq(Coordinator)
  /\ coordinator \in DOMAIN coordinators \union {Nobody}
  /\ viewer \in [Viewer -> [at : {"out", "asking", "in", "leaving", "stopping"},
                            of : Nat \union {Nobody}]]
  /\ viewers \in Nat
  /\ lock \in Viewer \union {Nobody}

(* Whoever stops holds the lock, and nobody watches meanwhile.             *)
StopsAlone ==
  /\ \A v \in Viewer : viewer[v].at = "stopping" <=> lock = v
  /\ lock # Nobody => /\ Counted = {} /\ coordinator # Nobody
                      /\ viewer[lock].of = coordinator
                      /\ ~coordinators[coordinator].running

ViewersAreCounted == IsFiniteSet(Counted) /\ viewers = Cardinality(Counted)

(* There is a coordinator for whom somebody watches or that is stopped.    *)
OneCoordinator ==
  /\ coordinator # Nobody /\ lock = Nobody => Counted # {}
  /\ Counted # {} => /\ coordinator # Nobody
                     /\ coordinators[coordinator].running /\ coordinators[coordinator].loop
                     /\ \A s \in Stream : coordinators[coordinator].reader[s] # "off"
  /\ \A v \in Counted : viewer[v].of = coordinator
  /\ \A i \in DOMAIN coordinators : i # coordinator => Stops(i)

TransferInv == TransferTypes /\ StopsAlone /\ ViewersAreCounted /\ OneCoordinator

LEMMA TransferStarts == TransferInit => TransferInv
<1> SUFFICES ASSUME TransferInit PROVE TransferInv
  OBVIOUS
<1>1. Counted = {}
  BY DEF TransferInit, Counted, Outside
<1>2. TransferTypes
  BY DEF TransferInit, TransferTypes, Outside
<1>3. StopsAlone /\ OneCoordinator
  BY <1>1, TransferAssumption DEF TransferInit, StopsAlone, OneCoordinator, Outside
<1>4. ViewersAreCounted
  BY <1>1, FS_EmptySet DEF TransferInit, ViewersAreCounted
<1> QED BY <1>2, <1>3, <1>4 DEF TransferInv

(* Steps that concern neither the count nor the coordinators.              *)
LEMMA SameCount ==
  ASSUME TransferInv, UNCHANGED <<coordinators, coordinator, viewers, lock>>,
         viewer' \in [Viewer -> [at : {"out", "asking", "in", "leaving", "stopping"},
                                 of : Nat \union {Nobody}]],
         NEW v \in Viewer, \A w \in Viewer \ {v} : viewer'[w] = viewer[w],
         viewer'[v].of = viewer[v].of,
         \/ viewer[v].at = "out" /\ viewer'[v].at = "asking"
         \/ viewer[v].at = "in" /\ viewer'[v].at = "leaving"
  PROVE  TransferInv'
<1>1. Counted' = Counted
  BY DEF Counted
<1>2. TransferTypes'
  BY DEF TransferInv, TransferTypes
<1>3. StopsAlone'
  BY <1>1, TransferAssumption DEF TransferInv, StopsAlone, TransferTypes
<1>4. \A w \in Counted : viewer'[w].of = viewer[w].of
  BY DEF Counted
<1>5. ViewersAreCounted' /\ OneCoordinator'
  BY <1>1, <1>4 DEF TransferInv, ViewersAreCounted, OneCoordinator, Stops
<1> QED BY <1>2, <1>3, <1>5 DEF TransferInv

LEMMA JoinKeeps ==
  ASSUME TransferInv, NEW v \in Viewer, Acquire(v)
  PROVE  TransferInv'
<1>1. lock = Nobody /\ lock' = Nobody /\ viewer[v].at = "asking" /\ viewers' = viewers + 1
  BY DEF Acquire, Joins
<1>2. viewer' = [viewer EXCEPT ![v] = [at |-> "in", of |-> coordinator']]
  BY DEF Acquire, Joins
<1>3. /\ coordinators' \in Seq(Coordinator) /\ coordinator' \in DOMAIN coordinators'
      /\ coordinators'[coordinator'].running /\ coordinators'[coordinator'].loop
      /\ \A s \in Stream : coordinators'[coordinator'].reader[s] # "off"
      /\ \A i \in DOMAIN coordinators' : i # coordinator' => Stops(i)'
      /\ \A w \in Counted : viewer[w].of = coordinator'
  <2>1. CASE coordinator = Nobody
    <3>1. Counted = {}
      BY <2>1 DEF TransferInv, OneCoordinator
    <3>2. coordinators' = Append(coordinators, Started) /\ coordinator' = Len(coordinators')
      BY <2>1 DEF Acquire, Joins
    <3>3. Started \in Coordinator /\ Started.running /\ Started.loop
          /\ \A s \in Stream : Started.reader[s] # "off"
      BY DEF Started, ReaderStarted, Coordinator
    <3>4. /\ coordinators' \in Seq(Coordinator) /\ Len(coordinators') = Len(coordinators) + 1
          /\ \A i \in DOMAIN coordinators : coordinators'[i] = coordinators[i]
          /\ coordinators'[Len(coordinators')] = Started
          /\ DOMAIN coordinators' = DOMAIN coordinators \union {Len(coordinators')}
          /\ Len(coordinators') \in DOMAIN coordinators'
      BY <3>2, <3>3 DEF TransferInv, TransferTypes
    <3>5. \A i \in DOMAIN coordinators : Stops(i)
      BY <2>1, TransferAssumption DEF TransferInv, OneCoordinator, TransferTypes
    <3> QED BY <3>1, <3>2, <3>3, <3>4, <3>5 DEF Stops
  <2>2. CASE coordinator # Nobody
    <3>1. Counted # {}
      BY <1>1, <2>2 DEF TransferInv, OneCoordinator
    <3>2. UNCHANGED <<coordinators, coordinator>>
      BY <2>2, <3>1 DEF Acquire, Joins, TransferInv, OneCoordinator
    <3> QED BY <2>2, <3>1, <3>2 DEF TransferInv, OneCoordinator, TransferTypes, Stops
  <2> QED BY <2>1, <2>2
<1>4. /\ viewer' \in [Viewer -> [at : {"out", "asking", "in", "leaving", "stopping"},
                                 of : Nat \union {Nobody}]]
      /\ viewer'[v].at = "in" /\ viewer'[v].of = coordinator'
      /\ \A w \in Viewer \ {v} : viewer'[w] = viewer[w]
  BY <1>2, <1>3 DEF TransferInv, TransferTypes
<1>5. TransferTypes'
  BY <1>1, <1>3, <1>4 DEF TransferInv, TransferTypes
<1>6. Counted' = Counted \union {v} /\ v \notin Counted
  BY <1>1, <1>4 DEF Counted
<1>7. ViewersAreCounted'
  BY <1>1, <1>6, FS_AddElement DEF TransferInv, ViewersAreCounted
<1>8. StopsAlone'
  BY <1>1, <1>4, TransferAssumption DEF TransferInv, StopsAlone
<1>9. OneCoordinator'
  BY <1>3, <1>4, <1>6, TransferAssumption DEF OneCoordinator, TransferTypes, Counted
<1> QED BY <1>5, <1>7, <1>8, <1>9 DEF TransferInv

LEMMA ReleaseKeeps ==
  ASSUME TransferInv, NEW v \in Viewer, Release(v)
  PROVE  TransferInv'
<1>1. v \in Counted /\ lock = Nobody /\ coordinator' = coordinator
  BY DEF Release, Counted
<1>2. /\ coordinator \in DOMAIN coordinators /\ viewers \in Nat \ {0} /\ viewers' = viewers - 1
      /\ IsFiniteSet(Counted) /\ viewers = Cardinality(Counted)
  <2>1. viewers # 0
    BY <1>1, FS_EmptySet DEF TransferInv, ViewersAreCounted
  <2> QED BY <1>1, <2>1 DEF Release, TransferInv, TransferTypes, ViewersAreCounted, OneCoordinator
<1>3. IsFiniteSet(Counted \ {v}) /\ Cardinality(Counted \ {v}) = viewers - 1
  BY <1>1, <1>2, FS_RemoveElement
<1>4. CASE viewers = 1
  <2>1. /\ coordinators' = [coordinators EXCEPT ![coordinator].running = FALSE]
        /\ viewer' = [viewer EXCEPT ![v] = [at |-> "stopping", of |-> coordinator]]
        /\ lock' = v
    BY <1>2, <1>4, TransferAssumption DEF Release, TransferInv, TransferTypes
  <2>2. /\ coordinators' \in Seq(Coordinator) /\ DOMAIN coordinators' = DOMAIN coordinators
        /\ ~coordinators'[coordinator].running
        /\ \A i \in DOMAIN coordinators : i # coordinator => coordinators'[i] = coordinators[i]
    <3>1. coordinators[coordinator] \in Coordinator
      BY <1>2 DEF TransferInv, TransferTypes
    <3> DEFINE e == [coordinators[coordinator] EXCEPT !.running = FALSE]
    <3>2. e \in Coordinator /\ ~e.running
      BY <3>1 DEF Coordinator
    <3>3. coordinators' = [coordinators EXCEPT ![coordinator] = e]
      BY <2>1
    <3> HIDE DEF e
    <3> QED BY <1>2, <3>2, <3>3, ExceptSeq DEF TransferInv, TransferTypes
  <2>3. /\ viewer' \in [Viewer -> [at : {"out", "asking", "in", "leaving", "stopping"},
                                   of : Nat \union {Nobody}]]
        /\ viewer'[v].at = "stopping" /\ viewer'[v].of = coordinator
        /\ \A w \in Viewer \ {v} : viewer'[w] = viewer[w]
    BY <1>2, <2>1 DEF TransferInv, TransferTypes
  <2>4. Counted' = {}
    <3>1. Counted' = Counted \ {v}
      BY <2>3 DEF Counted
    <3> QED BY <1>3, <1>4, <3>1, FS_EmptySet
  <2>5. TransferTypes'
    BY <1>1, <1>2, <2>1, <2>2, <2>3 DEF TransferInv, TransferTypes
  <2>6. StopsAlone'
    BY <1>1, <1>2, <2>1, <2>2, <2>3, <2>4, TransferAssumption DEF TransferInv, StopsAlone
  <2>7. ViewersAreCounted'
    BY <1>2, <1>4, <2>4, FS_EmptySet DEF ViewersAreCounted
  <2>8. OneCoordinator'
    BY <1>1, <2>1, <2>2, <2>4, TransferAssumption DEF TransferInv, OneCoordinator, Stops
  <2> QED BY <2>5, <2>6, <2>7, <2>8 DEF TransferInv
<1>5. CASE viewers # 1
  <2>1. viewer' = [viewer EXCEPT ![v] = Outside] /\ UNCHANGED <<coordinators, lock>>
    BY <1>2, <1>5 DEF Release
  <2>2. /\ viewer' \in [Viewer -> [at : {"out", "asking", "in", "leaving", "stopping"},
                                   of : Nat \union {Nobody}]]
        /\ viewer'[v].at = "out" /\ \A w \in Viewer \ {v} : viewer'[w] = viewer[w]
    BY <2>1 DEF TransferInv, TransferTypes, Outside
  <2>3. Counted' = Counted \ {v}
    BY <2>2 DEF Counted
  <2>4. Counted' # {}
    BY <1>2, <1>3, <1>5, <2>3, FS_EmptySet
  <2>5. TransferTypes'
    BY <1>1, <1>2, <2>1, <2>2 DEF TransferInv, TransferTypes
  <2>6. StopsAlone'
    BY <1>1, <2>1, <2>2, TransferAssumption DEF TransferInv, StopsAlone
  <2>7. ViewersAreCounted'
    BY <1>2, <1>3, <2>3 DEF ViewersAreCounted
  <2>8. \A w \in Counted' : w \in Counted /\ viewer'[w] = viewer[w]
    BY <2>2, <2>3 DEF Counted
  <2>9. OneCoordinator'
    BY <1>1, <2>1, <2>4, <2>8 DEF TransferInv, OneCoordinator, Stops
  <2> QED BY <2>5, <2>6, <2>7, <2>9 DEF TransferInv
<1> QED BY <1>4, <1>5

(* A task of coordinator i has made a step. *)
LEMMA TaskKeeps ==
  ASSUME TransferInv, NEW i \in DOMAIN coordinators, NEW one \in Coordinator,
         coordinators' = [coordinators EXCEPT ![i] = one],
         UNCHANGED <<coordinator, viewer, viewers, lock>>,
         one.running = coordinators[i].running,
         lock = Nobody => /\ one.loop = coordinators[i].loop
                          /\ \A s \in Stream : one.reader[s] = "off" <=> coordinators[i].reader[s] = "off",
         i # coordinator => /\ one.loop = coordinators[i].loop
                            /\ \A s \in Stream : one.reader[s] = "off" <=> coordinators[i].reader[s] = "off"
  PROVE  TransferInv'
<1>1. /\ coordinators' \in Seq(Coordinator) /\ DOMAIN coordinators' = DOMAIN coordinators
      /\ coordinators'[i] = one
      /\ \A j \in DOMAIN coordinators : j # i => coordinators'[j] = coordinators[j]
  BY ExceptSeq DEF TransferInv, TransferTypes
<1>2. Counted' = Counted
  BY DEF Counted
<1>3. TransferTypes'
  BY <1>1 DEF TransferInv, TransferTypes
<1>4. StopsAlone'
  BY <1>1, <1>2, TransferAssumption DEF TransferInv, StopsAlone, TransferTypes
<1>5. ViewersAreCounted'
  BY <1>2 DEF TransferInv, ViewersAreCounted
<1>6. \A j \in DOMAIN coordinators : j # coordinator => Stops(j)'
  BY <1>1 DEF TransferInv, OneCoordinator, Stops
<1>7. Counted # {} => lock = Nobody
  BY DEF TransferInv, StopsAlone
<1>8. OneCoordinator'
  BY <1>1, <1>2, <1>6, <1>7 DEF TransferInv, OneCoordinator, TransferTypes
<1> QED BY <1>3, <1>4, <1>5, <1>8 DEF TransferInv

LEMMA StoppingKeeps ==
  ASSUME TransferInv, NEW v \in Viewer, Stopping(v)
  PROVE  TransferInv'
<1> DEFINE i == viewer[v].of
           one == coordinators[i]
           then == IF one.loop THEN [one EXCEPT !.loop = FALSE]
                   ELSE IF one.reader["ref"] # "off" THEN [one EXCEPT !.reader["ref"] = "off"]
                   ELSE [one EXCEPT !.reader["meas"] = "off"]
<1>1. i = coordinator /\ i \in DOMAIN coordinators /\ lock = v /\ lock # Nobody
  BY TransferAssumption DEF Stopping, TransferInv, TransferTypes, StopsAlone
<1>2. one \in Coordinator
  BY <1>1 DEF TransferInv, TransferTypes
<1>3. then \in Coordinator /\ then.running = one.running
  BY <1>2 DEF Coordinator, Stream
<1>4. coordinators' = [coordinators EXCEPT ![i] = then] /\ UNCHANGED <<coordinator, viewer, viewers, lock>>
  BY DEF Stopping
<1> HIDE DEF then
<1> QED BY <1>1, <1>3, <1>4, TaskKeeps

LEMMA StopEndKeeps ==
  ASSUME TransferInv, NEW v \in Viewer, StopEnds(v)
  PROVE  TransferInv'
<1>1. /\ lock = v /\ v # Nobody /\ lock' = Nobody /\ coordinator' = Nobody
      /\ Counted = {} /\ Stops(coordinator) /\ UNCHANGED <<coordinators, viewers>>
  BY TransferAssumption DEF StopEnds, TransferInv, StopsAlone
<1>2. /\ viewer' \in [Viewer -> [at : {"out", "asking", "in", "leaving", "stopping"},
                                 of : Nat \union {Nobody}]]
      /\ viewer'[v].at = "out" /\ \A w \in Viewer \ {v} : viewer'[w] = viewer[w]
  BY DEF StopEnds, TransferInv, TransferTypes, Outside
<1>3. Counted' = {}
  BY <1>1, <1>2 DEF Counted
<1>4. TransferTypes'
  BY <1>1, <1>2 DEF TransferInv, TransferTypes
<1>5. StopsAlone'
  BY <1>1, <1>2, TransferAssumption DEF TransferInv, StopsAlone
<1>6. ViewersAreCounted' /\ OneCoordinator'
  BY <1>1, <1>3 DEF TransferInv, ViewersAreCounted, OneCoordinator, Stops
<1> QED BY <1>4, <1>5, <1>6 DEF TransferInv

LEMMA TasksKeep ==
  ASSUME TransferInv, NEW i \in DOMAIN coordinators,
         Compute(i) \/ \E s \in Stream : ReaderTurns(i, s) \/ ReaderTakes(i, s)
  PROVE  TransferInv'
<1>1. coordinators[i] \in Coordinator
  BY DEF TransferInv, TransferTypes
<1>2. CASE Compute(i)
  <2> DEFINE one == [coordinators[i] EXCEPT !.queued = [s \in Stream |-> 0], !.latest = TRUE]
  <2>1. /\ one \in Coordinator /\ one.running = coordinators[i].running
        /\ one.loop = coordinators[i].loop /\ one.reader = coordinators[i].reader
    BY <1>1 DEF Coordinator
  <2>2. coordinators' = [coordinators EXCEPT ![i] = one] /\ UNCHANGED <<coordinator, viewer, viewers, lock>>
    BY <1>2 DEF Compute
  <2> HIDE DEF one
  <2> QED BY <2>1, <2>2, TaskKeeps
<1>3. ASSUME NEW s \in Stream, ReaderTurns(i, s)
      PROVE  TransferInv'
  <2>1. PICK turn \in {<<"connecting", "connected">>, <<"connecting", "waiting">>,
                       <<"connected", "waiting">>, <<"waiting", "connecting">>} :
          /\ coordinators[i].reader[s] = turn[1]
          /\ coordinators' = [coordinators EXCEPT ![i].reader[s] = turn[2]]
    BY <1>3 DEF ReaderTurns
  <2> DEFINE one == [coordinators[i] EXCEPT !.reader[s] = turn[2]]
  <2>2. turn[1] # "off" /\ turn[2] # "off" /\ turn[2] \in {"connecting", "connected", "waiting"}
    OBVIOUS
  <2>3. /\ one \in Coordinator /\ one.running = coordinators[i].running
        /\ one.loop = coordinators[i].loop
        /\ \A r \in Stream : one.reader[r] = "off" <=> coordinators[i].reader[r] = "off"
    BY <1>1, <2>1, <2>2 DEF Coordinator
  <2>4. coordinators' = [coordinators EXCEPT ![i] = one] /\ UNCHANGED <<coordinator, viewer, viewers, lock>>
    BY <1>3, <2>1 DEF ReaderTurns
  <2> HIDE DEF one
  <2> QED BY <2>3, <2>4, TaskKeeps
<1>4. ASSUME NEW s \in Stream, ReaderTakes(i, s)
      PROVE  TransferInv'
  <2> DEFINE n == IF coordinators[i].queued[s] = QueueSize THEN coordinators[i].queued[s]
                  ELSE coordinators[i].queued[s] + 1
             one == [coordinators[i] EXCEPT !.queued[s] = n]
  <2>1. n \in Nat
    BY <1>1 DEF Coordinator
  <2>2. coordinators' = [coordinators EXCEPT ![i] = one] /\ UNCHANGED <<coordinator, viewer, viewers, lock>>
    BY <1>4 DEF ReaderTakes
  <2> HIDE DEF n
  <2>3. /\ one \in Coordinator /\ one.running = coordinators[i].running
        /\ one.loop = coordinators[i].loop /\ one.reader = coordinators[i].reader
    BY <1>1, <2>1 DEF Coordinator
  <2> HIDE DEF one
  <2> QED BY <2>2, <2>3, TaskKeeps
<1> QED BY <1>2, <1>3, <1>4

LEMMA TransferKeeps ==
  ASSUME TransferInv, [TransferNext]_tfnVars
  PROVE  TransferInv'
<1>1. ASSUME NEW v \in Viewer, ViewerComes(v) \/ ViewerEnds(v)
      PROVE  TransferInv'
  <2>1. /\ UNCHANGED <<coordinators, coordinator, viewers, lock>>
        /\ viewer' \in [Viewer -> [at : {"out", "asking", "in", "leaving", "stopping"},
                                   of : Nat \union {Nobody}]]
        /\ \A w \in Viewer \ {v} : viewer'[w] = viewer[w]
        /\ viewer'[v].of = viewer[v].of
        /\ \/ viewer[v].at = "out" /\ viewer'[v].at = "asking"
           \/ viewer[v].at = "in" /\ viewer'[v].at = "leaving"
    BY <1>1 DEF ViewerComes, ViewerEnds, TransferInv, TransferTypes
  <2> QED BY <2>1, SameCount
<1>2. CASE UNCHANGED tfnVars
  BY <1>2 DEF tfnVars, TransferInv, TransferTypes, StopsAlone, ViewersAreCounted, OneCoordinator,
              Counted, Stops
<1> QED BY <1>1, <1>2, JoinKeeps, ReleaseKeeps, StoppingKeeps, StopEndKeeps, TasksKeep DEF TransferNext

(* Whoever watches the transfer function has the coordinator that runs,    *)
(* and none runs that nobody watches.                                      *)
THEOREM ViewersServedHolds == TransferSpec => []ViewersServed
<1>1. TransferInit => TransferInv
  BY TransferStarts
<1>2. TransferInv /\ [TransferNext]_tfnVars => TransferInv'
  BY TransferKeeps
<1>3. TransferInv => ViewersServed
  <2> SUFFICES ASSUME TransferInv PROVE ViewersServed
    OBVIOUS
  <2>1. \A v \in Viewer : viewer[v].at = "in" => v \in Counted
    BY DEF Counted
  <2>2. ASSUME NEW i \in DOMAIN coordinators, Runs(i)
        PROVE  i = coordinator /\ \E v \in Viewer : viewer[v].at # "out"
    <3>1. i = coordinator
      BY <2>2 DEF Runs, Stops, TransferInv, OneCoordinator
    <3>2. i # Nobody
      BY TransferAssumption DEF TransferInv, TransferTypes
    <3>3. CASE lock # Nobody
      <4>1. lock \in Viewer /\ viewer[lock].at = "stopping"
        BY <3>3 DEF TransferInv, StopsAlone, TransferTypes
      <4>2. viewer[lock].at # "out"
        BY <4>1
      <4> QED BY <3>1, <4>1, <4>2
    <3>4. CASE lock = Nobody
      BY <3>1, <3>2, <3>4 DEF TransferInv, OneCoordinator, Counted
    <3> QED BY <3>1, <3>3, <3>4
  <2> QED BY <2>1, <2>2 DEF ViewersServed, TransferInv, OneCoordinator
<1> QED BY <1>1, <1>2, <1>3, PTL DEF TransferSpec

=============================================================================
