------------------------------ MODULE StoreProofs ------------------------------
(***************************************************************************)
(* The files behind the active venue implement the register LastVenue, for *)
(* any venues and any failure; and so they do behind the RPC server.       *)
(***************************************************************************)
EXTENDS RpcServer, TLAPS

(* last-venue is either not there, and then nor is the backup, or a name:  *)
(* seen by the process and after every power failure.                      *)
Whole(f) == f.last \in Venue \/ (f.last = Absent /\ f.bak = Absent)

StoreInv ==
  /\ StoreTypeOK
  /\ files \in survivors
  /\ \A f \in survivors : Whole(f)
  /\ store # "never" => running
  /\ store \in Busy => active \in Venue
  /\ store \in {"sync", "rename"} => tmp.seen = active
  /\ store = "rename" => tmp.kept = active
  /\ ~running => active = NoVenue
  /\ SavedIsTakenUp

USE DEF Busy

LEMMA LoadedWhole ==
  ASSUME NEW f \in Files, Whole(f)
  PROVE  /\ Loaded(f) \in Venue \union {NoVenue}
         /\ f.last \in Venue => Loaded(f) = f.last
         /\ f.last = Absent => Loaded(f) = NoVenue
  BY VenueStoreAssumption DEF Whole, Loaded, Files, Content

LEMMA StoreInit_Inv == StoreInit => StoreInv
<1> SUFFICES ASSUME StoreInit PROVE StoreInv
  OBVIOUS
<1>1. files \in Files /\ survivors = {files} /\ Whole(files)
  BY DEF StoreInit, Files, Content, Whole
<1>2. tmp \in [seen : Content, kept : Content]
  BY DEF StoreInit, Content
<1> QED BY <1>1, <1>2 DEF StoreInit, StoreInv, StoreTypeOK, SavedIsTakenUp

LEMMA Start_Inv == StoreInv /\ StoreStart => StoreInv'
<1> SUFFICES ASSUME StoreInv, StoreStart PROVE StoreInv'
  OBVIOUS
<1>1. files \in Files /\ Whole(files)
  BY DEF StoreInv, StoreTypeOK
<1>2. Loaded(files)' = Loaded(files) /\ Loaded(files) \in Venue \union {NoVenue}
  BY <1>1, LoadedWhole DEF StoreStart, Loaded
<1>3. StoreTypeOK'
  BY <1>2, VenueStoreAssumption DEF StoreInv, StoreTypeOK, StoreStart
<1> QED BY <1>2, <1>3, VenueStoreAssumption
        DEF StoreInv, StoreStart, SavedIsTakenUp, Whole

LEMMA Choose_Inv == ASSUME NEW v PROVE StoreInv /\ ChooseVenue(v) => StoreInv'
  BY VenueStoreAssumption
  DEF StoreInv, StoreTypeOK, ChooseVenue, SavedIsTakenUp, Whole

(* The copies keep last-venue, and so what a restart takes up. *)
LEMMA BackupKeeps ==
  ASSUME StoreInv, Backup
  PROVE  /\ survivors \subseteq survivors' /\ files' \in survivors'
         /\ survivors' \in SUBSET Files
         /\ \A f \in survivors' \ survivors : f.last = files.last /\ f.last \in Venue
         /\ files'.last = files.last
<1>1. files \in Files /\ Whole(files)
  BY DEF StoreInv, StoreTypeOK
<1>2. CASE UNCHANGED <<files, survivors>>
  BY <1>2 DEF StoreInv, StoreTypeOK
<1>3. ASSUME files.last # Absent, NEW copy \in {files.last, Empty, files.bak},
             Becomes([files EXCEPT !.bak = copy],
                     {[files EXCEPT !.bak = c] : c \in {copy, Empty}})
      PROVE  /\ survivors \subseteq survivors' /\ files' \in survivors'
             /\ survivors' \in SUBSET Files
             /\ \A f \in survivors' \ survivors : f.last = files.last /\ f.last \in Venue
             /\ files'.last = files.last
  <2>1. files.last \in Venue
    BY <1>1, <1>3 DEF Whole
  <2>2. copy \in Content /\ Empty \in Content
    BY <1>1, <1>3 DEF Files, Content
  <2>3. \A c \in Content : /\ [files EXCEPT !.bak = c] \in Files
                           /\ [files EXCEPT !.bak = c].last = files.last
    BY <1>1 DEF Files
  <2>4. /\ files' = [files EXCEPT !.bak = copy]
        /\ survivors' = survivors \union {[files EXCEPT !.bak = c] : c \in {copy, Empty}}
    BY <1>3 DEF Becomes
  <2> QED BY <2>1, <2>2, <2>3, <2>4 DEF StoreInv, StoreTypeOK
<1> QED BY <1>2, <1>3 DEF Backup

LEMMA Backup_Inv == StoreInv /\ Backup => StoreInv'
<1> SUFFICES ASSUME StoreInv, Backup PROVE StoreInv'
  OBVIOUS
<1>1. StoreTypeOK'
  BY BackupKeeps DEF StoreInv, StoreTypeOK, Backup
<1>2. \A f \in survivors' : Whole(f)
  BY BackupKeeps DEF StoreInv, Whole
<1> QED BY <1>1, <1>2, BackupKeeps DEF StoreInv, Backup, SavedIsTakenUp, Whole

LEMMA Write_Inv == StoreInv /\ Write => StoreInv'
  BY DEF StoreInv, StoreTypeOK, Write, SavedIsTakenUp, Whole, Content

LEMMA Sync_Inv == StoreInv /\ Sync => StoreInv'
<1> SUFFICES ASSUME StoreInv, Sync PROVE StoreInv'
  OBVIOUS
<1>1. StoreTypeOK' /\ (store' = "rename" => tmp'.seen = active /\ tmp'.kept = active)
  BY DEF StoreInv, StoreTypeOK, Sync
<1> QED BY <1>1 DEF StoreInv, Sync, SavedIsTakenUp, Whole

(* After a rename every directory that may survive has the new name, or is *)
(* one that might have survived before.                                    *)
LEMMA RenameSaves ==
  ASSUME StoreInv, Rename, store' = "saved"
  PROVE  /\ survivors \subseteq survivors' /\ files' \in survivors'
         /\ survivors' \in SUBSET Files
         /\ \A f \in survivors' \ survivors : f.last = active
         /\ files'.last = active /\ active \in Venue
<1>1. /\ active \in Venue /\ tmp.seen = active /\ tmp.kept = active
      /\ survivors \subseteq Files /\ files \in survivors
  BY DEF StoreInv, StoreTypeOK, Rename
<1>4. active \in Content
  BY <1>1 DEF Content
<1>2. /\ files' = [files EXCEPT !.last = active]
      /\ survivors' = survivors
           \union {[f EXCEPT !.last = active] : f \in survivors \union {files}}
  BY <1>1 DEF Rename, Becomes
<1>3. \A f \in Files : [f EXCEPT !.last = active] \in Files
                       /\ [f EXCEPT !.last = active].last = active
  BY <1>4 DEF Files
<1>5. files' \in survivors' /\ files'.last = active
  BY <1>1, <1>2, <1>3
<1>6. \A f \in survivors' \ survivors :
        \E g \in Files : f = [g EXCEPT !.last = active]
  BY <1>1, <1>2
<1>7. \A f \in survivors' \ survivors : f \in Files /\ f.last = active
  <2> TAKE f \in survivors' \ survivors
  <2>1. PICK g \in Files : f = [g EXCEPT !.last = active]
    BY <1>6
  <2> QED BY <2>1, <1>3
<1>8. survivors \subseteq survivors' /\ survivors' \in SUBSET Files
  BY <1>1, <1>2, <1>7
<1> QED BY <1>1, <1>5, <1>7, <1>8

LEMMA Rename_Inv == StoreInv /\ Rename => StoreInv'
<1> SUFFICES ASSUME StoreInv, Rename PROVE StoreInv'
  OBVIOUS
<1>1. CASE store' = "saved"
  <2>1. StoreTypeOK'
    BY <1>1, RenameSaves DEF StoreInv, StoreTypeOK, Rename, Content
  <2>2. \A f \in survivors' : Whole(f)
    BY <1>1, RenameSaves DEF StoreInv, Whole
  <2>3. Loaded(files') = active
    BY <1>1, RenameSaves DEF Loaded
  <2>4. SavedIsTakenUp'
    BY <2>3 DEF Rename, SavedIsTakenUp, Loaded
  <2>5. running' /\ files' \in survivors' /\ store' = "saved"
    BY <1>1, RenameSaves DEF StoreInv, Rename
  <2> QED BY <2>1, <2>2, <2>4, <2>5 DEF StoreInv
<1>2. CASE store' # "saved"
  <2>1. store' = "failed" /\ UNCHANGED <<files, survivors, tmp, running, active>>
    BY <1>2 DEF Rename
  <2>2. StoreTypeOK' /\ running
    BY <2>1 DEF StoreInv, StoreTypeOK, Rename
  <2> QED BY <2>1, <2>2 DEF StoreInv, SavedIsTakenUp, Whole
<1> QED BY <1>1, <1>2

LEMMA StoreNext_Inv == StoreInv /\ [StoreNext]_storeVars => StoreInv'
<1> SUFFICES ASSUME StoreInv, [StoreNext]_storeVars PROVE StoreInv'
  OBVIOUS
<1>1. CASE WriteBack
  BY <1>1 DEF StoreInv, StoreTypeOK, WriteBack, SavedIsTakenUp, Whole, Loaded
<1>2. CASE StoreStop
  BY <1>2 DEF StoreInv, StoreTypeOK, StoreStop, SavedIsTakenUp, Whole
<1>3. CASE PowerFailure
  <2>1. StoreTypeOK'
    BY <1>3 DEF StoreInv, StoreTypeOK, PowerFailure
  <2> QED BY <1>3, <2>1 DEF StoreInv, PowerFailure, SavedIsTakenUp, Whole
<1>4. CASE UNCHANGED storeVars
  BY <1>4 DEF StoreInv, StoreTypeOK, storeVars, SavedIsTakenUp, Whole, Loaded
<1> QED BY <1>1, <1>2, <1>3, <1>4, Start_Inv, Choose_Inv, Backup_Inv, Write_Inv,
           Sync_Inv, Rename_Inv DEF StoreNext, PersistStep

(* A directory in which last-venue is a name or neither file is there.     *)
LEMMA SurvivorLoaded ==
  ASSUME StoreInv
  PROVE  \A f \in survivors :
           /\ f \in Files /\ Whole(f)
           /\ Loaded(f) \in Venue \union {NoVenue}
           /\ f.last \in Venue => Loaded(f) = f.last
  BY LoadedWhole DEF StoreInv, StoreTypeOK

Recoverable == {Loaded(f) : f \in survivors}

LEMMA StoreStep_Register ==
  ASSUME StoreInv, [StoreNext]_storeVars
  PROVE  [Register!Next]_(Register!register)
<1>0. Loaded(files) \in Recoverable /\ files \in survivors
  BY DEF StoreInv, Recoverable
<1>1. CASE StoreStart
  <2>1. Loaded(files)' = Loaded(files) /\ Recoverable' = Recoverable
    BY <1>1 DEF StoreStart, Loaded, Recoverable
  <2> QED BY <1>1, <2>1 DEF StoreStart, Register!Start, Register!Next, Recoverable
<1>2. ASSUME NEW v \in Venue, ChooseVenue(v) PROVE Register!Choose
  <2>1. Loaded(files)' = Loaded(files) /\ Recoverable' = Recoverable
    BY <1>2 DEF ChooseVenue, Loaded, Recoverable
  <2> QED BY <1>2, <2>1, VenueStoreAssumption DEF ChooseVenue, Register!Choose, Recoverable
<1>3. CASE Backup
  <2>1. Loaded(files') = Loaded(files) /\ running' = running /\ active' = active
    <3>1. CASE files.last \in Venue
      BY <1>3, <3>1, BackupKeeps DEF Loaded, Backup
    <3>2. CASE files.last = Absent
      BY <1>3, <3>2 DEF Backup
    <3> QED BY <3>1, <3>2, <1>0, SurvivorLoaded DEF Whole
  <2>2. \A f \in survivors' \ survivors : Loaded(f) = Loaded(files)
    BY <1>3, BackupKeeps DEF Loaded
  <2>3. Recoverable' = Recoverable
    BY <1>0, <1>3, <2>2, BackupKeeps DEF Recoverable
  <2>4. Loaded(files)' = Loaded(files)
    BY <2>1
  <2> QED BY <2>1, <2>3, <2>4 DEF Register!register, Recoverable
<1>4. CASE Write \/ Sync \/ (Rename /\ store' # "saved")
  <2>1. UNCHANGED <<running, active, files, survivors>>
    BY <1>4 DEF Write, Sync, Rename
  <2>2. Loaded(files)' = Loaded(files) /\ Recoverable' = Recoverable
    BY <2>1 DEF Loaded, Recoverable
  <2> QED BY <2>1, <2>2 DEF Register!register, Recoverable
<1>5. CASE Rename /\ store' = "saved"
  <2>1. running /\ UNCHANGED <<running, active>> /\ active # NoVenue
    BY <1>5, RenameSaves, VenueStoreAssumption DEF StoreInv, Rename
  <2>2. \A f \in survivors' \ survivors : Loaded(f) = active
    BY <1>5, RenameSaves DEF Loaded
  <2>3. Loaded(files)' = active /\ Loaded(files') = active
    BY <1>5, RenameSaves DEF Loaded
  <2>4. Recoverable' = Recoverable \union {active}
    BY <1>5, <2>2, <2>3, RenameSaves DEF Recoverable
  <2>5. Register!Save
    BY <2>1, <2>3, <2>4 DEF Register!Save, Recoverable
  <2> QED BY <2>5 DEF Register!Next
<1>6. CASE WriteBack
  <2>1. Loaded(files)' = Loaded(files) /\ Recoverable' = {Loaded(files)}
    BY <1>6 DEF WriteBack, Loaded, Recoverable
  <2>2. Register!BringUpToDate
    BY <1>6, <2>1 DEF WriteBack, Register!BringUpToDate, Recoverable
  <2> QED BY <2>2 DEF Register!Next
<1>7. CASE StoreStop
  <2>1. Loaded(files)' = Loaded(files) /\ Recoverable' = Recoverable
    BY <1>7 DEF StoreStop, Loaded, Recoverable
  <2>2. Register!Stop
    BY <1>7, <2>1 DEF StoreStop, Register!Stop, Recoverable
  <2> QED BY <2>2 DEF Register!Next
<1>8. CASE PowerFailure
  <2>1. files' \in survivors /\ Loaded(files') \in Recoverable
    BY <1>8 DEF PowerFailure, Recoverable
  <2>2. Recoverable' = {Loaded(files)}' /\ Loaded(files)' = Loaded(files')
    BY <1>8 DEF PowerFailure, Recoverable, Loaded
  <2>3. Register!FailPower
    BY <1>8, <2>1, <2>2 DEF PowerFailure, Register!FailPower, Recoverable
  <2> QED BY <2>3 DEF Register!Next
<1>9. CASE UNCHANGED storeVars
  <2>1. Loaded(files)' = Loaded(files) /\ Recoverable' = Recoverable
    BY <1>9 DEF storeVars, Loaded, Recoverable
  <2> QED BY <1>9, <2>1 DEF storeVars, Register!register, Recoverable
<1> QED BY <1>1, <1>2, <1>3, <1>4, <1>5, <1>6, <1>7, <1>8, <1>9
        DEF StoreNext, PersistStep, Register!Next

LEMMA StoreInit_Register == StoreInit => Register!Init
<1> SUFFICES ASSUME StoreInit PROVE Register!Init
  OBVIOUS
<1>1. Loaded(files) = NoVenue /\ survivors = {files}
  BY VenueStoreAssumption DEF StoreInit, Loaded
<1> QED BY <1>1 DEF StoreInit, Register!Init

-----------------------------------------------------------------------------
(* Behind the RPC server: every step of it is a step of the store or none. *)

LEMMA RpcStep_Store ==
  ASSUME [RpcNext]_rpcVars
  PROVE  [StoreNext]_storeVars
<1>1. CASE ServerStep
  BY <1>1 DEF ServerStep, Accept, Serve, Announce, Broadcast, ReadLine, EndOfFile,
              Receive, WriteAnswer
<1>2. CASE Dispatch
  <2> DEFINE c == Head(commands)
             r == thread[c].request
  <2>1. SetVenue(c, r[2]) => [StoreNext]_storeVars
    BY VenueStoreAssumption DEF SetVenue, ChooseVenue, StoreNext
  <2>2. AwaitSettled(c) \/ Query(c) \/ SetMode(c, r[2]) \/ Operate(c, r[1])
          => UNCHANGED storeVars
    BY DEF AwaitSettled, Query, SetMode, Operate
  <2> QED BY <1>2, <2>1, <2>2 DEF Dispatch
<1>3. CASE Persist
  BY <1>3 DEF Persist, StoreNext
<1>4. ASSUME NEW c \in Client, AnswerWaiter(c) \/ Connect(c) \/ Ask(c) \/ ReadWire(c) \/ Disconnect(c)
      PROVE UNCHANGED storeVars
  BY <1>4 DEF AnswerWaiter, Connect, Ask, ReadWire, Disconnect
<1>5. CASE Start
  BY <1>5 DEF Start, StoreNext
<1>6. CASE Signal \/ Quit
  BY <1>6 DEF Signal, Quit
<1>7. CASE End
  BY <1>7 DEF End, StoreNext
<1>8. CASE FileSystem
  BY <1>8 DEF FileSystem, StoreNext
<1>9. CASE UNCHANGED rpcVars
  BY <1>9 DEF rpcVars
<1> QED BY <1>1, <1>2, <1>3, <1>4, <1>5, <1>6, <1>7, <1>8, <1>9 DEF RpcNext, MainLoopStep

(* Whatever steps of persist_venue_name fail, and wherever GraphManager is *)
(* stopped or the power fails, a restart takes up what was reported saved. *)
THEOREM SavedIsTakenUpHolds == RpcSpec => []SavedIsTakenUp
<1>1. RpcInit => StoreInv
  BY StoreInit_Inv DEF RpcInit
<1>2. StoreInv /\ [RpcNext]_rpcVars => StoreInv'
  BY RpcStep_Store, StoreNext_Inv
<1>3. StoreInv => SavedIsTakenUp
  BY DEF StoreInv
<1> QED BY <1>1, <1>2, <1>3, PTL DEF RpcSpec

(* Every behaviour of the server with its store is one of a register that  *)
(* outlives the process and, after a power failure, holds a venue that it  *)
(* held since the disk was last brought up to date.                        *)
THEOREM StoreActsAsRegister == RpcSpec => ActsAsRegister
<1>1. RpcInit => StoreInv /\ Register!Init
  BY StoreInit_Inv, StoreInit_Register DEF RpcInit
<1>2. StoreInv /\ [RpcNext]_rpcVars => StoreInv'
  BY RpcStep_Store, StoreNext_Inv
<1>3. StoreInv /\ [RpcNext]_rpcVars => [Register!Next]_(Register!register)
  BY RpcStep_Store, StoreStep_Register
<1> QED BY <1>1, <1>2, <1>3, PTL DEF RpcSpec, ActsAsRegister, Register!Spec

-----------------------------------------------------------------------------
(* One place each: where a command is between its thread and the main loop. *)

Pending(c) == thread[c].at = "waiting" /\ thread[c].answer = NoOne

Queued(c) == \E i \in DOMAIN commands : commands[i] = c

ThreadTypes ==
  /\ DOMAIN thread = Client
  /\ \A c \in Client :
       /\ thread[c] = [at |-> thread[c].at, request |-> thread[c].request,
                       answer |-> thread[c].answer, half |-> thread[c].half]
       /\ thread[c].at \in {"none", "reading", "waiting", "writing"}
       /\ thread[c].at = "waiting" => thread[c].request \in Request[c]

(* What a thread reads is what its client may send; a thread is there only *)
(* for a connection that was taken and listed.                             *)
Taken ==
  /\ DOMAIN sent = Client
  /\ \A c \in Client : sent[c] \in Seq(Request[c])
  /\ mode \in Mode
  /\ conn \in [Client -> {"none", "pending", "open", "closed", "refused"}]
  /\ \A c \in Client :
       conn[c] \in {"none", "pending", "refused"} \/ loop = "down" \/ accepted = c
         => thread[c].at = "none"
  /\ accepted \in Client \union {NoOne}
  /\ accepted # NoOne => loop # "down" /\ conn[accepted] \in {"open", "closed"}

Placed ==
  /\ commands \in Seq(Client)
  /\ waiters \subseteq Client
  /\ setting \in Client \union {NoOne}
  /\ \A i, j \in DOMAIN commands : commands[i] = commands[j] => i = j
  /\ \A c \in Client : Queued(c) => c # setting /\ c \notin waiters
  /\ setting \notin waiters
  /\ \A c \in Client : Pending(c) <=> Queued(c) \/ c = setting \/ c \in waiters

PlaceInv == ThreadTypes /\ Taken /\ Placed

LEMMA TailIs ==
  ASSUME NEW S, NEW s \in Seq(S), s # << >>
  PROVE  /\ Head(s) \in S /\ Head(s) = s[1] /\ 1 \in DOMAIN s
         /\ Tail(s) \in Seq(S)
         /\ \A i \in DOMAIN Tail(s) : i + 1 \in DOMAIN s /\ Tail(s)[i] = s[i + 1]
         /\ \A i \in DOMAIN s : i # 1 => i - 1 \in DOMAIN Tail(s) /\ Tail(s)[i - 1] = s[i]
  OBVIOUS

LEMMA AppendIs ==
  ASSUME NEW S, NEW s \in Seq(S), NEW e \in S
  PROVE  /\ Append(s, e) \in Seq(S)
         /\ DOMAIN s \subseteq DOMAIN Append(s, e)
         /\ \A i \in DOMAIN s : Append(s, e)[i] = s[i]
         /\ \A i \in DOMAIN Append(s, e) : i \in DOMAIN s \/ i = Len(s) + 1
         /\ Len(s) + 1 \in DOMAIN Append(s, e) /\ Append(s, e)[Len(s) + 1] = e
         /\ Len(s) + 1 \notin DOMAIN s
  OBVIOUS

LEMMA AnswersAre ==
  /\ \A a \in {"ack", "error"}, what \in Operations \union {"set_mode", "set_venue", "await_settled"} :
       <<a, what>> \in Answer
  /\ \A m \in Mode, v \in Venue \union {NoVenue} : <<"state", m, v>> \in Answer
  /\ NoOne \notin Answer /\ NoOne \notin Client /\ NoOne # Dropped
  BY RpcAssumption DEF Answer

LEMMA PlaceInit_Inv == RpcInit => PlaceInv
<1> SUFFICES ASSUME RpcInit PROVE PlaceInv
  OBVIOUS
<1>1. ThreadTypes /\ \A c \in Client : thread[c].at = "none"
  BY DEF RpcInit, ThreadTypes, Thread
<1>2. Taken
  BY <1>1, RpcAssumption DEF RpcInit, Taken
<1>3. Placed
  BY <1>1, RpcAssumption DEF RpcInit, Placed, Pending, Queued
<1> QED BY <1>1, <1>2, <1>3 DEF PlaceInv

LEMMA PlacedSame ==
  ASSUME PlaceInv, UNCHANGED <<commands, setting, waiters>>,
         \A c \in Client : Pending(c)' <=> Pending(c)
  PROVE  Placed'
  BY DEF PlaceInv, Placed, Queued

LEMMA AnsweredIs ==
  ASSUME PlaceInv, NEW d \in Client, NEW answer, answer # NoOne,
         thread' = Answered(d, answer)
  PROVE  /\ ThreadTypes'
         /\ ~Pending(d)'
         /\ \A c \in Client : thread'[c].at = thread[c].at
         /\ \A c \in Client \ {d} : Pending(c)' <=> Pending(c)
<1>1. thread' = [thread EXCEPT ![d] = [thread[d] EXCEPT !.answer = answer]]
  BY DEF Answered
<1>2. DOMAIN thread' = Client /\ \A c \in Client \ {d} : thread'[c] = thread[c]
  BY <1>1 DEF PlaceInv, ThreadTypes
<1>3. thread'[d] = [at |-> thread[d].at, request |-> thread[d].request,
                    answer |-> answer, half |-> thread[d].half]
  BY <1>1 DEF PlaceInv, ThreadTypes
<1>4. \A c \in Client : thread'[c].at = thread[c].at /\ thread'[c].request = thread[c].request
  BY <1>2, <1>3
<1>5. ThreadTypes'
  BY <1>2, <1>3, <1>4 DEF PlaceInv, ThreadTypes
<1> QED BY <1>2, <1>3, <1>4, <1>5 DEF Pending

LEMMA ClientStep_Place ==
  ASSUME PlaceInv, NEW c \in Client, Connect(c) \/ Ask(c) \/ ReadWire(c) \/ Disconnect(c)
  PROVE  PlaceInv'
<1>1. UNCHANGED <<thread, commands, setting, waiters, loop, mode, accepted>>
  BY DEF Connect, Ask, ReadWire, Disconnect, loopVars
<1>2. ThreadTypes' /\ Placed'
  BY <1>1 DEF PlaceInv, ThreadTypes, Placed, Queued, Pending
<1>3. CASE Connect(c)
  BY <1>1, <1>2, <1>3 DEF PlaceInv, Taken, Connect
<1>4. CASE Ask(c)
  <2>1. PICK r \in Request[c] : sent' = [sent EXCEPT ![c] = Append(sent[c], r)]
    BY <1>4 DEF Ask
  <2>2. \A d \in Client : sent'[d] \in Seq(Request[d])
    BY <2>1, AppendIs DEF PlaceInv, Taken
  <2> QED BY <1>1, <1>2, <1>4, <2>1, <2>2 DEF PlaceInv, Taken, Ask
<1>5. CASE ReadWire(c)
  BY <1>1, <1>2, <1>5 DEF PlaceInv, Taken, ReadWire, netVars
<1>6. CASE Disconnect(c)
  BY <1>1, <1>2, <1>6 DEF PlaceInv, Taken, Disconnect
<1> QED BY <1>2, <1>3, <1>4, <1>5, <1>6 DEF PlaceInv

LEMMA ServerStep_Place == PlaceInv /\ ServerStep => PlaceInv'
<1> SUFFICES ASSUME PlaceInv, ServerStep PROVE PlaceInv'
  OBVIOUS
(* One thread changes, before and after it waits without an answer.        *)
<1>a. ASSUME NEW c \in Client, NEW t, thread' = [thread EXCEPT ![c] = t],
             t = [at |-> t.at, request |-> t.request, answer |-> t.answer, half |-> t.half],
             t.at \in {"none", "reading", "writing"}, ~Pending(c),
             UNCHANGED <<commands, setting, waiters>>
      PROVE  ThreadTypes' /\ Placed' /\ thread'[c] = t
             /\ \A d \in Client \ {c} : thread'[d] = thread[d]
  <2>1. thread'[c] = t /\ DOMAIN thread' = Client
        /\ \A d \in Client \ {c} : thread'[d] = thread[d]
    BY <1>a DEF PlaceInv, ThreadTypes
  <2>2. ThreadTypes'
    BY <1>a, <2>1 DEF PlaceInv, ThreadTypes
  <2>3. \A d \in Client : Pending(d)' <=> Pending(d)
    BY <1>a, <2>1 DEF Pending
  <2> QED BY <1>a, <2>1, <2>2, <2>3, PlacedSame
<1>1. ASSUME NEW c \in Client, Accept(c) PROVE PlaceInv'
  <2>1. UNCHANGED <<thread, commands, setting, waiters, loop, mode, sent>>
        /\ accepted = NoOne /\ accepted' = c /\ conn[c] = "pending" /\ loop = "up"
        /\ conn' = [conn EXCEPT ![c] = "open"]
    BY <1>1 DEF Accept, loopVars
  <2>2. ThreadTypes' /\ Placed'
    BY <2>1 DEF PlaceInv, ThreadTypes, Placed, Queued, Pending
  <2>3. Taken'
    BY <2>1 DEF PlaceInv, Taken
  <2> QED BY <2>2, <2>3 DEF PlaceInv
<1>2. CASE Serve
  <2>1. accepted \in Client /\ thread[accepted].at = "none" /\ loop # "down"
        /\ conn[accepted] \in {"open", "closed"}
    BY <1>2 DEF Serve, PlaceInv, Taken
  <2>2. thread' = [thread EXCEPT ![accepted] = Thread("reading")]
        /\ UNCHANGED <<commands, setting, waiters, loop, mode, sent, conn>>
        /\ accepted' = NoOne
    BY <1>2 DEF Serve, loopVars, netVars
  <2>3. Thread("reading") = [at |-> Thread("reading").at, request |-> Thread("reading").request,
          answer |-> Thread("reading").answer, half |-> Thread("reading").half]
        /\ Thread("reading").at = "reading"
    BY DEF Thread
  <2>4. ~Pending(accepted)
    BY <2>1 DEF Pending
  <2>5. ThreadTypes' /\ Placed' /\ \A d \in Client \ {accepted} : thread'[d] = thread[d]
    BY <1>a, <2>1, <2>2, <2>3, <2>4
  <2>6. Taken'
    BY <2>1, <2>2, <2>5, RpcAssumption DEF PlaceInv, Taken
  <2> QED BY <2>5, <2>6 DEF PlaceInv
<1>3. CASE Announce \/ Broadcast
  <2>1. UNCHANGED <<thread, commands, setting, waiters, loop, mode, sent, conn, accepted>>
    BY <1>3 DEF Announce, Broadcast, loopVars, netVars
  <2> QED BY <2>1 DEF PlaceInv, ThreadTypes, Taken, Placed, Queued, Pending
<1>4. ASSUME NEW c \in Client, ReadLine(c) PROVE PlaceInv'
  <2> DEFINE r == Head(sent[c])
  <2>1. /\ thread[c].at = "reading" /\ sent[c] # << >>
        /\ sent' = [sent EXCEPT ![c] = Tail(@)]
        /\ thread' = [thread EXCEPT ![c] = Handled(r)]
        /\ commands' = IF thread'[c].at = "waiting" THEN Append(commands, c) ELSE commands
        /\ UNCHANGED <<setting, waiters, loop, mode, conn, accepted>>
    BY <1>4 DEF ReadLine
  <2>2. r \in Request[c] /\ \A d \in Client : sent'[d] \in Seq(Request[d])
    BY <2>1, TailIs DEF PlaceInv, Taken
  <2>3. /\ Handled(r) = [at |-> Handled(r).at, request |-> Handled(r).request,
                         answer |-> Handled(r).answer, half |-> Handled(r).half]
        /\ Handled(r).at \in {"none", "reading", "waiting", "writing"}
        /\ Handled(r).at = "waiting" => Handled(r).request = r /\ Handled(r).answer = NoOne
    BY DEF Handled, Ready, Answering, Thread
  <2>4. ~Pending(c) /\ ~Queued(c) /\ c # setting /\ c \notin waiters
    BY <2>1 DEF Pending, PlaceInv, Placed
  <2>5. conn[c] \notin {"none", "pending", "refused"} /\ loop # "down" /\ accepted # c
    BY <2>1 DEF PlaceInv, Taken
  <2> DEFINE t == Handled(r)
  <2>6. thread'[c] = t /\ DOMAIN thread' = Client
        /\ \A d \in Client \ {c} : thread'[d] = thread[d]
    BY <2>1 DEF PlaceInv, ThreadTypes
  <2> HIDE DEF t, r
  <2>7. ThreadTypes'
    BY <2>2, <2>3, <2>6 DEF PlaceInv, ThreadTypes, t
  <2>8. DOMAIN sent' = Client
    BY <2>1 DEF PlaceInv, Taken
  <2>9. Taken'
    BY <2>1, <2>2, <2>5, <2>6, <2>8 DEF PlaceInv, Taken
  <2>10. \A d \in Client \ {c} : Pending(d)' <=> Pending(d)
    BY <2>6 DEF Pending
  <2>11. CASE t.at # "waiting"
    <3>1. ~Pending(c)' /\ commands' = commands
      BY <2>1, <2>6, <2>11 DEF Pending
    <3>2. \A d \in Client : Pending(d)' <=> Pending(d)
      BY <2>4, <2>10, <3>1
    <3> QED BY <2>1, <2>7, <2>9, <3>1, <3>2, PlacedSame DEF PlaceInv
  <2>12. CASE t.at = "waiting"
    <3>1. Pending(c)' /\ commands' = Append(commands, c)
      BY <2>1, <2>3, <2>6, <2>12 DEF Pending, t
    <3>2. \A d \in Client : Queued(d)' <=> Queued(d) \/ d = c
      BY <3>1, AppendIs DEF PlaceInv, Placed, Queued
    <3>3. commands' \in Seq(Client)
          /\ \A i, j \in DOMAIN commands' : commands'[i] = commands'[j] => i = j
      BY <2>4, <3>1, AppendIs DEF PlaceInv, Placed, Queued
    <3>4. Placed'
      BY <2>1, <2>4, <2>10, <3>1, <3>2, <3>3 DEF PlaceInv, Placed
    <3> QED BY <2>7, <2>9, <3>4 DEF PlaceInv
  <2> QED BY <2>11, <2>12
<1>5. ASSUME NEW c \in Client, EndOfFile(c) PROVE PlaceInv'
  <2>1. thread[c].at = "reading" /\ thread' = [thread EXCEPT ![c] = Thread("none")]
        /\ UNCHANGED <<commands, setting, waiters, loop, mode, sent, conn, accepted>>
    BY <1>5 DEF EndOfFile, loopVars, netVars
  <2>2. Thread("none") = [at |-> Thread("none").at, request |-> Thread("none").request,
          answer |-> Thread("none").answer, half |-> Thread("none").half]
        /\ Thread("none").at = "none"
    BY DEF Thread
  <2>3. ~Pending(c)
    BY <2>1 DEF Pending
  <2>4. ThreadTypes' /\ Placed' /\ thread'[c].at = "none"
        /\ \A d \in Client \ {c} : thread'[d] = thread[d]
    BY <1>a, <2>1, <2>2, <2>3
  <2> QED BY <2>1, <2>4 DEF PlaceInv, Taken
<1>6. ASSUME NEW c \in Client, Receive(c) PROVE PlaceInv'
  <2> DEFINE t == Answering(thread[c].request,
                    IF thread[c].answer = Dropped THEN WhenGone(thread[c].request)
                    ELSE thread[c].answer)
  <2>1. thread[c].at = "waiting" /\ thread[c].answer # NoOne
        /\ thread' = [thread EXCEPT ![c] = t]
        /\ UNCHANGED <<commands, setting, waiters, loop, mode, sent, conn, accepted>>
    BY <1>6 DEF Receive, loopVars, netVars
  <2>2. t = [at |-> t.at, request |-> t.request, answer |-> t.answer, half |-> t.half]
        /\ t.at = "writing"
    BY DEF Answering
  <2> HIDE DEF t
  <2>3. ~Pending(c)
    BY <2>1 DEF Pending
  <2>4. ThreadTypes' /\ Placed' /\ \A d \in Client \ {c} : thread'[d] = thread[d]
    BY <1>a, <2>1, <2>2, <2>3
  <2> QED BY <2>1, <2>4 DEF PlaceInv, Taken
<1>7. ASSUME NEW c \in Client, WriteAnswer(c) PROVE PlaceInv'
  <2>1. thread[c].at = "writing"
        /\ UNCHANGED <<commands, setting, waiters, loop, mode, sent, conn, accepted>>
    BY <1>7 DEF WriteAnswer, loopVars, netVars
  <2>2. PICK t : /\ thread' = [thread EXCEPT ![c] = t]
                 /\ t \in {Ready, Thread("none"), [thread[c] EXCEPT !.half = TRUE]}
    BY <1>7 DEF WriteAnswer
  <2>3. t = [at |-> t.at, request |-> t.request, answer |-> t.answer, half |-> t.half]
        /\ t.at \in {"none", "reading", "writing"}
    BY <2>1, <2>2 DEF Ready, Thread, PlaceInv, ThreadTypes
  <2>4. ~Pending(c)
    BY <2>1 DEF Pending
  <2>5. ThreadTypes' /\ Placed' /\ \A d \in Client \ {c} : thread'[d] = thread[d]
    BY <1>a, <2>1, <2>2, <2>3, <2>4
  <2> QED BY <2>1, <2>5 DEF PlaceInv, Taken
<1> QED BY <1>1, <1>2, <1>3, <1>4, <1>5, <1>6, <1>7 DEF ServerStep

LEMMA Dispatch_Place == PlaceInv /\ StoreInv /\ Dispatch => PlaceInv'
<1> SUFFICES ASSUME PlaceInv, StoreInv, Dispatch PROVE PlaceInv'
  OBVIOUS
<1>1. /\ setting = NoOne /\ commands # << >> /\ commands' = Tail(commands)
      /\ UNCHANGED <<loop, sent, conn, accepted>>
  BY DEF Dispatch, Free, netVars
<1>c. PICK c \in Client : c = Head(commands)
  BY <1>1, TailIs DEF PlaceInv, Placed
<1>2. /\ Queued(c) /\ Pending(c) /\ thread[c].request \in Request[c]
      /\ c \notin waiters
  BY <1>1, <1>c, TailIs DEF PlaceInv, Placed, Queued, ThreadTypes, Pending
<1>r. PICK r \in Request[c] : r = thread[c].request
  BY <1>2
<1>3. \A d \in Client : Queued(d)' <=> Queued(d) /\ d # c
  <2> SUFFICES ASSUME NEW d \in Client PROVE Queued(d)' <=> Queued(d) /\ d # c
    OBVIOUS
  <2>1. Queued(d)' => Queued(d) /\ d # c
    <3> SUFFICES ASSUME NEW i \in DOMAIN Tail(commands), Tail(commands)[i] = d
                 PROVE  Queued(d) /\ d # c
      BY <1>1 DEF Queued
    <3>1. i + 1 \in DOMAIN commands /\ commands[i + 1] = d /\ i + 1 # 1
      BY <1>1, TailIs DEF PlaceInv, Placed
    <3> QED BY <1>1, <1>c, <3>1, TailIs DEF PlaceInv, Placed, Queued
  <2>2. ASSUME NEW i \in DOMAIN commands, commands[i] = d, d # c PROVE Queued(d)'
    <3>1. i # 1
      BY <1>1, <1>c, <2>2, TailIs DEF PlaceInv, Placed
    <3>2. i - 1 \in DOMAIN Tail(commands) /\ Tail(commands)[i - 1] = d
      BY <1>1, <2>2, <3>1, TailIs DEF PlaceInv, Placed
    <3> QED BY <1>1, <3>2 DEF Queued
  <2> QED BY <2>1, <2>2 DEF Queued
<1>4. commands' \in Seq(Client)
      /\ \A i, j \in DOMAIN commands' : commands'[i] = commands'[j] => i = j
  <2>1. commands' \in Seq(Client)
    BY <1>1, TailIs DEF PlaceInv, Placed
  <2>2. ASSUME NEW i \in DOMAIN commands', NEW j \in DOMAIN commands',
               commands'[i] = commands'[j]
        PROVE  i = j
    <3>1. i + 1 \in DOMAIN commands /\ j + 1 \in DOMAIN commands
          /\ commands[i + 1] = commands[j + 1]
      BY <1>1, <2>2, TailIs DEF PlaceInv, Placed
    <3>2. i \in Nat /\ j \in Nat
      BY <2>1
    <3> QED BY <3>1, <3>2 DEF PlaceInv, Placed
  <2> QED BY <2>1, <2>2
<1>5. r[1] = "set_mode" => r[2] \in Mode
  BY RpcAssumption
(* The answer is there, ...                                                *)
<1>a. ASSUME NEW answer \in Answer, thread' = Answered(c, answer), mode' \in Mode,
             UNCHANGED <<setting, waiters>>
      PROVE  PlaceInv'
  <2>1. /\ ThreadTypes' /\ ~Pending(c)'
        /\ \A d \in Client : thread'[d].at = thread[d].at
        /\ \A d \in Client \ {c} : Pending(d)' <=> Pending(d)
    <3>1. answer # NoOne
      BY <1>a, AnswersAre
    <3> QED BY <1>2, <1>a, <3>1, AnsweredIs
  <2>2. Taken'
    BY <1>1, <1>a, <2>1 DEF PlaceInv, Taken
  <2>3. Placed'
    <3>1. \A d \in Client : Pending(d)' <=> Queued(d)' \/ d = setting' \/ d \in waiters'
      BY <1>1, <1>2, <1>3, <1>a, <2>1, AnswersAre DEF PlaceInv, Placed
    <3>2. \A d \in Client : Queued(d)' => d # setting' /\ d \notin waiters'
      BY <1>1, <1>3, <1>a DEF PlaceInv, Placed
    <3> QED BY <1>4, <1>a, <3>1, <3>2 DEF PlaceInv, Placed
  <2> QED BY <2>1, <2>2, <2>3 DEF PlaceInv
(* ... or is still to come.                                                *)
<1>b. ASSUME UNCHANGED <<thread, mode>>,
             \/ setting' = c /\ UNCHANGED waiters
             \/ setting' = setting /\ waiters' = waiters \union {c}
      PROVE  PlaceInv'
  <2>1. ThreadTypes' /\ Taken' /\ \A d \in Client : Pending(d)' <=> Pending(d)
    BY <1>1, <1>b DEF PlaceInv, ThreadTypes, Taken, Pending
  <2>2. Placed'
    BY <1>1, <1>2, <1>3, <1>4, <1>b, <2>1, RpcAssumption DEF PlaceInv, Placed
  <2> QED BY <2>1, <2>2 DEF PlaceInv
<1>6. CASE r[1] = "set_mode" /\ SetMode(c, r[2])
  <2>1. <<"ack", "set_mode">> \in Answer
    BY AnswersAre
  <2> QED BY <1>5, <1>6, <1>a, <2>1 DEF SetMode
<1>7. CASE Query(c)
  <2>1. <<"state", mode, active>> \in Answer
    BY AnswersAre DEF PlaceInv, Taken, StoreInv, StoreTypeOK
  <2> QED BY <1>7, <1>a, <2>1 DEF Query, PlaceInv, Taken
<1>8. CASE r[1] \in Operations /\ Operate(c, r[1])
  <2>1. <<"ack", r[1]>> \in Answer /\ <<"error", r[1]>> \in Answer
    BY <1>8, AnswersAre
  <2> QED BY <1>8, <1>a, <2>1 DEF Operate, PlaceInv, Taken
<1>9. CASE SetVenue(c, r[2])
  <2>1. <<"error", "set_venue">> \in Answer
    BY AnswersAre
  <2> QED BY <1>9, <1>a, <1>b, <2>1 DEF SetVenue, PlaceInv, Taken
<1>10. CASE AwaitSettled(c)
  <2>1. <<"ack", "await_settled">> \in Answer
    BY AnswersAre
  <2> QED BY <1>10, <1>a, <1>b, <2>1 DEF AwaitSettled, PlaceInv, Taken
<1> QED BY <1>c, <1>r, <1>6, <1>7, <1>8, <1>9, <1>10 DEF Dispatch

LEMMA MainLoopStep_Place == PlaceInv /\ StoreInv /\ MainLoopStep => PlaceInv'
<1> SUFFICES ASSUME PlaceInv, StoreInv, MainLoopStep PROVE PlaceInv'
  OBVIOUS
<1>1. CASE Persist
  <2>1. UNCHANGED <<loop, mode, commands, waiters, accepted, sent, conn>>
    BY <1>1 DEF Persist, netVars
  <2>2. CASE setting # NoOne /\ store' \notin Busy
    <3>1. thread' = Answered(setting, <<"ack", "set_venue">>) /\ setting' = NoOne
      BY <1>1, <2>2 DEF Persist
    <3>2. PICK c \in Client : c = setting
      BY <2>2 DEF PlaceInv, Placed
    <3>3. /\ ThreadTypes' /\ ~Pending(c)'
          /\ \A d \in Client : thread'[d].at = thread[d].at
          /\ \A d \in Client \ {c} : Pending(d)' <=> Pending(d)
      <4>1. <<"ack", "set_venue">> # NoOne
        BY AnswersAre
      <4>2. thread' = Answered(c, <<"ack", "set_venue">>)
        BY <3>1, <3>2
      <4> QED BY <4>1, <4>2, AnsweredIs
    <3>4. Taken'
      BY <2>1, <3>3 DEF PlaceInv, Taken
    <3>5. \A d \in Client : Queued(d)' <=> Queued(d)
      BY <2>1 DEF Queued
    <3>6. \A d \in Client : Pending(d)' <=> Queued(d)' \/ d = setting' \/ d \in waiters'
      BY <2>1, <3>1, <3>2, <3>3, <3>5, AnswersAre DEF PlaceInv, Placed
    <3>7. Placed'
      BY <2>1, <3>1, <3>5, <3>6, AnswersAre DEF PlaceInv, Placed
    <3> QED BY <3>3, <3>4, <3>7 DEF PlaceInv
  <2>3. CASE UNCHANGED <<thread, setting>>
    BY <2>1, <2>3 DEF PlaceInv, ThreadTypes, Taken, Placed, Queued, Pending
  <2> QED BY <1>1, <2>2, <2>3 DEF Persist
<1>2. ASSUME NEW c \in Client, AnswerWaiter(c) PROVE PlaceInv'
  <2>1. c \in waiters /\ waiters' = waiters \ {c}
        /\ UNCHANGED <<loop, mode, commands, setting, accepted, sent, conn>>
    BY <1>2 DEF AnswerWaiter, netVars
  <2>2. PICK answer \in {"ack", "error"} :
          thread' = Answered(c, <<answer, "await_settled">>)
    BY <1>2 DEF AnswerWaiter
  <2>3. <<answer, "await_settled">> # NoOne
    BY AnswersAre
  <2>4. /\ ThreadTypes' /\ ~Pending(c)'
        /\ \A d \in Client : thread'[d].at = thread[d].at
        /\ \A d \in Client \ {c} : Pending(d)' <=> Pending(d)
    BY <2>2, <2>3, AnsweredIs
  <2>5. Taken'
    BY <2>1, <2>4 DEF PlaceInv, Taken
  <2>6. Placed'
    BY <2>1, <2>4 DEF PlaceInv, Placed, Queued
  <2> QED BY <2>4, <2>5, <2>6 DEF PlaceInv
<1> QED BY <1>1, <1>2, Dispatch_Place DEF MainLoopStep

LEMMA Life_Place == PlaceInv /\ (Start \/ Signal \/ Quit \/ End) => PlaceInv'
<1>1. PlaceInv /\ Start => PlaceInv'
  <2> SUFFICES ASSUME PlaceInv, Start PROVE PlaceInv'
    OBVIOUS
  <2>1. UNCHANGED <<thread, commands, setting, waiters, accepted, sent>>
        /\ loop = "down" /\ loop' = "up" /\ mode' = InitialMode
        /\ conn' \in {conn, [c \in Client |-> "refused"]}
    BY DEF Start
  <2>2. Taken'
    BY <2>1, RpcAssumption DEF PlaceInv, Taken
  <2> QED BY <2>1, <2>2 DEF PlaceInv, ThreadTypes, Placed, Queued, Pending
<1>2. PlaceInv /\ Signal => PlaceInv'
  BY DEF Signal, netVars, PlaceInv, ThreadTypes, Taken, Placed, Queued, Pending
<1>3. PlaceInv /\ Quit => PlaceInv'
  <2> SUFFICES ASSUME PlaceInv, Quit PROVE PlaceInv'
    OBVIOUS
  <2>1. /\ loop # "down" /\ loop' = "gone" /\ setting = NoOne /\ commands' = << >> /\ waiters' = {}
        /\ UNCHANGED <<mode, setting, accepted, sent, conn>>
        /\ thread' = [c \in Client |->
                  IF thread[c].at = "waiting" /\ thread[c].answer = NoOne
                    THEN [thread[c] EXCEPT !.answer = Dropped] ELSE thread[c]]
    BY DEF Quit, Free, netVars
  <2>2. \A c \in Client :
          \/ Pending(c) /\ thread'[c] = [at |-> thread[c].at, request |-> thread[c].request,
                                         answer |-> Dropped, half |-> thread[c].half]
          \/ ~Pending(c) /\ thread'[c] = thread[c]
    BY <2>1 DEF PlaceInv, ThreadTypes, Pending
  <2>3. \A c \in Client : ~Pending(c)' /\ thread'[c].at = thread[c].at
                          /\ thread'[c].request = thread[c].request
    <3> SUFFICES ASSUME NEW c \in Client
                 PROVE  ~Pending(c)' /\ thread'[c].at = thread[c].at
                        /\ thread'[c].request = thread[c].request
      OBVIOUS
    <3>1. CASE thread'[c] = [at |-> thread[c].at, request |-> thread[c].request,
                             answer |-> Dropped, half |-> thread[c].half]
      BY <3>1, AnswersAre DEF Pending
    <3>2. CASE ~Pending(c) /\ thread'[c] = thread[c]
      BY <3>2 DEF Pending
    <3> QED BY <2>2, <3>1, <3>2
  <2>4. ThreadTypes'
    BY <2>1, <2>2, <2>3 DEF PlaceInv, ThreadTypes
  <2>5. Taken'
    BY <2>1, <2>3 DEF PlaceInv, Taken
  <2>6. Placed'
    BY <2>1, <2>3, RpcAssumption DEF Placed, Queued
  <2> QED BY <2>4, <2>5, <2>6 DEF PlaceInv
<1>4. PlaceInv /\ End => PlaceInv'
  <2> SUFFICES ASSUME PlaceInv, End PROVE PlaceInv'
    OBVIOUS
  <2>1. ThreadTypes' /\ \A c \in Client : thread'[c].at = "none"
    BY DEF End, ThreadTypes, Thread
  <2>2. Taken'
    BY <2>1 DEF End, PlaceInv, Taken
  <2>3. Placed'
    BY <2>1, RpcAssumption DEF End, Placed, Pending, Queued
  <2> QED BY <2>1, <2>2, <2>3 DEF PlaceInv
<1> QED BY <1>1, <1>2, <1>3, <1>4

LEMMA Next_Place == PlaceInv /\ StoreInv /\ [RpcNext]_rpcVars => PlaceInv'
<1>1. FileSystem \/ UNCHANGED rpcVars =>
        UNCHANGED <<thread, commands, setting, waiters, loop, mode, accepted, sent, conn>>
  BY DEF FileSystem, rpcVars, loopVars, netVars
<1>2. PlaceInv /\ (FileSystem \/ UNCHANGED rpcVars) => PlaceInv'
  BY <1>1 DEF PlaceInv, ThreadTypes, Taken, Placed, Queued, Pending
<1> QED BY <1>2, ClientStep_Place, ServerStep_Place, MainLoopStep_Place, Life_Place DEF RpcNext

LEMMA PlacesAre == PlaceInv => OnePlaceEach
<1> SUFFICES ASSUME PlaceInv, NEW c \in Client
             PROVE
      LET queued == {<<"commands", i>> : i \in {i \in DOMAIN commands : commands[i] = c}}
          places == queued
            \union {<<"setting", 0>> : x \in {setting} \intersect {c}}
            \union {<<"waiters", 0>> : x \in waiters \intersect {c}}
      IN IF Pending(c) THEN \E p \in places : places = {p} ELSE places = {}
  BY DEF OnePlaceEach, Pending
<1> DEFINE queued == {<<"commands", i>> : i \in {i \in DOMAIN commands : commands[i] = c}}
           set == {<<"setting", 0>> : x \in {setting} \intersect {c}}
           wait == {<<"waiters", 0>> : x \in waiters \intersect {c}}
<1>1. ~Queued(c) => queued = {}
  BY DEF Queued
<1>2. c # setting => set = {}
  OBVIOUS
<1>3. c \notin waiters => wait = {}
  OBVIOUS
<1>4. ASSUME Queued(c) PROVE \E p : queued = {p}
  <2>1. PICK i \in DOMAIN commands : commands[i] = c
    BY <1>4 DEF Queued
  <2>2. {j \in DOMAIN commands : commands[j] = c} = {i}
    BY <2>1 DEF PlaceInv, Placed
  <2>3. queued = {<<"commands", i>>}
    BY <2>2
  <2> QED BY <2>3
<1>5. c = setting => set = {<<"setting", 0>>}
  OBVIOUS
<1>6. c \in waiters => wait = {<<"waiters", 0>>}
  OBVIOUS
<1>7. \/ ~Pending(c) /\ ~Queued(c) /\ c # setting /\ c \notin waiters
      \/ Pending(c) /\ Queued(c) /\ c # setting /\ c \notin waiters
      \/ Pending(c) /\ ~Queued(c) /\ c = setting /\ c \notin waiters
      \/ Pending(c) /\ ~Queued(c) /\ c # setting /\ c \in waiters
  BY DEF PlaceInv, Placed
<1> HIDE DEF queued, set, wait
<1>8. IF Pending(c) THEN \E p \in queued \union set \union wait : queued \union set \union wait = {p}
      ELSE queued \union set \union wait = {}
  BY <1>1, <1>2, <1>3, <1>4, <1>5, <1>6, <1>7
<1> QED BY <1>8 DEF queued, set, wait

(* Whoever connects, asks, reads and goes, whichever step of persisting a  *)
(* venue fails and whenever GraphManager ends: a command that was handed   *)
(* to the main loop is in one place, and is answered once.                 *)
THEOREM OnePlaceEachHolds == RpcSpec => []OnePlaceEach
<1>1. RpcInit => StoreInv /\ PlaceInv
  BY StoreInit_Inv, PlaceInit_Inv DEF RpcInit
<1>2. StoreInv /\ PlaceInv /\ [RpcNext]_rpcVars => StoreInv' /\ PlaceInv'
  BY RpcStep_Store, StoreNext_Inv, Next_Place
<1> QED BY <1>1, <1>2, PlacesAre, PTL DEF RpcSpec

================================================================================
