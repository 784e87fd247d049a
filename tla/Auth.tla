---------------------------------- MODULE Auth ----------------------------------
(***************************************************************************)
(* Passkeys of the web UI (auth/): invitations, registered credentials and *)
(* sessions in an SQLite database, challenges in memory.  A request is a   *)
(* coroutine that awaits each statement and each commit.  The database's   *)
(* thread executes statements in the order in which they were awaited, so  *)
(* that a step here is the code after one await together with the          *)
(* statement of the next.  All coroutines share one connection: a commit   *)
(* commits whatever has been executed, whoever asked for it.               *)
(***************************************************************************)
EXTENDS Naturals, Sequences

CONSTANTS
  Invite,
  Credential,    (* of the browsers' authenticators                         *)
  Absent,
  MaxAuths,      (* bound: requests in all                                  *)
  MaxCount,      (* bound: an authenticator's counter of signatures         *)
  MaxRestarts    (* bound: ends of the web UI                               *)

ASSUME AuthAssumption ==
  /\ MaxAuths \in Nat /\ MaxCount \in Nat /\ MaxRestarts \in Nat
  /\ Absent \notin Nat \union Invite \union Credential \union {"fresh", "old", "ok", "no"}
  /\ Absent \notin [user : (1..MaxAuths) \union {Absent}, count : 0..MaxCount]

VARIABLES
  db,           (* the tables as the connection sees them                   *)
  saved,        (* as a restart would find them                             *)
  challenges,   (* _challenges, by user or for logins                       *)
  request,      (* the requests so far                                      *)
  restarts      (* how often the web UI ended                               *)

authVars == <<db, saved, challenges, request, restarts>>

(* The user of a registration, a challenge and the token of a session are  *)
(* random, and go here by the number of the request that made them.        *)
Number == 1..MaxAuths

Login == 0      (* _AUTH_CHALLENGE_KEY                                      *)

Received == DOMAIN request

Tables ==
  [invites  : [Invite -> {"valid", "consumed", "expired"}],
   creds    : [Credential -> [user : Number \union {Absent}, count : 0..MaxCount] \union {Absent}],
   sessions : [Number -> {"fresh", "old", Absent}]]

(* Where a request awaits its next statement, and what it has read.        *)
RequestRecord ==
  [kind   : {"register_options", "register_verify", "login_options", "login_verify",
             "logout", "guarded"},
   at     : {"consumed", "listed", "added", "looked", "counted", "replaced", "created",
             "deleted", "read", "expired", "touched", "end"},
   commit : BOOLEAN,                            (* a commit comes first     *)
   told   : {Absent, "ok", "no"},
   invite : Invite \union {Absent},
   user   : Number \union {Absent},
   cred   : Credential \union {Absent},
   count  : 0..MaxCount,                        (* as the browser says      *)
   token  : Number \union {Absent},               (* the cookie               *)
   row    : {"none", "found", "fresh", "old"},
   stored : 0..MaxCount,                        (* the row's sign_count     *)
   seen   : SUBSET Credential]                  (* get_all_credentials      *)

Blank(kind, at, commit) ==
  [kind |-> kind, at |-> at, commit |-> commit, told |-> Absent, invite |-> Absent,
   user |-> Absent, cred |-> Absent, count |-> 0, token |-> Absent, row |-> "none", stored |-> 0, seen |-> {}]

Registered == {c \in Credential : db.creds[c] # Absent}

Cookies ==
  {r \in Received : request[r].kind \in {"register_verify", "login_verify"} /\ request[r].told = "ok"}

(* A database that may have been used before. *)
AuthInit ==
  /\ db \in [invites  : {[i \in Invite |-> "valid"]},
             creds    : [Credential -> {Absent, [user |-> Absent, count |-> 0]}],
             sessions : {[t \in Number |-> Absent]}]
  /\ saved = db
  /\ challenges = [k \in Number \union {Login} |-> Absent]
  /\ request = << >> /\ restarts = 0

Arrives(record) ==
  /\ Len(request) < MaxAuths
  /\ request' = Append(request, record)

Becomes(r, record) == request' = [request EXCEPT ![r] = record]

Awaits(r, at) == request[r].at = at /\ ~request[r].commit

Tells(r, answer) == Becomes(r, [request[r] EXCEPT !.told = answer, !.at = "end"])

(* await db.commit() *)
Commit(r) ==
  /\ request[r].commit
  /\ saved' = db
  /\ Becomes(r, [request[r] EXCEPT !.commit = FALSE])
  /\ UNCHANGED <<db, challenges, restarts>>

--------------------------------------------------------------------------------
(* Challenges. *)

(* Slip: a challenge that is looked up stays. *)
PeekChallenge(key) == UNCHANGED challenges

PopChallenge(key) == challenges' = [challenges EXCEPT ![key] = Absent]

(* What a browser's answer must match: the challenge of request n.         *)
Fresh(key, n) == challenges[key] # Absent /\ challenges[key].of = n /\ ~challenges[key].old

StoreChallenge(key, n) ==
  challenges' = [k \in DOMAIN challenges |->
                   IF k = key THEN [of |-> n, old |-> FALSE]
                   ELSE IF challenges[k] # Absent /\ challenges[k].old THEN Absent
                   ELSE challenges[k]]

--------------------------------------------------------------------------------
(* Registration. *)

(* consume_invite: one statement tests and sets.                           *)
ConsumeInvite(i) ==
  db' = IF db.invites[i] = "valid" THEN [db EXCEPT !.invites[i] = "consumed"] ELSE db

(* POST /register/options                                                  *)
RegisterOptions(i) ==
  /\ Arrives([Blank("register_options", "consumed", TRUE)
                EXCEPT !.invite = i, !.row = IF db.invites[i] = "valid" THEN "found" ELSE @])
  /\ ConsumeInvite(i)
  /\ UNCHANGED <<saved, challenges, restarts>>

Consumed(r) ==
  /\ Awaits(r, "consumed")
  /\ \/ request[r].row = "found" /\ Becomes(r, [request[r] EXCEPT !.seen = Registered, !.at = "listed"])
     \/ request[r].row = "none" /\ Tells(r, "no")
  /\ UNCHANGED <<db, saved, challenges, restarts>>

Offer(r, kind, key) ==
  /\ request[r].kind = kind /\ Awaits(r, "listed")
  /\ StoreChallenge(key, r)
  /\ Tells(r, "ok")
  /\ UNCHANGED <<db, saved, restarts>>

OfferRegistration(r) == Offer(r, "register_options", r)

AddCredential(c, u) == db' = [db EXCEPT !.creds[c] = [user |-> u, count |-> 0]]

(* The library's verification needs the challenge, and a good answer to it. *)
VerifyRegistration(o, good) == Fresh(o, o) /\ good

(* POST /register/verify for the options of request o: an authenticator    *)
(* honours the list of those to exclude, good or not.  A credential that   *)
(* is there already violates UNIQUE.                                       *)
RegisterVerify(o, c, good) ==
  /\ request[o].kind = "register_options" /\ request[o].told = "ok" /\ c \notin request[o].seen
  /\ LET q == [Blank("register_verify", "added", TRUE) EXCEPT !.user = o, !.cred = c] IN
     IF VerifyRegistration(o, good) /\ c \notin Registered
       THEN Arrives(q) /\ AddCredential(c, o)
       ELSE Arrives([q EXCEPT !.at = "end", !.told = "no", !.commit = FALSE]) /\ UNCHANGED db
  /\ PopChallenge(o)
  /\ UNCHANGED <<saved, restarts>>

--------------------------------------------------------------------------------
(* Login and logout. *)

LoginOptions ==
  /\ Arrives([Blank("login_options", "listed", FALSE) EXCEPT !.seen = Registered])
  /\ UNCHANGED <<db, saved, challenges, restarts>>

OfferLogin(r) == Offer(r, "login_options", Login)

(* get_credential_by_id                                                    *)
WithStored(q) ==
  IF q.cred \in Registered THEN [q EXCEPT !.row = "found", !.stored = db.creds[q.cred].count] ELSE q

(* POST /login/verify: the authenticator, or a copy of it, has signed the  *)
(* challenge of request o and says that it was its n-th signature.         *)
LoginVerify(o, c, n, t) ==
  /\ request[o].kind = "login_options" /\ request[o].told = "ok"
  /\ Arrives(WithStored([Blank("login_verify", "looked", FALSE)
                           EXCEPT !.user = o, !.cred = c, !.count = n, !.token = t]))
  /\ UNCHANGED <<db, saved, challenges, restarts>>

(* verify_authentication_response refuses a counter that does not rise,    *)
(* unless the authenticator has none.                                      *)
Rises(r) ==
  request[r].count > request[r].stored \/ (request[r].count = 0 /\ request[r].stored = 0)

VerifyAuthentication(r) == Fresh(Login, request[r].user) /\ Rises(r)

UpdateSignCount(c, n) == db' = [db EXCEPT !.creds[c].count = n]

Looked(r) ==
  /\ Awaits(r, "looked")
  /\ \/ /\ request[r].row = "none"
        /\ Tells(r, "no") /\ UNCHANGED <<db, challenges>>
     \/ /\ request[r].row = "found"
        /\ PopChallenge(Login)
        /\ IF VerifyAuthentication(r)
             THEN /\ UpdateSignCount(request[r].cred, request[r].count)
                  /\ Becomes(r, [request[r] EXCEPT !.at = "counted", !.commit = TRUE])
             ELSE Tells(r, "no") /\ UNCHANGED db
  /\ UNCHANGED <<saved, restarts>>

DeleteSession(t) == db' = [db EXCEPT !.sessions[t] = Absent]

(* The session of the cookie that the login came with is replaced. *)
Replace(r) ==
  /\ Awaits(r, "counted") /\ request[r].token # Absent
  /\ DeleteSession(request[r].token)
  /\ Becomes(r, [request[r] EXCEPT !.at = "replaced", !.commit = TRUE])
  /\ UNCHANGED <<saved, challenges, restarts>>

CreateSession(r) ==
  /\ \/ Awaits(r, "added") \/ Awaits(r, "replaced")
     \/ Awaits(r, "counted") /\ request[r].token = Absent
  /\ db' = [db EXCEPT !.sessions[r] = "fresh"]
  /\ Becomes(r, [request[r] EXCEPT !.at = "created", !.commit = TRUE])
  /\ UNCHANGED <<saved, challenges, restarts>>

Logout(t) ==
  /\ Arrives([Blank("logout", "deleted", TRUE) EXCEPT !.token = t])
  /\ DeleteSession(t)
  /\ UNCHANGED <<saved, challenges, restarts>>

--------------------------------------------------------------------------------
(* Every other request and websocket, from a host that is not this one. *)

GetSession(t) == IF db.sessions[t] = Absent THEN "none" ELSE db.sessions[t]

Guarded(t) ==
  /\ Arrives([Blank("guarded", "read", FALSE) EXCEPT !.token = t, !.row = GetSession(t)])
  /\ UNCHANGED <<db, saved, challenges, restarts>>

(* Slip: the session is written anew. *)
UpsertSession(t) == db' = [db EXCEPT !.sessions[t] = "fresh"]

(* UPDATE finds the row or does nothing. *)
TouchSession(t) ==
  db' = IF db.sessions[t] = Absent THEN db ELSE [db EXCEPT !.sessions[t] = "fresh"]

(* _validate_session *)
Validate(r) ==
  /\ Awaits(r, "read")
  /\ CASE request[r].row = "none"  -> Tells(r, "no") /\ UNCHANGED db
       [] request[r].row = "old"   ->
            /\ DeleteSession(request[r].token)
            /\ Becomes(r, [request[r] EXCEPT !.at = "expired", !.commit = TRUE])
       [] request[r].row = "fresh" ->
            /\ TouchSession(request[r].token)
            /\ Becomes(r, [request[r] EXCEPT !.at = "touched", !.commit = TRUE])
  /\ UNCHANGED <<saved, challenges, restarts>>

(* After the last commit. *)
Ends(r) ==
  /\ \/ (Awaits(r, "created") \/ Awaits(r, "deleted") \/ Awaits(r, "touched")) /\ Tells(r, "ok")
     \/ Awaits(r, "expired") /\ Tells(r, "no")
  /\ UNCHANGED <<db, saved, challenges, restarts>>

--------------------------------------------------------------------------------
(* Time: an hour, two minutes, twelve hours. *)

InviteExpires(i) ==
  /\ db.invites[i] = "valid"
  /\ db' = [db EXCEPT !.invites[i] = "expired"]
  /\ saved' = [saved EXCEPT !.invites[i] = "expired"]
  /\ UNCHANGED <<challenges, request, restarts>>

ChallengeExpires(k) ==
  /\ challenges[k] # Absent /\ ~challenges[k].old
  /\ challenges' = [challenges EXCEPT ![k].old = TRUE]
  /\ UNCHANGED <<db, saved, request, restarts>>

Aged(session) == IF session = Absent THEN Absent ELSE "old"

SessionAges(t) ==
  /\ db.sessions[t] = "fresh"
  /\ db' = [db EXCEPT !.sessions[t] = "old"]
  /\ saved' = [saved EXCEPT !.sessions[t] = Aged(@)]
  /\ UNCHANGED <<challenges, request, restarts>>

(* Whatever ends the web UI; it starts again with what was committed. *)
AuthRestart ==
  /\ restarts < MaxRestarts /\ restarts' = restarts + 1
  /\ db' = saved
  /\ challenges' = [k \in DOMAIN challenges |-> Absent]
  /\ request' = [r \in Received |-> [request[r] EXCEPT !.at = "end", !.commit = FALSE]]
  /\ UNCHANGED saved

--------------------------------------------------------------------------------
AuthProgress(r) ==
  \/ Commit(r) \/ Consumed(r) \/ OfferRegistration(r) \/ OfferLogin(r) \/ Looked(r) \/ Replace(r) \/ CreateSession(r)
  \/ Validate(r) \/ Ends(r)

AuthNext ==
  \/ \E i \in Invite : RegisterOptions(i) \/ InviteExpires(i)
  \/ \E o \in Received, c \in Credential :
       \/ \E good \in BOOLEAN : RegisterVerify(o, c, good)
       \/ \E n \in 0..MaxCount, t \in Cookies \union {Absent} : LoginVerify(o, c, n, t)
  \/ LoginOptions
  \/ \E t \in Cookies : Logout(t) \/ Guarded(t) \/ SessionAges(t)
  \/ \E k \in DOMAIN challenges : ChallengeExpires(k)
  \/ \E r \in Received : AuthProgress(r)
  \/ AuthRestart

AuthSpec == AuthInit /\ [][AuthNext]_authVars

--------------------------------------------------------------------------------
AuthTypeOK ==
  /\ db \in Tables /\ saved \in Tables
  /\ challenges \in [Number \union {Login} -> [of : Number, old : BOOLEAN] \union {Absent}]
  /\ request \in Seq(RequestRecord) /\ Len(request) <= MaxAuths
  /\ restarts \in 0..MaxRestarts

(* routes.py, AC 4: "The invite is consumed immediately so it cannot be    *)
(* reused".  However many requests bring an invitation at once, whatever   *)
(* is sent twice and wherever the web UI is restarted, one credential at   *)
(* most is registered for it.                                              *)
OneCredentialPerInvite ==
  \A c, d \in Registered :
    db.creds[c].user # Absent /\ db.creds[d].user # Absent
      /\ request[db.creds[c].user].invite = request[db.creds[d].user].invite
    => c = d

(* routes.py, AC 8: "revoke session server-side".  A session whose logout  *)
(* was answered, or that a login has replaced, never comes back, neither   *)
(* by a request that was under way nor by a restart.                       *)
RevokedStaysRevoked ==
  \A r \in Received :
    request[r].kind \in {"logout", "login_verify"} /\ request[r].told = "ok"
      /\ request[r].token # Absent
    => db.sessions[request[r].token] = Absent /\ saved.sessions[request[r].token] = Absent

================================================================================
