-------------------------------- MODULE WebUI -------------------------------
(***************************************************************************)
(* The handlers of the web interface that change the user store: login,    *)
(* sign-out, drive folder and default user of internal/webui/web.go.  Each *)
(* request is served by a goroutine of its own; a handler changes files,   *)
(* calls UpdateFromDir, and may fail in between.  A crash ends them all,   *)
(* and the startup code loads the users before it serves requests again.   *)
(***************************************************************************)
EXTENDS UserStore

CONSTANTS
    MaxRequests,    \* bound: requests
    MaxCrashes      \* bound: crashes

ASSUME WebBounds == MaxRequests \in Nat /\ MaxCrashes \in Nat

VARIABLES
    reqs,       \* the handlers
    sessions,   \* the users that have a session cookie
    up,         \* requests are being served
    requests,   \* requests so far
    crashes     \* crashes so far

vars == <<storeVars, reqs, sessions, up, requests, crashes>>

RawToken == [access : 0..MaxGrants, refresh : 0..MaxGrants]

Request == [pc : {"idle", "merge", "truncate", "write", "remove", "default", "update", "revoke"},
            kind : {"none", "login", "signout", "folder", "default"},
            sub : Sub \cup {0},         \* the user it is about
            token : RawToken,           \* the token to write or to revoke
            folder : Folder \cup {NoFile},
            users : SUBSET Sub,         \* keys of the map that storeDefaultUser fetched
            todo : SUBSET Sub,          \* of these, the ones not yet written
            current : BOOLEAN,          \* that map is still Locked.users
            alone : BOOLEAN]            \* history: no other request has overlapped with it

Idle == [pc |-> "idle", kind |-> "none", sub |-> 0,
         token |-> [access |-> 0, refresh |-> 0], folder |-> NoFile,
         users |-> {}, todo |-> {}, current |-> FALSE, alone |-> FALSE]

LoggedIn == {s \in Sub : accounts[s] # NoAccount}

Busy == {h \in Handler : reqs[h] # Idle}

\* A request comes in, and r is what its handler h knows after the first step.
\* A request that fails in its first step leaves the handler idle.
Start(h, r) ==
    /\ up /\ requests < MaxRequests /\ reqs[h] = Idle
    /\ requests' = requests + 1
    /\ reqs' = [g \in Handler |->
                  IF g = h THEN IF r = Idle THEN Idle ELSE [r EXCEPT !.alone = (Busy = {})]
                  ELSE IF g \in Busy THEN [reqs[g] EXCEPT !.alone = FALSE] ELSE Idle]

Become(h, pc) == reqs' = [reqs EXCEPT ![h].pc = pc]
Return(h) == reqs' = [reqs EXCEPT ![h] = Idle]

\* What a write does to the files, and to all updates that are under way.
Write(newFiles) ==
    /\ files' = newFiles
    /\ loads' = [p \in Process |-> [loads[p] EXCEPT !.clean = FALSE]]
    /\ fresh' = FALSE

\* A write of the last file: the handler goes on to call UpdateFromDir.
WriteAndUpdate(h, newFiles) ==
    /\ files' = newFiles
    /\ loads' = [p \in Process |-> IF p = h THEN Load("list")
                                   ELSE [loads[p] EXCEPT !.clean = FALSE]]
    /\ fresh' = FALSE
    /\ Become(h, "update")

Steady == UNCHANGED <<sessions, up, requests, crashes>>
SameStore == UNCHANGED <<files, accounts, loads, fresh>>
SameGoogle == UNCHANGED <<grant, issued>>

-----------------------------------------------------------------------------
(* oauthHandler: login. *)

\* The answer to a code: with a refresh token if there was no grant yet.
Issue(s) == /\ grant[s] = 0 /\ issued[s] < MaxGrants
            /\ issued' = [issued EXCEPT ![s] = @ + 1]
            /\ grant' = [grant EXCEPT ![s] = issued[s] + 1]

FirstToken(g) == [access |-> g, refresh |-> g]

LoginRequest(s, t) == [Idle EXCEPT !.kind = "login", !.sub = s, !.token = t,
                                   !.pc = IF t.refresh = 0 THEN "merge" ELSE "truncate"]

Login(h) ==
    /\ \E s \in Sub :
         /\ sessions' = sessions \cup {s}
         /\ \/ /\ Issue(s)
               /\ Start(h, LoginRequest(s, FirstToken(issued[s] + 1)))
            \/ /\ grant[s] # 0
               /\ Start(h, LoginRequest(s, [access |-> grant[s], refresh |-> 0]))
               /\ SameGoogle
    /\ SameStore /\ UNCHANGED <<errors, up, crashes>>

\* Exchange or Userinfo fails; Google may have made the grant all the same.
LoginFails(h) ==
    /\ Fails
    /\ Start(h, Idle)
    /\ SameGoogle \/ \E s \in Sub : Issue(s)
    /\ SameStore /\ UNCHANGED <<sessions, up, crashes>>

\* (Mutation of Merged: the token is written without a refresh token.)
BugNotMerged(t, old) == t

\* (Mutation of Merged: the old token instead of the new one, merged.)
BugMergedBackwards(t, old) == [access |-> 0, refresh |-> old.refresh]

Merged(t, old) == [t EXCEPT !.refresh = old.refresh]

\* The refresh token of the account in memory is put into the new token;
\* without an account the login is refused.
LoginMerge(h) ==
    /\ reqs[h].pc = "merge"
    /\ LET s == reqs[h].sub
       IN  IF accounts[s] = NoAccount
             THEN Return(h)
             ELSE reqs' = [reqs EXCEPT ![h].pc = "truncate",
                                       ![h].token = Merged(@, accounts[s].token)]
    /\ SameStore /\ SameGoogle /\ Steady /\ UNCHANGED errors

-----------------------------------------------------------------------------
(* writeJsonForUser: token.json of a login, drive_folder.json otherwise. *)

With(h, token, folder) ==
    [files EXCEPT ![reqs[h].sub] = IF reqs[h].kind = "login"
                                     THEN [@ EXCEPT !.dir = TRUE, !.token = token]
                                     ELSE [@ EXCEPT !.dir = TRUE, !.folder = folder]]

Truncate(h) ==
    /\ reqs[h].pc = "truncate"
    /\ Write(With(h, Empty, Empty))
    /\ Become(h, "write")
    /\ UNCHANGED <<accounts, errors>> /\ SameGoogle /\ Steady

WriteContent(h) ==
    /\ reqs[h].pc = "write"
    /\ WriteAndUpdate(h, With(h, reqs[h].token, reqs[h].folder))
    /\ UNCHANGED <<accounts, errors>> /\ SameGoogle /\ Steady

\* The file cannot be opened, or remains empty; or token.json is not removed.
WriteFails(h) ==
    /\ reqs[h].pc \in {"truncate", "write", "remove"}
    /\ Fails
    /\ Return(h)
    /\ SameStore /\ SameGoogle /\ Steady

-----------------------------------------------------------------------------
(* signoutHandler *)

\* (Mutation of SignOut: memory is updated before token.json is removed.)
BugUpdatesFirst(h) ==
    /\ \E s \in sessions : Start(h, [Idle EXCEPT !.pc = "update", !.kind = "signout", !.sub = s])
    /\ loads' = [loads EXCEPT ![h] = Load("list")]
    /\ SameGoogle /\ UNCHANGED <<files, accounts, fresh, errors, sessions, up, crashes>>

\* The token to revoke is that of the account in memory, if there is one.
SignOut(h) ==
    /\ \E s \in sessions :
         Start(h, [Idle EXCEPT !.pc = "remove", !.kind = "signout", !.sub = s,
                               !.token = IF accounts[s] = NoAccount THEN @
                                         ELSE accounts[s].token])
    /\ SameStore /\ SameGoogle /\ UNCHANGED <<errors, sessions, up, crashes>>

RemoveToken(h) ==
    /\ reqs[h].pc = "remove"
    /\ files[reqs[h].sub].token # NoFile
    /\ WriteAndUpdate(h, [files EXCEPT ![reqs[h].sub].token = NoFile])
    /\ UNCHANGED <<accounts, errors>> /\ SameGoogle /\ Steady

RemoveTokenMissing(h) ==
    /\ reqs[h].pc = "remove"
    /\ files[reqs[h].sub].token = NoFile
    /\ Return(h)
    /\ SameStore /\ SameGoogle /\ Steady /\ UNCHANGED errors

\* Google refuses to revoke a token that is not of the current grant.
Revoke(h) ==
    /\ reqs[h].pc = "revoke"
    /\ grant' = [grant EXCEPT ![reqs[h].sub] = IF @ = reqs[h].token.refresh THEN 0 ELSE @]
    /\ Return(h)
    /\ SameStore /\ Steady /\ UNCHANGED <<issued, errors>>

RevokeFails(h) ==
    /\ reqs[h].pc = "revoke"
    /\ Fails
    /\ Return(h)
    /\ SameStore /\ SameGoogle /\ Steady

-----------------------------------------------------------------------------
(* storeDriveFolder and storeDefaultUser *)

StoreDriveFolder(h) ==
    /\ \E s \in sessions, f \in Folder :
         Start(h, [Idle EXCEPT !.pc = "truncate", !.kind = "folder", !.sub = s, !.folder = f])
    /\ SameStore /\ SameGoogle /\ UNCHANGED <<errors, sessions, up, crashes>>

\* The map is fetched under the lock and used without it.
StoreDefaultUser(h) ==
    /\ sessions # {}
    /\ \E s \in Sub :
         Start(h, [Idle EXCEPT !.pc = "default", !.kind = "default", !.sub = s,
                               !.users = LoggedIn, !.todo = LoggedIn, !.current = TRUE])
    /\ SameStore /\ SameGoogle /\ UNCHANGED <<errors, sessions, up, crashes>>

\* The account is changed in place: it is seen only if its map is still in use.
SetDefault(h, s) ==
    accounts' = IF reqs[h].current
                  THEN [accounts EXCEPT ![s].default = (s = reqs[h].sub)]
                  ELSE accounts

\* writeDefault creates or removes is_default of one user after the other.
WriteDefault(h) ==
    /\ reqs[h].pc = "default"
    /\ \E s \in reqs[h].todo :
         /\ SetDefault(h, s)
         /\ Write([files EXCEPT ![s].default = (s = reqs[h].sub)])
         /\ reqs' = [reqs EXCEPT ![h].todo = @ \ {s}]
    /\ SameGoogle /\ Steady /\ UNCHANGED errors

\* is_default, which need not have a content, may have been created all the same.
WriteDefaultFails(h) ==
    /\ reqs[h].pc = "default"
    /\ Fails
    /\ \E s \in reqs[h].todo :
         /\ SetDefault(h, s)
         /\ \E default \in {files[s].default, files[s].default \/ s = reqs[h].sub} :
              Write([files EXCEPT ![s].default = default])
    /\ Return(h)
    /\ SameGoogle /\ Steady

DefaultsWritten(h) ==
    /\ reqs[h].pc = "default"
    /\ reqs[h].todo = {}
    /\ loads' = [loads EXCEPT ![h] = Load("list")]
    /\ Become(h, "update")
    /\ SameGoogle /\ Steady /\ UNCHANGED <<files, accounts, fresh, errors>>

-----------------------------------------------------------------------------
(* Updates, on behalf of a handler or of the startup code. *)

Update(p) == LoadStep(p) /\ Steady /\ UNCHANGED reqs

\* A new map is installed: nobody sees changes to the old one any more.
Replace(p) ==
    /\ Install(p)
    /\ reqs' = [h \in Handler |-> [reqs[h] EXCEPT !.current = FALSE]]
    /\ Steady

\* After a successful update a sign-out goes on to revoke the token; all other
\* handlers are done, and so is one whose update has failed.
Updated(h) ==
    /\ reqs[h].pc = "update"
    /\ loads[h].pc \in {"ok", "failed"}
    /\ loads' = [loads EXCEPT ![h] = Load("no")]
    /\ IF loads[h].pc = "ok" /\ reqs[h].kind = "signout" /\ reqs[h].token.refresh # 0
         THEN Become(h, "revoke")
         ELSE Return(h)
    /\ SameGoogle /\ Steady /\ UNCHANGED <<files, accounts, fresh, errors>>

HandlerStep(h) ==
    \/ Login(h) \/ LoginFails(h) \/ LoginMerge(h)
    \/ Truncate(h) \/ WriteContent(h) \/ WriteFails(h)
    \/ SignOut(h) \/ RemoveToken(h) \/ RemoveTokenMissing(h) \/ Revoke(h) \/ RevokeFails(h)
    \/ StoreDriveFolder(h) \/ StoreDefaultUser(h)
    \/ WriteDefault(h) \/ WriteDefaultFails(h) \/ DefaultsWritten(h)
    \/ Updated(h)

-----------------------------------------------------------------------------
(* Startup, crashes, and users that withdraw their permission at Google. *)

\* The process starts: what is on disk remains, and main loads the users.
Restart ==
    /\ loads' = [p \in Process |-> Load(IF p = Main THEN "list" ELSE "no")]
    /\ reqs' = [h \in Handler |-> Idle]
    /\ accounts' = NoAccounts
    /\ fresh' = FALSE
    /\ up' = FALSE
    /\ SameGoogle /\ UNCHANGED <<files, errors, sessions, requests>>

StartupDone ==
    /\ loads[Main].pc = "ok"
    /\ ~up /\ up' = TRUE
    /\ loads' = [loads EXCEPT ![Main] = Load("no")]
    /\ SameGoogle
    /\ UNCHANGED <<files, accounts, fresh, errors, reqs, sessions, requests, crashes>>

\* main returns the error of UpdateFromDir, and the process is started again.
StartupFails ==
    /\ loads[Main].pc = "failed"
    /\ Restart
    /\ UNCHANGED crashes

Crash ==
    /\ crashes < MaxCrashes
    /\ crashes' = crashes + 1
    /\ Restart

RevokeAtGoogle(s) ==
    /\ grant[s] # 0
    /\ grant' = [grant EXCEPT ![s] = 0]
    /\ SameStore /\ Steady /\ UNCHANGED <<issued, errors, reqs>>

\* Some users have logged in at some time, and some of them are signed out now.
Init ==
    /\ \E users \in SUBSET Sub : \E in \in SUBSET users :
         /\ sessions = users
         /\ issued = [s \in Sub |-> IF s \in users /\ MaxGrants > 0 THEN 1 ELSE 0]
         /\ grant = [s \in Sub |-> IF s \in in THEN issued[s] ELSE 0]
         /\ files = [s \in Sub |->
                       [dir |-> s \in users,
                        token |-> IF s \in in /\ MaxGrants > 0 THEN FirstToken(1) ELSE NoFile,
                        folder |-> NoFile, default |-> FALSE]]
    /\ accounts = NoAccounts
    /\ loads = [p \in Process |-> Load(IF p = Main THEN "list" ELSE "no")]
    /\ errors = 0 /\ fresh = FALSE
    /\ reqs = [h \in Handler |-> Idle]
    /\ up = FALSE /\ requests = 0 /\ crashes = 0

Next ==
    \/ \E h \in Handler : HandlerStep(h)
    \/ \E p \in Process : Update(p) \/ Replace(p)
    \/ StartupDone \/ StartupFails \/ Crash
    \/ \E s \in Sub : RevokeAtGoogle(s)

Spec == Init /\ [][Next]_vars

-----------------------------------------------------------------------------
(* Properties. *)

TypeOK ==
    /\ StoreTypeOK
    /\ reqs \in [Handler -> Request]
    /\ sessions \subseteq Sub
    /\ up \in BOOLEAN
    /\ requests \in 0..MaxRequests
    /\ crashes \in 0..MaxCrashes

\* Every token.json and every account has a refresh token, although Google
\* sends one with the first login only: later logins merge it from memory.
RefreshTokenKept ==
    \A s \in Sub :
        /\ files[s].token \in Token => files[s].token.refresh # 0
        /\ accounts[s] # NoAccount => accounts[s].token.refresh # 0

\* UpdateFromDir reads file after file without a lock.  If nothing was written
\* from its first read on, memory is exactly what is on disk: no user is left
\* out, no account mixes old and new, and no signed-out user is kept.  Only a default
\* flag is lost if os.Stat could not look at it, as LoadFromDir drops that error.
FreshIsDisk == fresh => \A s \in Sub : Shows(accounts[s], s)

\* A handler that ran without another one, and whose update succeeded, finds its
\* own change in memory: the login its token, the sign-out no account, and the new
\* default, and nobody else, is the default, unless its flag could not be looked at.
AloneTakesEffect ==
    \A h \in Handler :
        loads[h].pc = "ok" /\ reqs[h].alone =>
            LET r == reqs[h]
                a == accounts[r.sub]
            IN  CASE r.kind = "login"   -> a # NoAccount /\ a.token = r.token
                  [] r.kind = "signout" -> a = NoAccount
                  [] r.kind = "folder"  -> a # NoAccount => a.folder = r.folder
                  [] r.kind = "default" -> \A s \in r.users \cap LoggedIn :
                                              accounts[s].default <=> (s = r.sub /\ accounts[s].flagRead)

\* The comment in signoutHandler: the token is revoked "so that subsequent logins
\* will yield a refresh token".  So a user without token.json can log in again
\* when no request is being served: Google has no grant, or the account with the
\* refresh token is still in memory.
SignedOutCanLogIn ==
    up /\ Busy = {} =>
        \A s \in Sub : files[s].token = NoFile => grant[s] = 0 \/ accounts[s] # NoAccount
=============================================================================
