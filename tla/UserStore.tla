------------------------------ MODULE UserStore -----------------------------
(***************************************************************************)
(* The user store: internal/user/user.go, and what it needs of Google.     *)
(*                                                                         *)
(* A user, named by the sub of the Google account, has a directory with    *)
(* token.json, drive_folder.json and is_default.  The accounts in memory   *)
(* are a map under a lock, which UpdateFromDir replaces as a whole: it     *)
(* reads the disk file by file and asks Google about each token, without   *)
(* the lock, and takes the lock only to install what it has built.         *)
(*                                                                         *)
(* Google has at most one grant per user.  A login yields a refresh token  *)
(* only when there is none; a revoked grant makes its tokens useless.      *)
(***************************************************************************)
EXTENDS Naturals

CONSTANTS
    Sub,        \* the users; directories are listed in their order
    Folder,     \* Drive folders a user may choose
    Handler,    \* goroutines that serve HTTP requests
    Main,       \* the startup code, which loads the users first
    MaxGrants,  \* bound: grants Google ever makes to a user
    MaxErrors,  \* bound: requests and file operations that fail
    NoFile,     \* a file that is not there
    Empty,      \* a file of zero bytes: os.WriteFile has truncated it
    NoAccount   \* no such user in the map

ASSUME SubAssumption == Sub \subseteq Nat \ {0}

ASSUME AccountBounds == MaxGrants \in Nat /\ MaxErrors \in Nat

ASSUME MainAssumption == Main \notin Handler

Process == Handler \cup {Main}

\* The grants that issued the access token and the refresh token; 0 is none.
Token == [access : 1..MaxGrants, refresh : 0..MaxGrants]

Account == [token : Token, folder : Folder \cup {NoFile}, default : BOOLEAN,
            flagRead : BOOLEAN]     \* history: is_default could be looked at

ASSUME NothingAssumption ==
    /\ NoFile \notin Token \cup Folder \cup {Empty}
    /\ Empty \notin Token \cup Folder
    /\ NoAccount \notin [token : Token, folder : Folder \cup {NoFile, Empty}, default : BOOLEAN,
                         flagRead : BOOLEAN]

VARIABLES
    files,      \* the directory of each user
    accounts,   \* Locked.users
    loads,      \* the calls of UpdateFromDir
    grant,      \* Google: the grant of each user
    issued,     \* Google: grants made to each user so far
    errors,     \* failures so far
    fresh       \* history: no file or account has changed since the update that
                \* installed the accounts began to read

storeVars == <<files, accounts, loads, grant, issued, errors, fresh>>

Accounts == [Sub -> Account \cup {NoAccount}]

UserFiles == [dir : BOOLEAN,
              token : Token \cup {NoFile, Empty},
              folder : Folder \cup {NoFile, Empty},
              default : BOOLEAN]

LoadState == [pc : {"no", "list", "token", "folder", "default", "userinfo", "ok", "failed"},
              todo : SUBSET Sub,        \* directories listed, not yet read
              acc : Account \cup {NoAccount},   \* the account being read
              built : Accounts,         \* newUsers
              clean : BOOLEAN]          \* history: nothing has been written meanwhile

NoAccounts == [s \in Sub |-> NoAccount]

Load(pc) == [pc |-> pc, todo |-> {}, acc |-> NoAccount, built |-> NoAccounts, clean |-> TRUE]

Fails == errors < MaxErrors /\ errors' = errors + 1

-----------------------------------------------------------------------------
(* UpdateFromDir and LoadFromDir. *)

\* The directory that comes next in the listing.
IsNext(p, s) == s \in loads[p].todo /\ \A t \in loads[p].todo : s <= t

ListUsers(p) ==
    /\ loads[p].pc = "list"
    /\ loads' = [loads EXCEPT ![p] = [Load("token") EXCEPT !.todo = {s \in Sub : files[s].dir}]]
    /\ UNCHANGED <<files, accounts, grant, issued, errors, fresh>>

\* Without a token.json the user is logged out and left out of the map.
ReadToken(p) ==
    /\ loads[p].pc = "token"
    /\ \E s \in Sub :
         /\ IsNext(p, s)
         /\ \/ /\ files[s].token = NoFile
               /\ loads' = [loads EXCEPT ![p].todo = @ \ {s}]
            \/ /\ files[s].token = Empty
               /\ loads' = [loads EXCEPT ![p] = Load("failed")]
            \/ /\ files[s].token \in Token
               /\ loads' = [loads EXCEPT ![p].pc = "folder",
                                         ![p].acc = [token |-> files[s].token,
                                                     folder |-> NoFile, default |-> FALSE,
                                                     flagRead |-> TRUE]]
    /\ UNCHANGED <<files, accounts, grant, issued, errors, fresh>>

ReadFolder(p) ==
    /\ loads[p].pc = "folder"
    /\ \E s \in Sub :
         /\ IsNext(p, s)
         /\ loads' = [loads EXCEPT ![p] = IF files[s].folder = Empty THEN Load("failed")
                                          ELSE [@ EXCEPT !.pc = "default",
                                                         !.acc.folder = files[s].folder]]
    /\ UNCHANGED <<files, accounts, grant, issued, errors, fresh>>

\* (Mutation of ReadDefault: the flag is taken from the account in memory.)
BugKeepsOldDefault(p) ==
    /\ loads[p].pc = "default"
    /\ \E s \in Sub :
         /\ IsNext(p, s)
         /\ loads' = [loads EXCEPT ![p].pc = "userinfo",
                                   ![p].acc.default = IF accounts[s] = NoAccount
                                                        THEN files[s].default
                                                        ELSE accounts[s].default]
    /\ UNCHANGED <<files, accounts, grant, issued, errors, fresh>>

ReadDefault(p) ==
    /\ loads[p].pc = "default"
    /\ \E s \in Sub :
         /\ IsNext(p, s)
         /\ loads' = [loads EXCEPT ![p].pc = "userinfo", ![p].acc.default = files[s].default]
    /\ UNCHANGED <<files, accounts, grant, issued, errors, fresh>>

\* os.Stat fails for whatever reason: the user is taken not to be the default.
ReadDefaultFails(p) ==
    /\ loads[p].pc = "default"
    /\ Fails
    /\ loads' = [loads EXCEPT ![p].pc = "userinfo", ![p].acc.default = FALSE,
                              ![p].acc.flagRead = FALSE]
    /\ UNCHANGED <<files, accounts, grant, issued, fresh>>

\* Google answers while one of the two tokens is good, and may refuse once the
\* refresh token is revoked, as the access token expires.
Userinfo(p) ==
    /\ loads[p].pc = "userinfo"
    /\ \E s \in Sub :
         /\ IsNext(p, s)
         /\ grant[s] \in {loads[p].acc.token.access, loads[p].acc.token.refresh} \ {0}
         /\ loads' = [loads EXCEPT ![p].pc = "token", ![p].acc = NoAccount,
                                   ![p].todo = @ \ {s}, ![p].built[s] = loads[p].acc]
    /\ UNCHANGED <<files, accounts, grant, issued, errors, fresh>>

UserinfoRefused(p) ==
    /\ loads[p].pc = "userinfo"
    /\ \E s \in Sub : IsNext(p, s) /\ grant[s] # loads[p].acc.token.refresh
    /\ loads' = [loads EXCEPT ![p] = Load("failed")]
    /\ UNCHANGED <<files, accounts, grant, issued, errors, fresh>>

\* Any other error of the disk or of Google: nothing has changed.
LoadFails(p) ==
    /\ loads[p].pc \in {"list", "token", "folder", "userinfo"}
    /\ Fails
    /\ loads' = [loads EXCEPT ![p] = Load("failed")]
    /\ UNCHANGED <<files, accounts, grant, issued, fresh>>

Install(p) ==
    /\ loads[p].pc = "token"
    /\ loads[p].todo = {}
    /\ accounts' = loads[p].built
    /\ fresh' = loads[p].clean
    /\ loads' = [loads EXCEPT ![p] = Load("ok")]
    /\ UNCHANGED <<files, grant, issued, errors>>

LoadStep(p) ==
    \/ ListUsers(p) \/ ReadToken(p) \/ ReadFolder(p)
    \/ ReadDefault(p) \/ ReadDefaultFails(p)
    \/ Userinfo(p) \/ UserinfoRefused(p) \/ LoadFails(p)

-----------------------------------------------------------------------------
(* What the disk says. *)

Loaded(s) ==
    IF files[s].token \in Token
      THEN [token |-> files[s].token, folder |-> files[s].folder, default |-> files[s].default,
            flagRead |-> TRUE]
      ELSE NoAccount

\* The account a is what the disk says of s, but for an is_default that could not
\* be looked at.
Shows(a, s) ==
    \/ a = Loaded(s)
    \/ /\ files[s].token \in Token
       /\ a = [token |-> files[s].token, folder |-> files[s].folder, default |-> FALSE,
               flagRead |-> FALSE]

StoreTypeOK ==
    /\ files \in [Sub -> UserFiles]
    /\ accounts \in Accounts
    /\ loads \in [Process -> LoadState]
    /\ grant \in [Sub -> 0..MaxGrants]
    /\ issued \in [Sub -> 0..MaxGrants]
    /\ errors \in 0..MaxErrors
    /\ fresh \in BOOLEAN
=============================================================================
