----------------------------- MODULE WebUIProofs ----------------------------
(***************************************************************************)
(* Proofs about WebUI, for all users, folders, handlers and bounds.        *)
(***************************************************************************)
EXTENDS WebUI, TLAPS

-----------------------------------------------------------------------------
(* Types.  Of an account that is read, the token is known first; a login   *)
(* writes a token.                                                         *)

AccountRead ==
    \A p \in Process :
        loads[p].pc \in {"folder", "default", "userinfo"} => loads[p].acc \in Account

LoginToken ==
    \A h \in Handler :
        /\ reqs[h].pc = "merge" => reqs[h].kind = "login"
        /\ reqs[h].kind = "login" => reqs[h].token \in Token /\ reqs[h].sub \in Sub

\* The users that a request for a new default still has to write are in the map
\* it has fetched, as long as that is the map in use.
MapInUse ==
    \A h \in Handler : reqs[h].current => \A s \in reqs[h].todo : accounts[s] # NoAccount

TypeInv == TypeOK /\ AccountRead /\ LoginToken /\ MapInUse

LoadsInv == loads \in [Process -> LoadState] /\ AccountRead

LEMMA NotAnAccount == NoAccount \notin Account
<1>1. \A a \in Account :
        a \in [token : Token, folder : Folder \cup {NoFile, Empty}, default : BOOLEAN,
              flagRead : BOOLEAN]
  BY DEF Account
<1>2. QED
  BY <1>1, NothingAssumption

LEMMA LoadType ==
    ASSUME NEW pc \in {"no", "list", "token", "ok", "failed"}
    PROVE  /\ Load(pc) \in LoadState
           /\ Load(pc).pc = pc /\ Load(pc).clean /\ Load(pc).todo = {}
           /\ Load(pc).acc = NoAccount /\ Load(pc).built = NoAccounts
BY DEF Load, LoadState, NoAccounts, Accounts

LEMMA LoadSet ==
    ASSUME TypeInv, NEW p \in Process, NEW x \in LoadState,
           x.pc \in {"folder", "default", "userinfo"} => x.acc \in Account,
           loads' = [loads EXCEPT ![p] = x]
    PROVE  loads' \in [Process -> LoadState] /\ AccountRead'
BY DEF TypeInv, TypeOK, StoreTypeOK, AccountRead

\* Until it installs what it has read, an update changes nothing that others see.
LEMMA LoadStepFrame ==
    ASSUME NEW p \in Process, LoadStep(p)
    PROVE  UNCHANGED <<files, accounts, grant, issued, fresh>>
<1>1. CASE ListUsers(p) \/ ReadToken(p)
  BY <1>1, Zenon DEF ListUsers, ReadToken
<1>2. CASE ReadFolder(p) \/ ReadDefault(p) \/ ReadDefaultFails(p)
  BY <1>2, Zenon DEF ReadFolder, ReadDefault, ReadDefaultFails
<1>3. CASE Userinfo(p) \/ UserinfoRefused(p) \/ LoadFails(p)
  BY <1>3, Zenon DEF Userinfo, UserinfoRefused, LoadFails
<1>4. QED
  BY <1>1, <1>2, <1>3 DEF LoadStep

\* An update reads into its own state and nothing else.
LEMMA LoadStepType ==
    ASSUME NEW p \in Process, TypeInv, LoadStep(p)
    PROVE  loads' \in [Process -> LoadState] /\ AccountRead' /\ errors' \in 0..MaxErrors
<1> USE DEF TypeInv, TypeOK, StoreTypeOK
<1>0. loads[p] \in LoadState
  OBVIOUS
<1>1. CASE ListUsers(p)
  BY <1>1, LoadType DEF ListUsers, AccountRead, Load, LoadState, NoAccounts, Accounts
<1>2. CASE ReadToken(p)
  <2>1. PICK s \in Sub :
          \/ loads' = [loads EXCEPT ![p].todo = @ \ {s}]
          \/ loads' = [loads EXCEPT ![p] = Load("failed")]
          \/ /\ files[s].token \in Token
             /\ loads' = [loads EXCEPT ![p].pc = "folder",
                                       ![p].acc = [token |-> files[s].token,
                                                   folder |-> NoFile, default |-> FALSE,
                                                   flagRead |-> TRUE]]
    BY <1>2 DEF ReadToken
  <2>2. CASE loads' = [loads EXCEPT ![p].todo = @ \ {s}]
    <3> DEFINE x == [loads[p] EXCEPT !.todo = @ \ {s}]
    <3>1. x \in LoadState /\ x.pc = loads[p].pc /\ x.acc = loads[p].acc
      BY <1>0 DEF LoadState
    <3>2. QED
      BY <1>2, <2>2, <3>1, LoadSet DEF AccountRead, ReadToken
  <2>3. CASE loads' = [loads EXCEPT ![p] = Load("failed")]
    BY <1>2, <2>3, LoadType, LoadSet DEF ReadToken
  <2>4. CASE /\ files[s].token \in Token
             /\ loads' = [loads EXCEPT ![p].pc = "folder",
                                       ![p].acc = [token |-> files[s].token,
                                                   folder |-> NoFile, default |-> FALSE,
                                                   flagRead |-> TRUE]]
    <3> DEFINE a == [token |-> files[s].token, folder |-> NoFile, default |-> FALSE,
                     flagRead |-> TRUE]
               x == [loads[p] EXCEPT !.pc = "folder", !.acc = a]
    <3>1. a \in Account
      BY <2>4 DEF Account
    <3>2. x \in LoadState /\ x.acc = a
      BY <1>0, <3>1 DEF LoadState
    <3>3. loads' = [loads EXCEPT ![p] = x]
      BY <1>0, <2>4 DEF LoadState
    <3>4. QED
      BY <1>2, <3>1, <3>2, <3>3, LoadSet DEF ReadToken
  <2>5. QED
    BY <2>1, <2>2, <2>3, <2>4
<1>3. CASE ReadFolder(p)
  <2>1. PICK s \in Sub :
          loads' = [loads EXCEPT ![p] = IF files[s].folder = Empty THEN Load("failed")
                                          ELSE [@ EXCEPT !.pc = "default",
                                                         !.acc.folder = files[s].folder]]
    BY <1>3 DEF ReadFolder
  <2>2. CASE files[s].folder = Empty
    BY <1>3, <2>1, <2>2, LoadType, LoadSet DEF ReadFolder
  <2>3. CASE files[s].folder # Empty
    <3> DEFINE x == [loads[p] EXCEPT !.pc = "default", !.acc.folder = files[s].folder]
    <3>1. loads[p].acc \in Account /\ files[s].folder \in Folder \cup {NoFile}
      BY <1>3, <2>3 DEF ReadFolder, AccountRead, UserFiles
    <3>2. x \in LoadState /\ x.acc \in Account
      BY <1>0, <3>1 DEF LoadState, Account
    <3>3. QED
      BY <1>3, <2>1, <2>3, <3>2, LoadSet DEF ReadFolder
  <2>4. QED
    BY <2>2, <2>3
<1>4. CASE ReadDefault(p)
  <2>1. PICK s \in Sub : loads' = [loads EXCEPT ![p].pc = "userinfo",
                                                ![p].acc.default = files[s].default]
    BY <1>4 DEF ReadDefault
  <2> DEFINE x == [loads[p] EXCEPT !.pc = "userinfo", !.acc.default = files[s].default]
  <2>2. loads[p].acc \in Account /\ files[s].default \in BOOLEAN
    BY <1>4, <2>1 DEF ReadDefault, AccountRead, UserFiles
  <2>3. x \in LoadState /\ x.acc \in Account
    BY <1>0, <2>2 DEF LoadState, Account
  <2>4. loads' = [loads EXCEPT ![p] = x]
    BY <1>0, <2>1 DEF LoadState
  <2>5. QED
    BY <1>4, <2>3, <2>4, LoadSet DEF ReadDefault
<1>5. CASE ReadDefaultFails(p)
  <2> DEFINE x == [loads[p] EXCEPT !.pc = "userinfo", !.acc.default = FALSE,
                                   !.acc.flagRead = FALSE]
  <2>1. loads[p].acc \in Account
    BY <1>5 DEF ReadDefaultFails, AccountRead
  <2>2. x \in LoadState /\ x.acc \in Account
    BY <1>0, <2>1 DEF LoadState, Account
  <2>3. loads' = [loads EXCEPT ![p] = x]
    BY <1>0, <1>5 DEF LoadState, ReadDefaultFails
  <2>4. errors' \in 0..MaxErrors
    BY <1>5, AccountBounds DEF ReadDefaultFails, Fails
  <2>5. QED
    BY <2>2, <2>3, <2>4, LoadSet
<1>6. CASE Userinfo(p)
  BY <1>6 DEF Userinfo, AccountRead, LoadState, Accounts, IsNext
<1>7. CASE UserinfoRefused(p)
  BY <1>7, LoadType DEF UserinfoRefused, AccountRead
<1>8. CASE LoadFails(p)
  BY <1>8, LoadType, AccountBounds DEF LoadFails, Fails, AccountRead
<1>9. QED
  BY <1>1, <1>2, <1>3, <1>4, <1>5, <1>6, <1>7, <1>8 DEF LoadStep

-----------------------------------------------------------------------------
(* Types of the handlers. *)

LoginIsToken(r) ==
    /\ r.pc = "merge" => r.kind = "login"
    /\ r.kind = "login" => r.token \in Token /\ r.sub \in Sub

ReqsInv == reqs \in [Handler -> Request] /\ LoginToken

LEMMA IdleType ==
    /\ Idle \in Request /\ LoginIsToken(Idle)
    /\ Idle.pc = "idle" /\ Idle.kind = "none" /\ Idle.current = FALSE
    /\ Idle.token = [access |-> 0, refresh |-> 0]
BY AccountBounds DEF Idle, Request, LoginIsToken, RawToken

LEMMA StartType ==
    ASSUME ReqsInv, NEW h \in Handler, NEW r \in Request, LoginIsToken(r), Start(h, r),
           requests \in 0..MaxRequests
    PROVE  ReqsInv' /\ requests' \in 0..MaxRequests
<1> DEFINE R(g) == IF g = h THEN IF r = Idle THEN Idle ELSE [r EXCEPT !.alone = (Busy = {})]
                   ELSE IF g \in Busy THEN [reqs[g] EXCEPT !.alone = FALSE] ELSE Idle
<1>1. reqs' = [g \in Handler |-> R(g)]
  BY DEF Start
<1>2. \A g \in Handler : R(g) \in Request /\ LoginIsToken(R(g))
  <2> SUFFICES ASSUME NEW g \in Handler PROVE R(g) \in Request /\ LoginIsToken(R(g))
    OBVIOUS
  <2>1. CASE g = h
    <3>1. \A b \in BOOLEAN : LET q == [r EXCEPT !.alone = b] IN q \in Request /\ LoginIsToken(q)
      BY DEF LoginIsToken, Request
    <3>2. (Busy = {}) \in BOOLEAN
      OBVIOUS
    <3>3. QED
      BY <2>1, <3>1, <3>2, IdleType
  <2>2. CASE g # h
    BY <2>2, IdleType DEF LoginIsToken, Request, ReqsInv, LoginToken
  <2>3. QED
    BY <2>1, <2>2
<1>3. requests' \in 0..MaxRequests
  BY WebBounds DEF Start
<1> HIDE DEF R
<1>4. QED
  BY <1>1, <1>2, <1>3 DEF ReqsInv, LoginToken, LoginIsToken

\* A request that starts without a map, or with that of the accounts in use.
LEMMA StartMap ==
    ASSUME TypeInv, NEW h \in Handler, NEW r \in Request, Start(h, r), accounts' = accounts,
           r.current => r.todo = LoggedIn
    PROVE  MapInUse'
<1>1. Idle.current = FALSE
  BY DEF Idle
<1>2. [r EXCEPT !.alone = (Busy = {})].current = r.current
      /\ [r EXCEPT !.alone = (Busy = {})].todo = r.todo
  BY DEF Request
<1>3. ASSUME NEW g \in Handler, reqs'[g].current
      PROVE  \A s \in reqs'[g].todo : accounts[s] # NoAccount
  <2>1. CASE g = h
    BY <1>1, <1>2, <1>3, <2>1 DEF Start, LoggedIn
  <2>2. CASE g # h
    BY <1>1, <1>3, <2>2 DEF Start, TypeInv, TypeOK, Request, MapInUse
  <2>3. QED
    BY <2>1, <2>2
<1>4. QED
  BY <1>3 DEF MapInUse

LEMMA BecomeType ==
    ASSUME ReqsInv, NEW h \in Handler, NEW pc \in {"write", "update", "revoke"}, Become(h, pc)
    PROVE  ReqsInv'
BY DEF Become, ReqsInv, Request, LoginToken

LEMMA ReturnType ==
    ASSUME ReqsInv, NEW h \in Handler, Return(h)
    PROVE  ReqsInv'
BY IdleType DEF Return, ReqsInv, LoginToken, LoginIsToken

\* What a write does to the updates that are under way.
LEMMA WriteType ==
    ASSUME LoadsInv, NEW newFiles, Write(newFiles)
    PROVE  LoadsInv'
BY DEF Write, LoadsInv, AccountRead, LoadState

LEMMA WriteAndUpdateType ==
    ASSUME LoadsInv, ReqsInv, NEW h \in Handler, NEW newFiles, WriteAndUpdate(h, newFiles)
    PROVE  LoadsInv' /\ ReqsInv'
<1>1. ReqsInv'
  BY BecomeType DEF WriteAndUpdate
<1> DEFINE L(p) == IF p = h THEN Load("list") ELSE [loads[p] EXCEPT !.clean = FALSE]
<1>2. \A p \in Process : /\ L(p) \in LoadState
                         /\ L(p).pc \in {"folder", "default", "userinfo"} => L(p).acc \in Account
  BY LoadType DEF LoadsInv, AccountRead, LoadState
<1>3. loads' = [p \in Process |-> L(p)]
  BY DEF WriteAndUpdate
<1> HIDE DEF L
<1>4. QED
  BY <1>1, <1>2, <1>3 DEF LoadsInv, AccountRead

LEMMA WithType ==
    ASSUME files \in [Sub -> UserFiles], NEW h \in Handler,
           NEW token \in Token \cup {Empty}, NEW folder \in Folder \cup {NoFile, Empty}
    PROVE  With(h, token, folder) \in [Sub -> UserFiles]
BY DEF With, UserFiles

\* A folder request never writes its token.
LEMMA WithFolderType ==
    ASSUME files \in [Sub -> UserFiles], NEW h \in Handler, reqs[h].kind # "login",
           NEW token, NEW folder \in Folder \cup {NoFile, Empty}
    PROVE  With(h, token, folder) \in [Sub -> UserFiles]
BY DEF With, UserFiles

-----------------------------------------------------------------------------
(* Each step of a handler keeps the types. *)

LEMMA IssueType ==
    ASSUME TypeInv, NEW s \in Sub, Issue(s)
    PROVE  /\ grant' \in [Sub -> 0..MaxGrants] /\ issued' \in [Sub -> 0..MaxGrants]
           /\ issued[s] + 1 \in 1..MaxGrants
BY AccountBounds DEF TypeInv, TypeOK, StoreTypeOK, Issue

LEMMA LoginRequestType ==
    ASSUME NEW s \in Sub, NEW t \in Token
    PROVE  /\ LoginRequest(s, t) \in Request /\ LoginIsToken(LoginRequest(s, t))
           /\ LoginRequest(s, t).current = FALSE
<1> DEFINE r(pc) == [Idle EXCEPT !.kind = "login", !.sub = s, !.token = t, !.pc = pc]
<1>1. t \in RawToken
  BY AccountBounds DEF Token, RawToken
<1>2. \A pc \in {"merge", "truncate"} : /\ r(pc) \in Request /\ LoginIsToken(r(pc))
                                    /\ r(pc).current = FALSE
  BY <1>1, IdleType DEF Request, LoginIsToken
<1>3. LoginRequest(s, t) = r(IF t.refresh = 0 THEN "merge" ELSE "truncate")
  BY Zenon DEF LoginRequest
<1>4. (IF t.refresh = 0 THEN "merge" ELSE "truncate") \in {"merge", "truncate"}
  OBVIOUS
<1> HIDE DEF r
<1>5. QED
  BY <1>2, <1>3, <1>4, Zenon

LEMMA LoginType ==
    ASSUME TypeInv, NEW h \in Handler, Login(h)
    PROVE  TypeInv'
<1> USE DEF TypeInv, TypeOK, StoreTypeOK
<1>0. ReqsInv
  BY DEF ReqsInv
<1>1. PICK s \in Sub :
        /\ sessions' = sessions \cup {s}
        /\ \/ /\ Issue(s)
              /\ Start(h, LoginRequest(s, FirstToken(issued[s] + 1)))
           \/ /\ grant[s] # 0
              /\ Start(h, LoginRequest(s, [access |-> grant[s], refresh |-> 0]))
              /\ SameGoogle
  BY DEF Login
<1>2. ReqsInv' /\ MapInUse' /\ requests' \in 0..MaxRequests
      /\ grant' \in [Sub -> 0..MaxGrants] /\ issued' \in [Sub -> 0..MaxGrants]
  <2>1. CASE Issue(s) /\ Start(h, LoginRequest(s, FirstToken(issued[s] + 1)))
    <3>1. FirstToken(issued[s] + 1) \in Token
      BY <2>1, IssueType, AccountBounds DEF FirstToken, Token
    <3>2. QED
      BY <1>0, <2>1, <3>1, IssueType, LoginRequestType, StartType, StartMap DEF Login, SameStore
  <2>2. CASE /\ grant[s] # 0
             /\ Start(h, LoginRequest(s, [access |-> grant[s], refresh |-> 0]))
             /\ SameGoogle
    <3>1. [access |-> grant[s], refresh |-> 0] \in Token
      BY <2>2, AccountBounds DEF Token
    <3>2. QED
      BY <1>0, <2>2, <3>1, LoginRequestType, StartType, StartMap DEF Login, SameStore, SameGoogle
  <2>3. QED
    BY <1>1, <2>1, <2>2
<1>3. QED
  BY <1>1, <1>2 DEF Login, SameStore, ReqsInv, AccountRead

LEMMA LoginMergeType ==
    ASSUME TypeInv, NEW h \in Handler, LoginMerge(h)
    PROVE  TypeOK' /\ AccountRead' /\ LoginToken'
<1> USE DEF TypeInv, TypeOK, StoreTypeOK
<1> DEFINE s == reqs[h].sub
<1>1. ReqsInv /\ s \in Sub /\ reqs[h].kind = "login" /\ reqs[h].token \in Token
  BY DEF ReqsInv, LoginToken, LoginMerge
<1>2. ReqsInv'
  <2>1. CASE accounts[s] = NoAccount
    BY <1>1, <2>1, ReturnType DEF LoginMerge
  <2>2. CASE accounts[s] # NoAccount
    <3> DEFINE t == Merged(reqs[h].token, accounts[s].token)
               r == [pc |-> "truncate", kind |-> "login", sub |-> s, token |-> t,
                     folder |-> reqs[h].folder, users |-> reqs[h].users,
                     todo |-> reqs[h].todo, current |-> reqs[h].current,
                     alone |-> reqs[h].alone]
    <3>1. t \in Token
      BY <1>1, <2>2 DEF Merged, Token, Accounts, Account
    <3>2. r \in Request
      BY <1>1, <3>1, AccountBounds DEF Request, Token, RawToken
    <3>3. reqs' = [reqs EXCEPT ![h] = r]
      BY <1>1, <2>2 DEF LoginMerge, Request
    <3>4. QED
      BY <1>1, <3>1, <3>2, <3>3 DEF ReqsInv, LoginToken
  <2>3. QED
    BY <2>1, <2>2
<1>3. QED
  BY <1>2 DEF LoginMerge, SameStore, SameGoogle, Steady, ReqsInv, AccountRead

LEMMA WriteContentType ==
    ASSUME TypeInv, NEW h \in Handler, WriteContent(h)
    PROVE  TypeOK' /\ AccountRead' /\ LoginToken'
<1> USE DEF TypeInv, TypeOK, StoreTypeOK
<1>1. LoadsInv' /\ ReqsInv'
  BY WriteAndUpdateType DEF WriteContent, LoadsInv, ReqsInv
<1>2. files' \in [Sub -> UserFiles]
  <2>1. files' = With(h, reqs[h].token, reqs[h].folder) /\ reqs[h].folder \in Folder \cup {NoFile}
    BY DEF WriteContent, WriteAndUpdate, Request
  <2>2. CASE reqs[h].kind = "login"
    BY <2>1, <2>2, WithType DEF LoginToken
  <2>3. CASE reqs[h].kind # "login"
    BY <2>1, <2>3, WithFolderType
  <2>4. QED
    BY <2>2, <2>3
<1>3. QED
  BY <1>1, <1>2 DEF WriteContent, WriteAndUpdate, SameGoogle, Steady, ReqsInv, LoadsInv

\* A default that could not be written leaves the flag of one user as it was, or creates it.
LEMMA FlagWritten ==
    ASSUME files \in [Sub -> UserFiles], reqs \in [Handler -> Request],
           NEW h \in Handler, WriteDefaultFails(h)
    PROVE  \E s \in reqs[h].todo, b \in BOOLEAN :
              SetDefault(h, s) /\ Write([files EXCEPT ![s].default = b])
<1>1. PICK s \in reqs[h].todo :
        /\ SetDefault(h, s)
        /\ \E b \in {files[s].default, files[s].default \/ s = reqs[h].sub} :
             Write([files EXCEPT ![s].default = b])
  BY Zenon DEF WriteDefaultFails
<1>2. s \in Sub
  BY DEF Request
<1>3. files[s].default \in BOOLEAN /\ (files[s].default \/ s = reqs[h].sub) \in BOOLEAN
  BY <1>2 DEF UserFiles
<1>4. QED
  BY <1>1, <1>3, Zenon

LEMMA WriteDefaultType ==
    ASSUME TypeInv, NEW h \in Handler, WriteDefault(h) \/ WriteDefaultFails(h)
    PROVE  TypeOK' /\ AccountRead' /\ LoginToken'
<1> USE DEF TypeInv, TypeOK, StoreTypeOK
<1>1. ASSUME NEW s \in reqs[h].todo, SetDefault(h, s)
      PROVE  accounts' \in Accounts
  <2>1. s \in Sub
    BY DEF Request
  <2>2. CASE reqs[h].current
    <3>1. accounts[s] \in Account
      BY <2>1, <2>2 DEF MapInUse, Accounts
    <3>2. \A b \in BOOLEAN : [accounts EXCEPT ![s].default = b] \in Accounts
      BY <3>1 DEF Accounts, Account
    <3>3. (s = reqs[h].sub) \in BOOLEAN
      OBVIOUS
    <3>4. accounts' = [accounts EXCEPT ![s].default = (s = reqs[h].sub)]
      BY <1>1, <2>2 DEF SetDefault
    <3>5. QED
      BY <3>2, <3>3, <3>4, Zenon
  <2>3. CASE ~reqs[h].current
    BY <1>1, <2>3 DEF SetDefault
  <2>4. QED
    BY <2>2, <2>3
<1>flag. ASSUME NEW s \in Sub, NEW b \in BOOLEAN, Write([files EXCEPT ![s].default = b])
         PROVE  files' \in [Sub -> UserFiles] /\ fresh' = FALSE /\ LoadsInv'
  <2>1. [files EXCEPT ![s].default = b] \in [Sub -> UserFiles]
    BY DEF UserFiles
  <2>2. files' = [files EXCEPT ![s].default = b] /\ fresh' = FALSE
    BY <1>flag, Zenon DEF Write
  <2>3. LoadsInv'
    BY <1>flag, WriteType DEF LoadsInv
  <2>4. QED
    BY <2>1, <2>2, <2>3, Zenon
<1>2. CASE WriteDefault(h)
  <2>1. PICK s \in reqs[h].todo :
          /\ SetDefault(h, s)
          /\ Write([files EXCEPT ![s].default = (s = reqs[h].sub)])
          /\ reqs' = [reqs EXCEPT ![h].todo = @ \ {s}]
    BY <1>2 DEF WriteDefault
  <2>2. accounts' \in Accounts
    BY <1>1, <2>1
  <2>3. s \in Sub /\ (s = reqs[h].sub) \in BOOLEAN
    BY DEF Request
  <2>4. files' \in [Sub -> UserFiles] /\ fresh' = FALSE /\ LoadsInv'
    BY <1>flag, <2>1, <2>3, Zenon
  <2>5. ReqsInv'
    <3>1. reqs' = [reqs EXCEPT ![h].todo = @ \ {s}]
      BY <2>1, Zenon
    <3>2. QED
      BY <3>1 DEF ReqsInv, Request, LoginToken
  <2>6. QED
    BY <1>2, <2>2, <2>4, <2>5 DEF WriteDefault, SameGoogle, Steady, LoadsInv, ReqsInv
<1>3. CASE WriteDefaultFails(h)
  <2>1. PICK s \in reqs[h].todo, b \in BOOLEAN :
          SetDefault(h, s) /\ Write([files EXCEPT ![s].default = b])
    BY <1>3, FlagWritten
  <2>2. accounts' \in Accounts
    BY <1>1, <2>1
  <2>3. ReqsInv'
    BY <1>3, ReturnType DEF WriteDefaultFails, ReqsInv
  <2>4. errors' \in 0..MaxErrors
    BY <1>3, AccountBounds DEF WriteDefaultFails, Fails
  <2>5. s \in Sub
    BY DEF Request
  <2>6. files' \in [Sub -> UserFiles] /\ fresh' = FALSE /\ LoadsInv'
    BY <1>flag, <2>1, <2>5, Zenon
  <2>7. QED
    BY <1>3, <2>2, <2>3, <2>4, <2>6 DEF WriteDefaultFails, SameGoogle, Steady, LoadsInv, ReqsInv
<1>4. QED
  BY <1>2, <1>3

\* What the other handlers know after their first step.
LEMMA StartedRequest ==
    ASSUME TypeInv, NEW h \in Handler,
           SignOut(h) \/ StoreDriveFolder(h) \/ StoreDefaultUser(h) \/ LoginFails(h)
    PROVE  \E r \in Request : /\ Start(h, r)
                              /\ r.kind # "login" /\ r.pc # "merge"
                              /\ r.current => r.todo = LoggedIn
<1> USE DEF TypeInv, TypeOK, StoreTypeOK
<1>1. CASE SignOut(h)
  <2> DEFINE r(s, t) == [Idle EXCEPT !.pc = "remove", !.kind = "signout", !.sub = s, !.token = t]
  <2>1. \A s \in Sub, t \in RawToken : /\ r(s, t) \in Request /\ r(s, t).current = FALSE
                                       /\ r(s, t).kind # "login" /\ r(s, t).pc # "merge"
    BY IdleType DEF Request
  <2>2. PICK s \in sessions :
          Start(h, r(s, IF accounts[s] = NoAccount THEN Idle.token ELSE accounts[s].token))
    BY <1>1 DEF SignOut
  <2>3. (IF accounts[s] = NoAccount THEN Idle.token ELSE accounts[s].token) \in RawToken
    BY <2>2, AccountBounds DEF Idle, RawToken, Accounts, Account, Token
  <2> HIDE DEF r
  <2>4. QED
    BY <2>1, <2>2, <2>3
<1>2. CASE StoreDriveFolder(h)
  <2> DEFINE r(s, f) == [Idle EXCEPT !.pc = "truncate", !.kind = "folder", !.sub = s, !.folder = f]
  <2>1. \A s \in Sub, f \in Folder : /\ r(s, f) \in Request /\ r(s, f).current = FALSE
                                     /\ r(s, f).kind # "login" /\ r(s, f).pc # "merge"
    BY IdleType DEF Request
  <2>2. PICK s \in sessions, f \in Folder : Start(h, r(s, f))
    BY <1>2 DEF StoreDriveFolder
  <2> HIDE DEF r
  <2>3. QED
    BY <2>1, <2>2
<1>3. CASE StoreDefaultUser(h)
  <2> DEFINE r(s, users) == [Idle EXCEPT !.pc = "default", !.kind = "default", !.sub = s,
                                         !.users = users, !.todo = users, !.current = TRUE]
  <2>1. \A s \in Sub, users \in SUBSET Sub :
          /\ r(s, users) \in Request /\ r(s, users).todo = users
          /\ r(s, users).kind # "login" /\ r(s, users).pc # "merge"
    BY IdleType DEF Request
  <2>2. PICK s \in Sub : Start(h, r(s, LoggedIn))
    BY <1>3 DEF StoreDefaultUser
  <2>3. LoggedIn \in SUBSET Sub
    BY DEF LoggedIn
  <2> HIDE DEF r
  <2>4. QED
    BY <2>1, <2>2, <2>3
<1>4. CASE LoginFails(h)
  BY <1>4, IdleType DEF LoginFails
<1>5. QED
  BY <1>1, <1>2, <1>3, <1>4

LEMMA StartedType ==
    ASSUME TypeInv, NEW h \in Handler,
           SignOut(h) \/ StoreDriveFolder(h) \/ StoreDefaultUser(h) \/ LoginFails(h)
    PROVE  TypeInv'
<1> USE DEF TypeInv, TypeOK, StoreTypeOK
<1>1. SameStore /\ UNCHANGED <<up, crashes>> /\ sessions' = sessions
  BY DEF SignOut, StoreDriveFolder, StoreDefaultUser, LoginFails
<1>2. ReqsInv' /\ MapInUse' /\ requests' \in 0..MaxRequests
  BY <1>1, StartedRequest, StartType, StartMap DEF ReqsInv, LoginIsToken, SameStore
<1>3. grant' \in [Sub -> 0..MaxGrants] /\ issued' \in [Sub -> 0..MaxGrants]
  BY IssueType DEF SignOut, StoreDriveFolder, StoreDefaultUser, LoginFails, SameGoogle
<1>4. errors' \in 0..MaxErrors
  <2>1. Fails \/ errors' = errors
    BY DEF SignOut, StoreDriveFolder, StoreDefaultUser, LoginFails
  <2>2. QED
    BY <2>1, AccountBounds DEF Fails
<1>5. QED
  BY <1>1, <1>2, <1>3, <1>4 DEF SameStore, ReqsInv, AccountRead

LEMMA TruncateType ==
    ASSUME TypeInv, NEW h \in Handler, Truncate(h)
    PROVE  TypeOK' /\ AccountRead' /\ LoginToken'
<1> USE DEF TypeInv, TypeOK, StoreTypeOK
<1>1. Write(With(h, Empty, Empty)) /\ Become(h, "write")
  BY DEF Truncate
<1>2. LoadsInv' /\ ReqsInv'
  BY <1>1, WriteType, BecomeType DEF LoadsInv, ReqsInv
<1>3. files' \in [Sub -> UserFiles] /\ fresh' = FALSE
  BY <1>1, WithType DEF Write
<1>4. QED
  BY <1>2, <1>3 DEF Truncate, SameGoogle, Steady, ReqsInv, LoadsInv

LEMMA RemoveTokenType ==
    ASSUME TypeInv, NEW h \in Handler, RemoveToken(h)
    PROVE  TypeOK' /\ AccountRead' /\ LoginToken'
<1> USE DEF TypeInv, TypeOK, StoreTypeOK
<1> DEFINE removed == [files EXCEPT ![reqs[h].sub].token = NoFile]
<1>1. WriteAndUpdate(h, removed)
  BY DEF RemoveToken
<1>2. removed \in [Sub -> UserFiles]
  BY DEF UserFiles
<1> HIDE DEF removed
<1>3. LoadsInv' /\ ReqsInv'
  BY <1>1, WriteAndUpdateType DEF LoadsInv, ReqsInv
<1>4. QED
  BY <1>1, <1>2, <1>3
     DEF RemoveToken, WriteAndUpdate, SameGoogle, Steady, ReqsInv, LoadsInv

\* The steps that only end a request, or hand it over to an update.
LEMMA ReturnedType ==
    ASSUME TypeInv, NEW h \in Handler,
           \/ WriteFails(h) \/ RemoveTokenMissing(h) \/ Revoke(h) \/ RevokeFails(h)
           \/ DefaultsWritten(h) \/ Updated(h)
    PROVE  TypeOK' /\ AccountRead' /\ LoginToken'
<1> USE DEF TypeInv, TypeOK, StoreTypeOK
<1>0. ReqsInv
  BY DEF ReqsInv
<1>1. CASE WriteFails(h) \/ RevokeFails(h)
  <2>1. ReqsInv' /\ errors' \in 0..MaxErrors
    BY <1>0, <1>1, ReturnType, AccountBounds DEF WriteFails, RevokeFails, Fails
  <2>2. QED
    BY <1>1, <2>1 DEF WriteFails, RevokeFails, SameStore, SameGoogle, Steady, ReqsInv, AccountRead
<1>2. CASE RemoveTokenMissing(h)
  BY <1>0, <1>2, ReturnType
     DEF RemoveTokenMissing, SameStore, SameGoogle, Steady, ReqsInv, AccountRead
<1>3. CASE Revoke(h)
  <2>1. ReqsInv'
    BY <1>0, <1>3, ReturnType DEF Revoke
  <2>2. grant' \in [Sub -> 0..MaxGrants]
    <3>1. grant' = [grant EXCEPT ![reqs[h].sub] =
                                   IF @ = reqs[h].token.refresh THEN 0 ELSE @]
      BY <1>3 DEF Revoke
    <3>2. \A s \in Sub : grant'[s] \in {0, grant[s]}
      BY <3>1
    <3>3. grant' = [s \in Sub |-> grant'[s]]
      BY <3>1
    <3>4. QED
      BY <3>2, <3>3, AccountBounds
  <2>3. QED
    BY <1>3, <2>1, <2>2 DEF Revoke, SameStore, Steady, ReqsInv, AccountRead
<1>4. CASE DefaultsWritten(h)
  <2>1. ReqsInv'
    BY <1>0, <1>4, BecomeType DEF DefaultsWritten
  <2>2. LoadsInv'
    BY <1>4, LoadType, LoadSet DEF DefaultsWritten, LoadsInv, Process
  <2>3. QED
    BY <1>4, <2>1, <2>2 DEF DefaultsWritten, SameGoogle, Steady, ReqsInv, LoadsInv
<1>5. CASE Updated(h)
  <2>1. ReqsInv'
    BY <1>0, <1>5, BecomeType, ReturnType DEF Updated
  <2>2. LoadsInv'
    BY <1>5, LoadType, LoadSet DEF Updated, LoadsInv, Process
  <2>3. QED
    BY <1>5, <2>1, <2>2 DEF Updated, SameGoogle, Steady, ReqsInv, LoadsInv
<1>6. QED
  BY <1>1, <1>2, <1>3, <1>4, <1>5

-----------------------------------------------------------------------------
(* The users that a request still has to write stay in the map. *)

LEMMA MapFrame ==
    ASSUME MapInUse,
           \A h \in Handler : reqs'[h].current => /\ reqs[h].current
                                                  /\ reqs'[h].todo \subseteq reqs[h].todo,
           \A h \in Handler : reqs[h].todo \subseteq Sub,
           \A s \in Sub : accounts[s] # NoAccount => accounts'[s] # NoAccount
    PROVE  MapInUse'
BY DEF MapInUse

LEMMA HandlerMap ==
    ASSUME TypeInv, NEW h \in Handler,
           \/ LoginMerge(h) \/ Truncate(h) \/ WriteContent(h) \/ WriteFails(h)
           \/ RemoveToken(h) \/ RemoveTokenMissing(h) \/ Revoke(h) \/ RevokeFails(h)
           \/ WriteDefault(h) \/ WriteDefaultFails(h) \/ DefaultsWritten(h) \/ Updated(h)
    PROVE  MapInUse'
<1>0. /\ reqs \in [Handler -> Request] /\ accounts \in Accounts /\ MapInUse
      /\ \A g \in Handler : reqs[g].todo \subseteq Sub /\ reqs[g].current \in BOOLEAN
  BY DEF TypeInv, TypeOK, StoreTypeOK, Request
<1>1. ASSUME NEW pc, Become(h, pc), accounts' = accounts
      PROVE  MapInUse'
  BY <1>0, <1>1, MapFrame DEF Become, Request
<1>2. ASSUME Return(h), \A s \in Sub : accounts[s] # NoAccount => accounts'[s] # NoAccount
      PROVE  MapInUse'
  BY <1>0, <1>2, IdleType, MapFrame DEF Return
<1>3. ASSUME NEW s \in reqs[h].todo, SetDefault(h, s)
      PROVE  \A t \in Sub : accounts[t] # NoAccount => accounts'[t] # NoAccount
  <2>1. CASE reqs[h].current
    <3>1. accounts[s] \in Account /\ s \in Sub
      BY <1>0, <2>1 DEF MapInUse, Accounts
    <3>2. \A b \in BOOLEAN : [accounts[s] EXCEPT !.default = b] \in Account
      BY <3>1 DEF Account
    <3>3. (s = reqs[h].sub) \in BOOLEAN
      OBVIOUS
    <3>4. accounts' = [accounts EXCEPT ![s].default = (s = reqs[h].sub)]
      BY <1>3, <2>1 DEF SetDefault
    <3>5. accounts'[s] \in Account /\ \A t \in Sub \ {s} : accounts'[t] = accounts[t]
      BY <1>0, <3>1, <3>2, <3>3, <3>4 DEF Accounts
    <3>6. QED
      BY <3>5, NotAnAccount
  <2>2. CASE ~reqs[h].current
    BY <1>3, <2>2 DEF SetDefault
  <2>3. QED
    BY <2>1, <2>2
<1>4. CASE LoginMerge(h)
  <2>1. CASE accounts[reqs[h].sub] = NoAccount
    BY <1>2, <1>4, <2>1 DEF LoginMerge, SameStore
  <2>2. CASE accounts[reqs[h].sub] # NoAccount
    <3>1. reqs' = [reqs EXCEPT ![h].pc = "truncate",
                               ![h].token = Merged(@, accounts[reqs[h].sub].token)]
      BY <1>4, <2>2 DEF LoginMerge
    <3>2. QED
      BY <1>0, <1>4, <3>1, MapFrame DEF LoginMerge, SameStore, Request
  <2>3. QED
    BY <2>1, <2>2
<1>5. CASE Truncate(h) \/ WriteContent(h) \/ RemoveToken(h) \/ DefaultsWritten(h)
  BY <1>1, <1>5 DEF Truncate, WriteContent, RemoveToken, DefaultsWritten, WriteAndUpdate
<1>6. CASE \/ WriteFails(h) \/ RemoveTokenMissing(h) \/ Revoke(h) \/ RevokeFails(h)
  BY <1>2, <1>6 DEF WriteFails, RemoveTokenMissing, Revoke, RevokeFails, SameStore
<1>7. CASE Updated(h)
  BY <1>1, <1>2, <1>7 DEF Updated
<1>8. CASE WriteDefault(h)
  <2>1. PICK s \in reqs[h].todo :
          SetDefault(h, s) /\ reqs' = [reqs EXCEPT ![h].todo = @ \ {s}]
    BY <1>8 DEF WriteDefault
  <2>2. \A t \in Sub : accounts[t] # NoAccount => accounts'[t] # NoAccount
    BY <1>3, <2>1
  <2>3. reqs' = [reqs EXCEPT ![h].todo = @ \ {s}]
    BY <2>1
  <2>4. QED
    BY <1>0, <2>2, <2>3, MapFrame DEF Request
<1>9. CASE WriteDefaultFails(h)
  BY <1>2, <1>3, <1>9 DEF WriteDefaultFails
<1>10. QED
  BY <1>4, <1>5, <1>6, <1>7, <1>8, <1>9

-----------------------------------------------------------------------------
(* Type correctness. *)

LEMMA TypeInit == Init => TypeInv
<1> SUFFICES ASSUME Init PROVE TypeInv
  OBVIOUS
<1>1. PICK users \in SUBSET Sub, in \in SUBSET Sub :
        /\ sessions = users
        /\ issued = [s \in Sub |-> IF s \in users /\ MaxGrants > 0 THEN 1 ELSE 0]
        /\ grant = [s \in Sub |-> IF s \in in THEN issued[s] ELSE 0]
        /\ files = [s \in Sub |->
                      [dir |-> s \in users,
                       token |-> IF s \in in /\ MaxGrants > 0 THEN FirstToken(1) ELSE NoFile,
                       folder |-> NoFile, default |-> FALSE]]
  BY DEF Init
<1>2. issued \in [Sub -> 0..MaxGrants] /\ grant \in [Sub -> 0..MaxGrants]
  BY <1>1, AccountBounds
<1>3. files \in [Sub -> UserFiles]
  <2>1. MaxGrants > 0 => FirstToken(1) \in Token
    BY AccountBounds DEF FirstToken, Token
  <2>2. \A s : (s \in users) \in BOOLEAN
    OBVIOUS
  <2>3. \A dir \in BOOLEAN, token \in Token \cup {NoFile} :
          [dir |-> dir, token |-> token, folder |-> NoFile, default |-> FALSE] \in UserFiles
    BY DEF UserFiles
  <2>4. \A s \in Sub :
          (IF s \in in /\ MaxGrants > 0 THEN FirstToken(1) ELSE NoFile) \in Token \cup {NoFile}
    BY <2>1
  <2>5. QED
    BY <1>1, <2>2, <2>3, <2>4, Zenon
<1>4. accounts \in Accounts /\ LoadsInv
  <2>1. loads = [p \in Process |-> Load(IF p = Main THEN "list" ELSE "no")] /\ accounts = NoAccounts
    BY DEF Init
  <2>2. QED
    BY <2>1, LoadType DEF LoadsInv, AccountRead, NoAccounts, Accounts
<1>5. ReqsInv /\ MapInUse
  BY IdleType DEF Init, ReqsInv, LoginToken, LoginIsToken, MapInUse
<1>6. errors \in 0..MaxErrors /\ requests \in 0..MaxRequests /\ crashes \in 0..MaxCrashes
  BY AccountBounds, WebBounds DEF Init
<1>7. fresh \in BOOLEAN /\ up \in BOOLEAN /\ sessions \subseteq Sub
  BY <1>1 DEF Init
<1>8. QED
  BY <1>2, <1>3, <1>4, <1>5, <1>6, <1>7 DEF TypeInv, TypeOK, StoreTypeOK, LoadsInv, ReqsInv

LEMMA RestartType ==
    ASSUME TypeInv, Restart, crashes' \in 0..MaxCrashes
    PROVE  TypeInv'
<1> USE DEF TypeInv, TypeOK, StoreTypeOK
<1>1. loads' = [p \in Process |-> Load(IF p = Main THEN "list" ELSE "no")]
      /\ accounts' = NoAccounts /\ reqs' = [h \in Handler |-> Idle]
  BY DEF Restart
<1>2. accounts' \in Accounts /\ LoadsInv'
  BY <1>1, LoadType DEF LoadsInv, AccountRead, NoAccounts, Accounts
<1>3. ReqsInv' /\ MapInUse'
  BY <1>1, IdleType DEF ReqsInv, LoginToken, LoginIsToken, MapInUse
<1>4. QED
  BY <1>2, <1>3 DEF Restart, SameGoogle, LoadsInv, ReqsInv

LEMMA TypeStep == TypeInv /\ [Next]_vars => TypeInv'
<1> SUFFICES ASSUME TypeInv, [Next]_vars PROVE TypeInv'
  OBVIOUS
<1>1. ASSUME NEW h \in Handler, HandlerStep(h)
      PROVE  TypeInv'
  <2>1. CASE Login(h)
    BY <2>1, LoginType
  <2>2. CASE SignOut(h) \/ StoreDriveFolder(h) \/ StoreDefaultUser(h) \/ LoginFails(h)
    BY <2>2, StartedType
  <2>3. CASE \/ LoginMerge(h) \/ Truncate(h) \/ WriteContent(h) \/ WriteFails(h)
             \/ RemoveToken(h) \/ RemoveTokenMissing(h) \/ Revoke(h) \/ RevokeFails(h)
             \/ WriteDefault(h) \/ WriteDefaultFails(h) \/ DefaultsWritten(h) \/ Updated(h)
    BY <2>3, LoginMergeType, TruncateType, WriteContentType, RemoveTokenType,
       WriteDefaultType, ReturnedType, HandlerMap DEF TypeInv
  <2>4. QED
    BY <1>1, <2>1, <2>2, <2>3 DEF HandlerStep
<1>2. ASSUME NEW p \in Process, Update(p)
      PROVE  TypeInv'
  <2>1. loads' \in [Process -> LoadState] /\ AccountRead' /\ errors' \in 0..MaxErrors
    BY <1>2, LoadStepType DEF Update
  <2>2. UNCHANGED <<files, accounts, grant, issued, fresh, reqs, sessions, up, requests, crashes>>
    BY <1>2, LoadStepFrame DEF Update, Steady
  <2>3. QED
    BY <2>1, <2>2 DEF TypeInv, TypeOK, StoreTypeOK, LoginToken, MapInUse
<1>3. ASSUME NEW p \in Process, Replace(p)
      PROVE  TypeInv'
  <2>1. loads[p] \in LoadState /\ reqs \in [Handler -> Request] /\ fresh \in BOOLEAN
    BY DEF TypeInv, TypeOK, StoreTypeOK
  <2>2. accounts' \in Accounts /\ fresh' \in BOOLEAN
    BY <1>3, <2>1 DEF Replace, Install, LoadState
  <2>3. LoadsInv'
    BY <1>3, LoadType, LoadSet DEF Replace, Install, LoadsInv
  <2>4. ReqsInv' /\ MapInUse'
    <3>1. reqs' = [h \in Handler |-> [reqs[h] EXCEPT !.current = FALSE]]
      BY <1>3 DEF Replace
    <3>2. \A h \in Handler : reqs'[h] = [reqs[h] EXCEPT !.current = FALSE]
      BY <3>1
    <3>3. \A q \in Request : LET n == [q EXCEPT !.current = FALSE]
                             IN  /\ n \in Request /\ n.current = FALSE /\ n.pc = q.pc
                                 /\ n.kind = q.kind /\ n.token = q.token /\ n.sub = q.sub
      BY DEF Request
    <3>4. /\ reqs' \in [Handler -> Request]
          /\ \A h \in Handler : /\ reqs'[h].pc = reqs[h].pc /\ reqs'[h].kind = reqs[h].kind
                                /\ reqs'[h].token = reqs[h].token /\ reqs'[h].sub = reqs[h].sub
                                /\ reqs'[h].current = FALSE
      BY <2>1, <3>1, <3>2, <3>3
    <3>5. QED
      BY <3>4 DEF ReqsInv, TypeInv, LoginToken, MapInUse
  <2>5. QED
    BY <1>3, <2>2, <2>3, <2>4
       DEF Replace, Install, Steady, TypeInv, TypeOK, StoreTypeOK, LoadsInv, ReqsInv
<1>4. CASE StartupDone
  <2>1. LoadsInv'
    BY <1>4, LoadType, LoadSet DEF StartupDone, LoadsInv, Process
  <2>2. QED
    BY <1>4, <2>1 DEF StartupDone, SameGoogle, TypeInv, TypeOK, StoreTypeOK, LoadsInv,
                      LoginToken, MapInUse
<1>5. CASE StartupFails
  BY <1>5, RestartType DEF StartupFails, TypeInv, TypeOK
<1>6. CASE Crash
  BY <1>6, RestartType, WebBounds DEF Crash, TypeInv, TypeOK
<1>7. ASSUME NEW s \in Sub, RevokeAtGoogle(s)
      PROVE  TypeInv'
  BY <1>7, AccountBounds DEF RevokeAtGoogle, SameStore, Steady, TypeInv, TypeOK, StoreTypeOK,
                             AccountRead, LoginToken, MapInUse
<1>8. CASE UNCHANGED vars
  BY <1>8 DEF vars, storeVars, TypeInv, TypeOK, StoreTypeOK, AccountRead, LoginToken, MapInUse
<1>9. QED
  BY <1>1, <1>2, <1>3, <1>4, <1>5, <1>6, <1>7, <1>8 DEF Next

\* The variables of the user store and of its handlers keep their types, and so do
\* the bounds on grants, failures, requests and crashes.
THEOREM TypeCorrect == Spec => []TypeOK
<1>1. TypeInv => TypeOK
  BY DEF TypeInv
<1>2. QED
  BY <1>1, TypeInit, TypeStep, PTL DEF Spec

-----------------------------------------------------------------------------
(* No refresh token is lost.  It is in every token that is on disk, in     *)
(* memory, read by an update or about to be written by a login: a login    *)
(* without one either takes it from memory or ends.                        *)

HasRefresh(a) == a # NoAccount => a.token.refresh # 0

FilesKept == \A s \in Sub : files[s].token \in Token => files[s].token.refresh # 0
AccountsKept == \A s \in Sub : HasRefresh(accounts[s])
LoadKept(l) == HasRefresh(l.acc) /\ \A s \in Sub : HasRefresh(l.built[s])
LoadsKept == \A p \in Process : LoadKept(loads[p])
RequestKept(r) == r.kind = "login" /\ r.pc \in {"truncate", "write"} => r.token.refresh # 0
RequestsKept == \A h \in Handler : RequestKept(reqs[h])

RefreshInv == TypeInv /\ FilesKept /\ AccountsKept /\ LoadsKept /\ RequestsKept

LEMMA NewLoadKept == \A pc : LoadKept(Load(pc))
BY DEF LoadKept, HasRefresh, Load, NoAccounts

LEMMA LoadSetKept ==
    ASSUME TypeInv, LoadsKept, NEW p \in Process, NEW x, LoadKept(x),
           loads' = [loads EXCEPT ![p] = x]
    PROVE  LoadsKept'
BY DEF LoadsKept, LoadKept, HasRefresh, TypeInv, TypeOK, StoreTypeOK

LEMMA LoadStepKept ==
    ASSUME RefreshInv, NEW p \in Process, LoadStep(p)
    PROVE  LoadsKept'
<1>0. loads \in [Process -> LoadState] /\ loads[p] \in LoadState /\ files \in [Sub -> UserFiles]
      /\ TypeInv /\ LoadsKept /\ LoadKept(loads[p]) /\ AccountRead
  BY DEF RefreshInv, TypeInv, TypeOK, StoreTypeOK, LoadsKept
<1>1. CASE ListUsers(p)
  <2>1. \A todo : LoadKept([Load("token") EXCEPT !.todo = todo])
    BY DEF LoadKept, HasRefresh, Load, NoAccounts
  <2>2. QED
    BY <1>0, <1>1, <2>1, LoadSetKept DEF ListUsers
<1>2. CASE ReadToken(p)
  <2>1. PICK s \in Sub :
          \/ loads' = [loads EXCEPT ![p].todo = @ \ {s}]
          \/ loads' = [loads EXCEPT ![p] = Load("failed")]
          \/ /\ files[s].token \in Token
             /\ loads' = [loads EXCEPT ![p].pc = "folder",
                                       ![p].acc = [token |-> files[s].token,
                                                   folder |-> NoFile, default |-> FALSE,
                                                   flagRead |-> TRUE]]
    BY <1>2 DEF ReadToken
  <2>2. CASE loads' = [loads EXCEPT ![p].todo = @ \ {s}]
    <3> DEFINE x == [loads[p] EXCEPT !.todo = @ \ {s}]
    <3>1. LoadKept(x)
      BY <1>0 DEF LoadKept, LoadState
    <3>2. QED
      BY <1>0, <2>2, <3>1, LoadSetKept
  <2>3. CASE loads' = [loads EXCEPT ![p] = Load("failed")]
    BY <1>0, <2>3, NewLoadKept, LoadSetKept
  <2>4. CASE /\ files[s].token \in Token
             /\ loads' = [loads EXCEPT ![p].pc = "folder",
                                       ![p].acc = [token |-> files[s].token,
                                                   folder |-> NoFile, default |-> FALSE,
                                                   flagRead |-> TRUE]]
    <3> DEFINE a == [token |-> files[s].token, folder |-> NoFile, default |-> FALSE,
                     flagRead |-> TRUE]
               x == [loads[p] EXCEPT !.pc = "folder", !.acc = a]
    <3>1. HasRefresh(a)
      BY <2>4 DEF HasRefresh, RefreshInv, FilesKept
    <3>2. x.acc = a /\ x.built = loads[p].built
      BY <1>0 DEF LoadState
    <3>3. loads' = [loads EXCEPT ![p] = x]
      BY <1>0, <2>4 DEF LoadState
    <3> HIDE DEF a, x
    <3>4. QED
      BY <1>0, <3>1, <3>2, <3>3, LoadSetKept DEF LoadKept
  <2>5. QED
    BY <2>1, <2>2, <2>3, <2>4
<1>3. CASE ReadFolder(p)
  <2>1. PICK s \in Sub :
          loads' = [loads EXCEPT ![p] = IF files[s].folder = Empty THEN Load("failed")
                                          ELSE [@ EXCEPT !.pc = "default",
                                                         !.acc.folder = files[s].folder]]
    BY <1>3 DEF ReadFolder
  <2>2. CASE files[s].folder = Empty
    BY <1>0, <2>1, <2>2, NewLoadKept, LoadSetKept
  <2>3. CASE files[s].folder # Empty
    <3> DEFINE x == [loads[p] EXCEPT !.pc = "default", !.acc.folder = files[s].folder]
    <3>1. loads[p].acc \in Account
      BY <1>0, <1>3 DEF ReadFolder, AccountRead
    <3>2. x.acc.token = loads[p].acc.token /\ x.built = loads[p].built
      BY <1>0, <3>1 DEF LoadState, Account
    <3>3. LoadKept(x)
      BY <1>0, <3>1, <3>2, NotAnAccount DEF LoadKept, HasRefresh
    <3>4. QED
      BY <1>0, <2>1, <2>3, <3>3, LoadSetKept
  <2>4. QED
    BY <2>2, <2>3
<1>4. CASE ReadDefault(p)
  <2>1. PICK s \in Sub : loads' = [loads EXCEPT ![p].pc = "userinfo",
                                                ![p].acc.default = files[s].default]
    BY <1>4 DEF ReadDefault
  <2> DEFINE x == [loads[p] EXCEPT !.pc = "userinfo", !.acc.default = files[s].default]
  <2>2. loads[p].acc \in Account
    BY <1>0, <1>4 DEF ReadDefault, AccountRead
  <2>3. x.acc.token = loads[p].acc.token /\ x.built = loads[p].built
    BY <1>0, <2>2 DEF LoadState, Account
  <2>4. LoadKept(x)
    BY <1>0, <2>2, <2>3, NotAnAccount DEF LoadKept, HasRefresh
  <2>5. loads' = [loads EXCEPT ![p] = x]
    BY <1>0, <2>1 DEF LoadState
  <2>6. QED
    BY <1>0, <2>4, <2>5, LoadSetKept
<1>flag. CASE ReadDefaultFails(p)
  <2> DEFINE x == [loads[p] EXCEPT !.pc = "userinfo", !.acc.default = FALSE,
                                   !.acc.flagRead = FALSE]
  <2>1. loads[p].acc \in Account
    BY <1>0, <1>flag DEF ReadDefaultFails, AccountRead
  <2>2. x.acc.token = loads[p].acc.token /\ x.built = loads[p].built
    BY <1>0, <2>1 DEF LoadState, Account
  <2>3. LoadKept(x)
    BY <1>0, <2>1, <2>2, NotAnAccount DEF LoadKept, HasRefresh
  <2>4. loads' = [loads EXCEPT ![p] = x]
    BY <1>0, <1>flag DEF LoadState, ReadDefaultFails
  <2>5. QED
    BY <1>0, <2>3, <2>4, LoadSetKept
<1>5. CASE Userinfo(p)
  <2>1. PICK s \in Sub :
          loads' = [loads EXCEPT ![p].pc = "token", ![p].acc = NoAccount,
                                 ![p].todo = @ \ {s}, ![p].built[s] = loads[p].acc]
    BY <1>5 DEF Userinfo
  <2> DEFINE x == [loads[p] EXCEPT !.pc = "token", !.acc = NoAccount, !.todo = @ \ {s},
                                   !.built[s] = loads[p].acc]
  <2>2. x.acc = NoAccount /\ x.built = [loads[p].built EXCEPT ![s] = loads[p].acc]
    BY <1>0 DEF LoadState
  <2>3. loads[p].built \in [Sub -> Account \cup {NoAccount}]
    BY <1>0 DEF LoadState, Accounts
  <2>4. LoadKept(x)
    BY <1>0, <2>2, <2>3 DEF LoadKept, HasRefresh
  <2>5. loads' = [loads EXCEPT ![p] = x]
    BY <1>0, <2>1 DEF LoadState
  <2>6. QED
    BY <1>0, <2>4, <2>5, LoadSetKept
<1>6. CASE UserinfoRefused(p) \/ LoadFails(p)
  BY <1>0, <1>6, NewLoadKept, LoadSetKept DEF UserinfoRefused, LoadFails
<1>7. QED
  BY <1>1, <1>2, <1>3, <1>4, <1>flag, <1>5, <1>6 DEF LoadStep

LEMMA StartKept ==
    ASSUME TypeInv, RequestsKept, NEW h \in Handler, NEW r \in Request, RequestKept(r), Start(h, r)
    PROVE  RequestsKept'
<1> DEFINE R(g) == IF g = h THEN IF r = Idle THEN Idle ELSE [r EXCEPT !.alone = (Busy = {})]
                   ELSE IF g \in Busy THEN [reqs[g] EXCEPT !.alone = FALSE] ELSE Idle
<1>1. reqs' = [g \in Handler |-> R(g)]
  BY DEF Start
<1>2. RequestKept(Idle)
  BY IdleType DEF RequestKept
<1>3. \A q \in Request : \A b : LET n == [q EXCEPT !.alone = b]
                            IN  n.pc = q.pc /\ n.kind = q.kind /\ n.token = q.token
  BY DEF Request
<1>4. \A g \in Handler : RequestKept(R(g))
  BY <1>2, <1>3 DEF RequestKept, RequestsKept, TypeInv, TypeOK
<1> HIDE DEF R
<1>5. QED
  BY <1>1, <1>4 DEF RequestsKept

LEMMA BecomeKept ==
    ASSUME TypeInv, RequestsKept, NEW h \in Handler, NEW pc, Become(h, pc),
           pc = "write" => reqs[h].pc = "truncate", pc # "truncate"
    PROVE  RequestsKept'
BY DEF Become, RequestsKept, RequestKept, TypeInv, TypeOK, Request

LEMMA ReturnKept ==
    ASSUME RequestsKept, TypeInv, NEW h \in Handler, Return(h)
    PROVE  RequestsKept'
BY IdleType DEF Return, RequestsKept, RequestKept, TypeInv, TypeOK

LEMMA WriteKept ==
    ASSUME TypeInv, LoadsKept, NEW newFiles, Write(newFiles)
    PROVE  LoadsKept'
BY DEF Write, LoadsKept, LoadKept, TypeInv, TypeOK, StoreTypeOK, LoadState

LEMMA WriteAndUpdateKept ==
    ASSUME TypeInv, LoadsKept, RequestsKept, NEW h \in Handler, NEW newFiles,
           WriteAndUpdate(h, newFiles)
    PROVE  LoadsKept' /\ RequestsKept'
<1>1. RequestsKept'
  BY BecomeKept DEF WriteAndUpdate
<1> DEFINE L(p) == IF p = h THEN Load("list") ELSE [loads[p] EXCEPT !.clean = FALSE]
<1>2. \A p \in Process : LoadKept(L(p))
  BY NewLoadKept DEF LoadsKept, LoadKept, TypeInv, TypeOK, StoreTypeOK, LoadState
<1>3. loads' = [p \in Process |-> L(p)]
  BY DEF WriteAndUpdate
<1> HIDE DEF L
<1>4. QED
  BY <1>1, <1>2, <1>3 DEF LoadsKept

LEMMA WithKept ==
    ASSUME TypeInv, FilesKept, NEW h \in Handler, NEW token, NEW folder,
           files' = With(h, token, folder),
           reqs[h].kind = "login" => (token \in Token => token.refresh # 0)
    PROVE  FilesKept'
<1> DEFINE s == reqs[h].sub
<1>1. ASSUME NEW t \in Sub
      PROVE  files'[t].token = IF t = s /\ reqs[h].kind = "login" THEN token ELSE files[t].token
  BY DEF With, TypeInv, TypeOK, StoreTypeOK, UserFiles
<1>2. QED
  BY <1>1 DEF FilesKept

LEMMA LoginKept ==
    ASSUME RefreshInv, NEW h \in Handler, Login(h)
    PROVE  RequestsKept'
<1>1. PICK s \in Sub :
           \/ Issue(s) /\ Start(h, LoginRequest(s, FirstToken(issued[s] + 1)))
           \/ /\ grant[s] # 0
              /\ Start(h, LoginRequest(s, [access |-> grant[s], refresh |-> 0]))
  BY DEF Login
<1>2. \A t \in Token : RequestKept(LoginRequest(s, t))
  <2> SUFFICES ASSUME NEW t \in Token PROVE RequestKept(LoginRequest(s, t))
    OBVIOUS
  <2>1. LoginRequest(s, t).token = t
    BY DEF LoginRequest, Idle
  <2>2. t.refresh = 0 => LoginRequest(s, t).pc = "merge"
    BY DEF LoginRequest, Idle
  <2>3. QED
    BY <2>1, <2>2 DEF RequestKept
<1>3. Issue(s) => FirstToken(issued[s] + 1) \in Token
  BY IssueType, AccountBounds DEF FirstToken, Token, RefreshInv
<1>4. grant[s] # 0 => [access |-> grant[s], refresh |-> 0] \in Token
  BY AccountBounds DEF Token, RefreshInv, TypeInv, TypeOK, StoreTypeOK
<1>5. QED
  BY <1>1, <1>2, <1>3, <1>4, LoginRequestType, StartKept DEF RefreshInv

LEMMA LoginMergeKept ==
    ASSUME RefreshInv, NEW h \in Handler, LoginMerge(h)
    PROVE  RequestsKept'
<1> DEFINE s == reqs[h].sub
<1>1. s \in Sub /\ reqs[h].kind = "login" /\ reqs[h].token \in Token /\ reqs \in [Handler -> Request]
      /\ accounts \in Accounts
  BY DEF LoginToken, LoginMerge, RefreshInv, TypeInv, TypeOK, StoreTypeOK
<1>2. CASE accounts[s] = NoAccount
  BY <1>2, ReturnKept DEF LoginMerge, RefreshInv
<1>3. CASE accounts[s] # NoAccount
  <2>1. Merged(reqs[h].token, accounts[s].token).refresh # 0
    <3>1. accounts[s].token.refresh # 0
      BY <1>1, <1>3 DEF RefreshInv, AccountsKept, HasRefresh
    <3>2. Merged(reqs[h].token, accounts[s].token).refresh = accounts[s].token.refresh
      BY <1>1 DEF Merged, Token
    <3>3. QED
      BY <3>1, <3>2
  <2>2. reqs' = [reqs EXCEPT ![h].pc = "truncate", ![h].token = Merged(@, accounts[s].token)]
    BY <1>3 DEF LoginMerge
  <2>3. reqs'[h].token = Merged(reqs[h].token, accounts[s].token)
        /\ \A g \in Handler \ {h} : reqs'[g] = reqs[g]
    BY <1>1, <2>2 DEF Request
  <2>4. QED
    BY <2>1, <2>3 DEF RefreshInv, RequestsKept, RequestKept
<1>4. QED
  BY <1>2, <1>3

LEMMA StartedKept ==
    ASSUME RefreshInv, NEW h \in Handler,
           SignOut(h) \/ StoreDriveFolder(h) \/ StoreDefaultUser(h) \/ LoginFails(h)
    PROVE  RequestsKept'
BY StartedRequest, StartKept DEF RefreshInv, RequestKept

LEMMA HandlerKept ==
    ASSUME RefreshInv, NEW h \in Handler, HandlerStep(h)
    PROVE  FilesKept' /\ AccountsKept' /\ LoadsKept' /\ RequestsKept'
<1>0. TypeInv /\ FilesKept /\ AccountsKept /\ LoadsKept /\ RequestsKept
      /\ Handler \subseteq Process
  BY DEF RefreshInv, Process
<1>1. SameStore => FilesKept' /\ AccountsKept' /\ LoadsKept'
  BY <1>0 DEF SameStore, FilesKept, AccountsKept, LoadsKept
<1>2. UNCHANGED accounts => AccountsKept'
  BY <1>0 DEF AccountsKept
<1>3. UNCHANGED files => FilesKept'
  BY <1>0 DEF FilesKept
<1>4. ASSUME NEW s \in reqs[h].todo, SetDefault(h, s)
      PROVE  AccountsKept'
  <2>1. s \in Sub /\ accounts \in [Sub -> Account \cup {NoAccount}]
    BY <1>0 DEF TypeInv, TypeOK, StoreTypeOK, Request, Accounts
  <2>2. CASE reqs[h].current
    <3>1. accounts[s] # NoAccount /\ accounts[s] \in Account
      BY <1>0, <2>1, <2>2 DEF TypeInv, MapInUse
    <3>2. \A b : [accounts[s] EXCEPT !.default = b].token = accounts[s].token
      BY <3>1 DEF Account
    <3>3. accounts' = [accounts EXCEPT ![s].default = (s = reqs[h].sub)]
      BY <1>4, <2>2 DEF SetDefault
    <3>4. accounts'[s].token = accounts[s].token /\ \A t \in Sub \ {s} : accounts'[t] = accounts[t]
      BY <2>1, <3>2, <3>3
    <3>5. QED
      BY <1>0, <3>1, <3>4 DEF AccountsKept, HasRefresh
  <2>3. CASE ~reqs[h].current
    BY <1>0, <1>4, <2>3 DEF SetDefault, AccountsKept
  <2>4. QED
    BY <2>2, <2>3
<1>5. CASE Login(h)
  BY <1>1, <1>5, LoginKept DEF Login
<1>6. CASE SignOut(h) \/ StoreDriveFolder(h) \/ StoreDefaultUser(h) \/ LoginFails(h)
  BY <1>1, <1>6, StartedKept DEF SignOut, StoreDriveFolder, StoreDefaultUser, LoginFails
<1>7. CASE LoginMerge(h)
  BY <1>1, <1>7, LoginMergeKept DEF LoginMerge
<1>8. CASE Truncate(h)
  <2>1. LoadsKept' /\ RequestsKept'
    BY <1>0, <1>8, WriteKept, BecomeKept DEF Truncate
  <2>2. FilesKept'
    BY <1>0, <1>8, WithKept, NothingAssumption DEF Truncate, Write
  <2>3. QED
    BY <1>2, <1>8, <2>1, <2>2 DEF Truncate
<1>9. CASE WriteContent(h)
  <2>1. LoadsKept' /\ RequestsKept'
    BY <1>0, <1>9, WriteAndUpdateKept DEF WriteContent
  <2>2. FilesKept'
    BY <1>0, <1>9, WithKept DEF WriteContent, WriteAndUpdate, RequestsKept, RequestKept
  <2>3. QED
    BY <1>2, <1>9, <2>1, <2>2 DEF WriteContent
<1>10. CASE RemoveToken(h)
  <2>1. LoadsKept' /\ RequestsKept'
    BY <1>0, <1>10, WriteAndUpdateKept DEF RemoveToken
  <2>2. files' = [files EXCEPT ![reqs[h].sub].token = NoFile]
    BY <1>10 DEF RemoveToken, WriteAndUpdate
  <2>3. FilesKept'
    BY <1>0, <2>2, NothingAssumption DEF FilesKept, TypeInv, TypeOK, StoreTypeOK, UserFiles
  <2>4. QED
    BY <1>2, <1>10, <2>1, <2>3 DEF RemoveToken
<1>11. CASE WriteFails(h) \/ RemoveTokenMissing(h) \/ Revoke(h) \/ RevokeFails(h)
  BY <1>0, <1>1, <1>11, ReturnKept DEF WriteFails, RemoveTokenMissing, Revoke, RevokeFails
<1>flag. ASSUME NEW s, NEW b, Write([files EXCEPT ![s].default = b])
         PROVE  FilesKept' /\ LoadsKept'
  <2>1. LoadsKept'
    BY <1>0, <1>flag, WriteKept
  <2>2. \A q \in UserFiles : [q EXCEPT !.default = b].token = q.token
    BY DEF UserFiles
  <2>3. files' = [files EXCEPT ![s].default = b]
    BY <1>flag, Zenon DEF Write
  <2>4. \A t \in Sub : files'[t].token = files[t].token
    BY <1>0, <2>2, <2>3 DEF TypeInv, TypeOK, StoreTypeOK
  <2>5. QED
    BY <1>0, <2>1, <2>4 DEF FilesKept
<1>12. CASE WriteDefault(h)
  <2>1. PICK s \in reqs[h].todo :
          /\ SetDefault(h, s)
          /\ Write([files EXCEPT ![s].default = (s = reqs[h].sub)])
          /\ reqs' = [reqs EXCEPT ![h].todo = @ \ {s}]
    BY <1>12 DEF WriteDefault
  <2>2. FilesKept' /\ LoadsKept'
    BY <1>flag, <2>1, Zenon
  <2>3. RequestsKept'
    <3>1. reqs' = [reqs EXCEPT ![h].todo = @ \ {s}]
      BY <2>1, Zenon
    <3>2. QED
      BY <1>0, <3>1 DEF RequestsKept, RequestKept, TypeInv, TypeOK, Request
  <2>4. QED
    BY <1>4, <2>1, <2>2, <2>3
<1>13. CASE WriteDefaultFails(h)
  <2>1. PICK s \in reqs[h].todo, b \in BOOLEAN :
          SetDefault(h, s) /\ Write([files EXCEPT ![s].default = b])
    BY <1>0, <1>13, FlagWritten DEF TypeInv, TypeOK, StoreTypeOK
  <2>2. FilesKept' /\ LoadsKept'
    BY <1>flag, <2>1, Zenon
  <2>3. RequestsKept'
    BY <1>0, <1>13, ReturnKept DEF WriteDefaultFails
  <2>4. QED
    BY <1>4, <2>1, <2>2, <2>3
<1>14. CASE DefaultsWritten(h)
  BY <1>0, <1>2, <1>3, <1>14, NewLoadKept, LoadSetKept, BecomeKept DEF DefaultsWritten
<1>15. CASE Updated(h)
  BY <1>0, <1>2, <1>3, <1>15, NewLoadKept, LoadSetKept, BecomeKept, ReturnKept DEF Updated
<1>16. QED
  BY <1>5, <1>6, <1>7, <1>8, <1>9, <1>10, <1>11, <1>12, <1>13, <1>14, <1>15 DEF HandlerStep

LEMMA RestartKept ==
    ASSUME RefreshInv, Restart
    PROVE  FilesKept' /\ AccountsKept' /\ LoadsKept' /\ RequestsKept'
<1>1. FilesKept'
  BY DEF Restart, RefreshInv, FilesKept
<1>2. AccountsKept'
  BY DEF Restart, AccountsKept, HasRefresh, NoAccounts
<1>3. LoadsKept'
  BY NewLoadKept DEF Restart, LoadsKept
<1>4. RequestsKept'
  BY IdleType DEF Restart, RequestsKept, RequestKept
<1>5. QED
  BY <1>1, <1>2, <1>3, <1>4

LEMMA RefreshStep == RefreshInv /\ [Next]_vars => RefreshInv'
<1> SUFFICES ASSUME RefreshInv, [Next]_vars PROVE FilesKept' /\ AccountsKept' /\ LoadsKept' /\ RequestsKept'
  BY TypeStep DEF RefreshInv
<1>1. ASSUME NEW h \in Handler, HandlerStep(h)
      PROVE  FilesKept' /\ AccountsKept' /\ LoadsKept' /\ RequestsKept'
  BY <1>1, HandlerKept
<1>2. ASSUME NEW p \in Process, Update(p)
      PROVE  FilesKept' /\ AccountsKept' /\ LoadsKept' /\ RequestsKept'
  <2>1. LoadsKept'
    BY <1>2, LoadStepKept DEF Update
  <2>2. UNCHANGED <<files, accounts, reqs>>
    BY <1>2, LoadStepFrame DEF Update
  <2>3. QED
    BY <2>1, <2>2 DEF RefreshInv, FilesKept, AccountsKept, RequestsKept
<1>3. ASSUME NEW p \in Process, Replace(p)
      PROVE  FilesKept' /\ AccountsKept' /\ LoadsKept' /\ RequestsKept'
  <2>1. FilesKept'
    BY <1>3 DEF Replace, Install, RefreshInv, FilesKept
  <2>2. AccountsKept'
    BY <1>3 DEF Replace, Install, RefreshInv, LoadsKept, LoadKept, AccountsKept
  <2>3. LoadsKept'
    BY <1>3, NewLoadKept, LoadSetKept DEF Replace, Install, RefreshInv
  <2>4. RequestsKept'
    <3>1. \A q \in Request : LET n == [q EXCEPT !.current = FALSE]
                             IN  n.pc = q.pc /\ n.kind = q.kind /\ n.token = q.token
      BY DEF Request
    <3>2. \A h \in Handler : reqs'[h] = [reqs[h] EXCEPT !.current = FALSE] /\ reqs[h] \in Request
      BY <1>3 DEF Replace, RefreshInv, TypeInv, TypeOK
    <3>3. \A h \in Handler : /\ reqs'[h].pc = reqs[h].pc /\ reqs'[h].kind = reqs[h].kind
                             /\ reqs'[h].token = reqs[h].token
      BY <3>1, <3>2
    <3>4. QED
      BY <3>3 DEF RefreshInv, RequestsKept, RequestKept
  <2>5. QED
    BY <2>1, <2>2, <2>3, <2>4
<1>4. CASE StartupDone
  <2>1. LoadsKept'
    BY <1>4, NewLoadKept, LoadSetKept DEF StartupDone, RefreshInv, Process
  <2>2. QED
    BY <1>4, <2>1 DEF StartupDone, RefreshInv, FilesKept, AccountsKept, RequestsKept
<1>5. CASE StartupFails \/ Crash
  BY <1>5, RestartKept DEF StartupFails, Crash
<1>6. ASSUME NEW s \in Sub, RevokeAtGoogle(s)
      PROVE  FilesKept' /\ AccountsKept' /\ LoadsKept' /\ RequestsKept'
  BY <1>6 DEF RevokeAtGoogle, SameStore, RefreshInv, FilesKept, AccountsKept, LoadsKept, RequestsKept
<1>7. CASE UNCHANGED vars
  BY <1>7 DEF vars, storeVars, RefreshInv, FilesKept, AccountsKept, LoadsKept, RequestsKept
<1>8. QED
  BY <1>1, <1>2, <1>3, <1>4, <1>5, <1>6, <1>7 DEF Next

LEMMA RefreshInit == Init => RefreshInv
<1> SUFFICES ASSUME Init PROVE FilesKept /\ AccountsKept /\ LoadsKept /\ RequestsKept
  BY TypeInit DEF RefreshInv
<1>1. FilesKept
  BY NothingAssumption DEF Init, FilesKept, FirstToken
<1>2. AccountsKept /\ LoadsKept /\ RequestsKept
  BY NewLoadKept, IdleType
     DEF Init, AccountsKept, LoadsKept, RequestsKept, RequestKept, HasRefresh, NoAccounts
<1>3. QED
  BY <1>1, <1>2

\* Google sends the refresh token once.  Whatever logins, sign-outs, updates, failures
\* and crashes do to each other, every token.json and every account has one.
THEOREM RefreshTokenKeptHolds == Spec => []RefreshTokenKept
<1>1. RefreshInv => RefreshTokenKept
  BY DEF RefreshInv, FilesKept, AccountsKept, HasRefresh, RefreshTokenKept
<1>2. QED
  BY <1>1, RefreshInit, RefreshStep, PTL DEF Spec

-----------------------------------------------------------------------------
(* Memory is the disk.  An update that no write has overtaken has built    *)
(* what is on disk for the users it is done with, nothing for the others,  *)
(* and knows so much of the user it is at as it has read of him.           *)

Reading(l) == l.pc \in {"token", "folder", "default", "userinfo"}

Matches(l, s) ==
    /\ l.pc \in {"folder", "default", "userinfo"} => l.acc.token = files[s].token
    /\ l.pc \in {"default", "userinfo"} => l.acc.folder = files[s].folder
    /\ l.pc \in {"folder", "default"} => l.acc.flagRead
    /\ l.pc = "userinfo" => \/ l.acc.default = files[s].default /\ l.acc.flagRead = TRUE
                            \/ l.acc.default = FALSE /\ l.acc.flagRead = FALSE

FollowsDisk(l) ==
    l.clean /\ Reading(l) =>
        /\ \A s \in Sub \ l.todo : Shows(l.built[s], s)
        /\ \A s \in l.todo : l.built[s] = NoAccount
        /\ \A s \in l.todo : (\A t \in l.todo : s <= t) => Matches(l, s)

LoadsFollow == \A p \in Process : FollowsDisk(loads[p])

\* A listing of the directories finds everyone who has a token.
TokensListed == \A s \in Sub : files[s].token \in Token => files[s].dir

FreshInv == TypeInv /\ TokensListed /\ FreshIsDisk /\ LoadsFollow

LEMMA NewLoadFollows ==
    ASSUME NEW pc \in {"no", "list", "ok", "failed"}
    PROVE  FollowsDisk(Load(pc)) /\ FollowsDisk(Load(pc))'
BY LoadType DEF FollowsDisk, Reading, Load

LEMMA SameLoaded ==
    ASSUME UNCHANGED files
    PROVE  /\ \A s : Loaded(s)' = Loaded(s)
           /\ \A a, s : Shows(a, s) => Shows(a, s)'
           /\ \A l : FollowsDisk(l) => FollowsDisk(l)'
           /\ TokensListed => TokensListed'
           /\ UNCHANGED <<accounts, fresh>> /\ FreshIsDisk => FreshIsDisk'
<1>1. \A s : Loaded(s)' = Loaded(s)
  BY DEF Loaded
<1>2. \A a, s : Shows(a, s) => Shows(a, s)'
  BY <1>1 DEF Shows
<1>3. \A l : FollowsDisk(l) => FollowsDisk(l)'
  BY <1>2 DEF FollowsDisk, Matches, Reading
<1>4. QED
  BY <1>1, <1>2, <1>3 DEF TokensListed, FreshIsDisk

LEMMA LoadSetFollows ==
    ASSUME TypeInv, LoadsFollow, UNCHANGED files, NEW p \in Process, NEW x, FollowsDisk(x),
           loads' = [loads EXCEPT ![p] = x]
    PROVE  LoadsFollow'
<1>1. \A q \in Process : FollowsDisk(loads'[q])
  BY DEF LoadsFollow, TypeInv, TypeOK, StoreTypeOK
<1>2. \A q \in Process : FollowsDisk(loads[q])'
  <2> SUFFICES ASSUME NEW q \in Process PROVE FollowsDisk(loads[q])'
    OBVIOUS
  <2>1. FollowsDisk(loads'[q])
    BY <1>1
  <2>2. QED
    BY <2>1 DEF FollowsDisk, Matches, Reading, Loaded, Shows
<1>3. QED
  BY <1>2 DEF LoadsFollow

\* There is only one user that is next.
LEMMA OneNext ==
    ASSUME NEW p \in Process, NEW s \in Sub, NEW t \in Sub, IsNext(p, s), IsNext(p, t)
    PROVE  s = t
BY SubAssumption DEF IsNext

LEMMA LoadStepFollows ==
    ASSUME FreshInv, NEW p \in Process, LoadStep(p)
    PROVE  LoadsFollow'
<1> DEFINE l == loads[p]
<1>0. /\ loads \in [Process -> LoadState] /\ l \in LoadState /\ files \in [Sub -> UserFiles]
      /\ TypeInv /\ LoadsFollow /\ FollowsDisk(l) /\ TokensListed /\ AccountRead
  BY DEF FreshInv, TypeInv, TypeOK, StoreTypeOK, LoadsFollow
<1>00. UNCHANGED files
  BY LoadStepFrame
<1>failed. ASSUME loads' = [loads EXCEPT ![p] = Load("failed")]
           PROVE  LoadsFollow'
  BY <1>0, <1>00, <1>failed, NewLoadFollows, LoadSetFollows
<1>1. CASE ListUsers(p)
  <2> DEFINE x == [Load("token") EXCEPT !.todo = {s \in Sub : files[s].dir}]
  <2>1. x.pc = "token" /\ x.todo = {s \in Sub : files[s].dir} /\ x.built = NoAccounts
    BY DEF Load
  <2> HIDE DEF x
  <2>2. ASSUME NEW s \in Sub, s \notin x.todo
        PROVE  Shows(x.built[s], s)
    <3>1. ~files[s].dir
      BY <2>1, <2>2, Zenon
    <3>2. files[s].token \notin Token
      BY <1>0, <3>1, Zenon DEF TokensListed
    <3>3. QED
      BY <2>1, <3>2 DEF Loaded, Shows, NoAccounts
  <2>3. FollowsDisk(x)
    BY <2>1, <2>2 DEF FollowsDisk, Matches, NoAccounts
  <2>4. loads' = [loads EXCEPT ![p] = x]
    BY <1>1 DEF ListUsers, x
  <2>5. QED
    BY <1>0, <1>00, <2>3, <2>4, LoadSetFollows
<1>2. CASE ReadToken(p)
  <2>1. PICK s \in Sub :
          /\ IsNext(p, s)
          /\ \/ /\ files[s].token = NoFile
                /\ loads' = [loads EXCEPT ![p].todo = @ \ {s}]
             \/ loads' = [loads EXCEPT ![p] = Load("failed")]
             \/ /\ files[s].token \in Token
                /\ loads' = [loads EXCEPT ![p].pc = "folder",
                                          ![p].acc = [token |-> files[s].token,
                                                      folder |-> NoFile, default |-> FALSE,
                                                      flagRead |-> TRUE]]
    BY <1>2 DEF ReadToken
  <2>2. CASE /\ files[s].token = NoFile
             /\ loads' = [loads EXCEPT ![p].todo = @ \ {s}]
    <3> DEFINE x == [l EXCEPT !.todo = @ \ {s}]
    <3>1. x.pc = "token" /\ l.pc = "token" /\ x.todo = l.todo \ {s} /\ x.built = l.built
          /\ x.clean = l.clean
      BY <1>0, <1>2 DEF ReadToken, LoadState
    <3>2. Loaded(s) = NoAccount
      BY <2>2, NothingAssumption DEF Loaded
    <3>3. FollowsDisk(x)
      BY <1>0, <2>1, <3>1, <3>2 DEF FollowsDisk, Matches, Reading, Shows, IsNext
    <3>4. loads' = [loads EXCEPT ![p] = x]
      BY <1>0, <2>2 DEF LoadState
    <3>5. QED
      BY <1>0, <1>00, <3>3, <3>4, LoadSetFollows
  <2>3. CASE /\ files[s].token \in Token
             /\ loads' = [loads EXCEPT ![p].pc = "folder",
                                       ![p].acc = [token |-> files[s].token,
                                                   folder |-> NoFile, default |-> FALSE,
                                                   flagRead |-> TRUE]]
    <3> DEFINE a == [token |-> files[s].token, folder |-> NoFile, default |-> FALSE,
                     flagRead |-> TRUE]
               x == [l EXCEPT !.pc = "folder", !.acc = a]
    <3>1. x.pc = "folder" /\ l.pc = "token" /\ x.todo = l.todo /\ x.built = l.built
          /\ x.clean = l.clean /\ x.acc = a
      BY <1>0, <1>2 DEF ReadToken, LoadState
    <3>2. a.token = files[s].token /\ a.flagRead
      OBVIOUS
    <3>3. loads' = [loads EXCEPT ![p] = x]
      BY <1>0, <2>3 DEF LoadState
    <3> HIDE DEF a, x
    <3>4. \A t \in l.todo : (\A u \in l.todo : t <= u) => t = s
      BY <1>0, <2>1, OneNext DEF IsNext, LoadState
    <3>5. FollowsDisk(x)
      BY <1>0, <3>1, <3>2, <3>4 DEF FollowsDisk, Matches, Reading
    <3>6. QED
      BY <1>0, <1>00, <3>3, <3>5, LoadSetFollows
  <2>4. QED
    BY <1>failed, <2>1, <2>2, <2>3
<1>3. CASE ReadFolder(p)
  <2>1. PICK s \in Sub :
          /\ IsNext(p, s)
          /\ loads' = [loads EXCEPT ![p] = IF files[s].folder = Empty THEN Load("failed")
                                           ELSE [@ EXCEPT !.pc = "default",
                                                          !.acc.folder = files[s].folder]]
    BY <1>3, Zenon DEF ReadFolder
  <2>2. CASE files[s].folder = Empty
    <3>1. loads' = [loads EXCEPT ![p] = Load("failed")]
      BY <2>1, <2>2
    <3>2. QED
      BY <1>failed, <3>1
  <2>3. CASE files[s].folder # Empty
    <3> DEFINE x == [l EXCEPT !.pc = "default", !.acc.folder = files[s].folder]
    <3>1. l.acc \in Account /\ l.pc = "folder"
      BY <1>0, <1>3 DEF ReadFolder, AccountRead
    <3>2. /\ x.pc = "default" /\ x.todo = l.todo /\ x.built = l.built /\ x.clean = l.clean
          /\ x.acc.token = l.acc.token /\ x.acc.folder = files[s].folder
          /\ x.acc.flagRead = l.acc.flagRead
      BY <1>0, <3>1 DEF LoadState, Account
    <3>3. loads' = [loads EXCEPT ![p] = x]
      BY <1>0, <2>1, <2>3
    <3> HIDE DEF x
    <3>4. \A t \in l.todo : (\A u \in l.todo : t <= u) => t = s
      BY <1>0, <2>1, OneNext DEF IsNext, LoadState
    <3>5. FollowsDisk(x)
      BY <1>0, <3>1, <3>2, <3>4 DEF FollowsDisk, Matches, Reading
    <3>6. QED
      BY <1>0, <1>00, <3>3, <3>5, LoadSetFollows
  <2>4. QED
    BY <2>2, <2>3
<1>4. CASE ReadDefault(p)
  <2>1. PICK s \in Sub :
          /\ IsNext(p, s)
          /\ loads' = [loads EXCEPT ![p].pc = "userinfo", ![p].acc.default = files[s].default]
    BY <1>4 DEF ReadDefault
  <2> DEFINE x == [l EXCEPT !.pc = "userinfo", !.acc.default = files[s].default]
  <2>2. l.acc \in Account /\ l.pc = "default"
    BY <1>0, <1>4 DEF ReadDefault, AccountRead
  <2>3. /\ x.pc = "userinfo" /\ x.todo = l.todo /\ x.built = l.built /\ x.clean = l.clean
        /\ x.acc.token = l.acc.token /\ x.acc.folder = l.acc.folder
        /\ x.acc.default = files[s].default /\ x.acc.flagRead = l.acc.flagRead
        /\ l.acc.flagRead \in BOOLEAN
    BY <1>0, <2>2 DEF LoadState, Account, UserFiles
  <2>4. loads' = [loads EXCEPT ![p] = x]
    BY <1>0, <2>1 DEF LoadState
  <2> HIDE DEF x
  <2>5. \A t \in l.todo : (\A u \in l.todo : t <= u) => t = s
    BY <1>0, <2>1, OneNext DEF IsNext, LoadState
  <2>6. FollowsDisk(x)
    BY <1>0, <2>2, <2>3, <2>5 DEF FollowsDisk, Matches, Reading
  <2>7. QED
    BY <1>0, <1>00, <2>4, <2>6, LoadSetFollows
<1>flag. CASE ReadDefaultFails(p)
  <2> DEFINE x == [l EXCEPT !.pc = "userinfo", !.acc.default = FALSE, !.acc.flagRead = FALSE]
  <2>1. l.acc \in Account /\ l.pc = "default"
    BY <1>0, <1>flag DEF ReadDefaultFails, AccountRead
  <2>2. /\ x.pc = "userinfo" /\ x.todo = l.todo /\ x.built = l.built /\ x.clean = l.clean
        /\ x.acc.token = l.acc.token /\ x.acc.folder = l.acc.folder
        /\ x.acc.default = FALSE /\ x.acc.flagRead = FALSE
    BY <1>0, <2>1 DEF LoadState, Account
  <2>3. loads' = [loads EXCEPT ![p] = x]
    BY <1>0, <1>flag DEF LoadState, ReadDefaultFails
  <2> HIDE DEF x
  <2>4. FollowsDisk(x)
    BY <1>0, <2>1, <2>2 DEF FollowsDisk, Matches, Reading
  <2>5. QED
    BY <1>0, <1>00, <2>3, <2>4, LoadSetFollows
<1>5. CASE Userinfo(p)
  <2>1. PICK s \in Sub :
          /\ IsNext(p, s)
          /\ loads' = [loads EXCEPT ![p].pc = "token", ![p].acc = NoAccount,
                                    ![p].todo = @ \ {s}, ![p].built[s] = loads[p].acc]
    BY <1>5, Zenon DEF Userinfo
  <2> DEFINE x == [l EXCEPT !.pc = "token", !.acc = NoAccount, !.todo = @ \ {s},
                            !.built[s] = l.acc]
  <2>2. l.acc \in Account /\ l.pc = "userinfo"
    BY <1>0, <1>5 DEF Userinfo, AccountRead
  <2>3. /\ x.pc = "token" /\ x.todo = l.todo \ {s} /\ x.clean = l.clean
        /\ x.built = [l.built EXCEPT ![s] = l.acc] /\ l.built \in [Sub -> Account \cup {NoAccount}]
    BY <1>0 DEF LoadState, Accounts
  <2>4. loads' = [loads EXCEPT ![p] = x]
    BY <1>0, <2>1 DEF LoadState
  <2> HIDE DEF x
  <2>5. l.clean => Shows(l.acc, s)
    <3> SUFFICES ASSUME l.clean PROVE Shows(l.acc, s)
      OBVIOUS
    <3>1. Matches(l, s)
      BY <1>0, <2>1, <2>2 DEF FollowsDisk, Reading, IsNext
    <3>2. /\ l.acc.token = files[s].token /\ l.acc.folder = files[s].folder
          /\ files[s].token \in Token
          /\ \/ l.acc.default = files[s].default /\ l.acc.flagRead = TRUE
             \/ l.acc.default = FALSE /\ l.acc.flagRead = FALSE
      BY <2>2, <3>1 DEF Matches, Account
    <3>3. l.acc = [token |-> files[s].token, folder |-> files[s].folder,
                   default |-> l.acc.default, flagRead |-> l.acc.flagRead]
      BY <2>2, <3>2 DEF Account
    <3>4. QED
      BY <3>2, <3>3 DEF Loaded, Shows
  <2>6. FollowsDisk(x)
    <3> SUFFICES ASSUME l.clean
                 PROVE  /\ \A t \in Sub \ x.todo : Shows(x.built[t], t)
                        /\ \A t \in x.todo : x.built[t] = NoAccount
      BY <2>3 DEF FollowsDisk, Matches
    <3>1. /\ \A t \in Sub \ l.todo : Shows(l.built[t], t)
          /\ \A t \in l.todo : l.built[t] = NoAccount
          /\ l.todo \subseteq Sub
      BY <1>0, <2>2 DEF FollowsDisk, Reading, LoadState
    <3>2. QED
      BY <2>3, <2>5, <3>1
  <2>7. QED
    BY <1>0, <1>00, <2>4, <2>6, LoadSetFollows
<1>6. CASE UserinfoRefused(p) \/ LoadFails(p)
  BY <1>failed, <1>6 DEF UserinfoRefused, LoadFails
<1>7. QED
  BY <1>1, <1>2, <1>3, <1>4, <1>flag, <1>5, <1>6 DEF LoadStep

\* After a write no update can claim to be the disk, and memory cannot either.
LEMMA WriteFollows ==
    ASSUME TypeInv, NEW newFiles,
           Write(newFiles) \/ \E h \in Handler : WriteAndUpdate(h, newFiles)
    PROVE  FreshIsDisk' /\ LoadsFollow'
<1>1. ~fresh'
  BY DEF Write, WriteAndUpdate
<1>2. \A p \in Process : ~loads'[p].clean \/ ~Reading(loads'[p])
  <2>1. \A l \in LoadState : ~[l EXCEPT !.clean = FALSE].clean
    BY DEF LoadState
  <2>2. ~Reading(Load("list"))
    BY LoadType DEF Reading
  <2>3. QED
    BY <2>1, <2>2 DEF Write, WriteAndUpdate, TypeInv, TypeOK, StoreTypeOK
<1>3. QED
  BY <1>1, <1>2 DEF FreshIsDisk, LoadsFollow, FollowsDisk, Reading

LEMMA WithListed ==
    ASSUME TypeInv, TokensListed, NEW h \in Handler, NEW token, NEW folder,
           files' = With(h, token, folder)
    PROVE  TokensListed'
<1> DEFINE s == reqs[h].sub
<1>1. ASSUME NEW t \in Sub
      PROVE  IF t = s THEN files'[t].dir ELSE files'[t] = files[t]
  BY DEF With, TypeInv, TypeOK, StoreTypeOK, UserFiles
<1>2. QED
  BY <1>1 DEF TokensListed

LEMMA HandlerFresh ==
    ASSUME FreshInv, NEW h \in Handler, HandlerStep(h)
    PROVE  TokensListed' /\ FreshIsDisk' /\ LoadsFollow'
<1>0. /\ TypeInv /\ TokensListed /\ FreshIsDisk /\ LoadsFollow /\ h \in Process
      /\ files \in [Sub -> UserFiles]
  BY DEF FreshInv, Process, TypeInv, TypeOK, StoreTypeOK
<1>1. ASSUME UNCHANGED <<files, accounts, loads, fresh>>
      PROVE  TokensListed' /\ FreshIsDisk' /\ LoadsFollow'
  BY <1>0, <1>1, SameLoaded DEF LoadsFollow
<1>2. ASSUME UNCHANGED <<files, accounts, fresh>>,
             NEW pc \in {"no", "list"}, loads' = [loads EXCEPT ![h] = Load(pc)]
      PROVE  TokensListed' /\ FreshIsDisk' /\ LoadsFollow'
  BY <1>0, <1>2, SameLoaded, NewLoadFollows, LoadSetFollows
<1>3. CASE \/ Login(h) \/ LoginFails(h) \/ LoginMerge(h) \/ WriteFails(h)
           \/ SignOut(h) \/ RemoveTokenMissing(h) \/ Revoke(h) \/ RevokeFails(h)
           \/ StoreDriveFolder(h) \/ StoreDefaultUser(h)
  <2>1. CASE Login(h) \/ LoginFails(h) \/ LoginMerge(h) \/ WriteFails(h) \/ SignOut(h)
    BY <1>1, <2>1, Zenon DEF Login, LoginFails, LoginMerge, WriteFails, SignOut, SameStore
  <2>2. CASE \/ RemoveTokenMissing(h) \/ Revoke(h) \/ RevokeFails(h)
             \/ StoreDriveFolder(h) \/ StoreDefaultUser(h)
    BY <1>1, <2>2, Zenon DEF RemoveTokenMissing, Revoke, RevokeFails, StoreDriveFolder,
                             StoreDefaultUser, SameStore
  <2>3. QED
    BY <1>3, <2>1, <2>2
<1>4. CASE Truncate(h) \/ WriteContent(h)
  <2>1. PICK token, folder : \/ Write(With(h, token, folder))
                             \/ WriteAndUpdate(h, With(h, token, folder))
    BY <1>4 DEF Truncate, WriteContent
  <2>2. TokensListed'
    BY <1>0, <2>1, WithListed DEF Write, WriteAndUpdate
  <2>3. QED
    BY <1>0, <2>1, <2>2, WriteFollows
<1>5. CASE RemoveToken(h)
  <2>1. WriteAndUpdate(h, [files EXCEPT ![reqs[h].sub].token = NoFile])
    BY <1>5 DEF RemoveToken
  <2>2. files' = [files EXCEPT ![reqs[h].sub].token = NoFile]
    BY <2>1 DEF WriteAndUpdate
  <2>3. TokensListed'
    BY <1>0, <2>2, NothingAssumption DEF TokensListed, UserFiles
  <2>4. QED
    BY <1>0, <2>1, <2>3, WriteFollows
<1>6. CASE WriteDefault(h) \/ WriteDefaultFails(h)
  <2>1. PICK s, b : Write([files EXCEPT ![s].default = b])
    <3>1. CASE WriteDefault(h)
      BY <3>1, Zenon DEF WriteDefault
    <3>2. CASE WriteDefaultFails(h)
      BY <1>0, <3>2, FlagWritten, Zenon DEF TypeInv, TypeOK
    <3>3. QED
      BY <1>6, <3>1, <3>2
  <2>2. \A q \in UserFiles : LET n == [q EXCEPT !.default = b]
                           IN  n.token = q.token /\ n.dir = q.dir
    BY DEF UserFiles
  <2>3. files' = [files EXCEPT ![s].default = b]
    BY <2>1, Zenon DEF Write
  <2>4. \A t \in Sub : files'[t].token = files[t].token /\ files'[t].dir = files[t].dir
    BY <1>0, <2>2, <2>3
  <2>5. TokensListed'
    BY <1>0, <2>4 DEF TokensListed
  <2>6. QED
    BY <1>0, <2>1, <2>5, WriteFollows
<1>7. CASE DefaultsWritten(h) \/ Updated(h)
  BY <1>2, <1>7 DEF DefaultsWritten, Updated
<1>8. QED
  BY <1>3, <1>4, <1>5, <1>6, <1>7 DEF HandlerStep

LEMMA FreshStep == FreshInv /\ [Next]_vars => FreshInv'
<1> SUFFICES ASSUME FreshInv, [Next]_vars PROVE TokensListed' /\ FreshIsDisk' /\ LoadsFollow'
  BY TypeStep DEF FreshInv
<1>0. TypeInv /\ TokensListed /\ FreshIsDisk /\ LoadsFollow
  BY DEF FreshInv
<1>1. ASSUME NEW h \in Handler, HandlerStep(h)
      PROVE  TokensListed' /\ FreshIsDisk' /\ LoadsFollow'
  BY <1>1, HandlerFresh
<1>2. ASSUME NEW p \in Process, Update(p)
      PROVE  TokensListed' /\ FreshIsDisk' /\ LoadsFollow'
  <2>1. LoadsFollow'
    BY <1>2, LoadStepFollows DEF Update
  <2>2. UNCHANGED <<files, accounts, fresh>>
    BY <1>2, LoadStepFrame DEF Update
  <2>3. QED
    BY <1>0, <2>1, <2>2, SameLoaded
<1>3. ASSUME NEW p \in Process, Replace(p)
      PROVE  TokensListed' /\ FreshIsDisk' /\ LoadsFollow'
  <2>1. /\ loads[p].pc = "token" /\ loads[p].todo = {}
        /\ accounts' = loads[p].built /\ fresh' = loads[p].clean
        /\ loads' = [loads EXCEPT ![p] = Load("ok")] /\ UNCHANGED files
    BY <1>3 DEF Replace, Install
  <2>2. LoadsFollow' /\ TokensListed'
    BY <1>0, <2>1, NewLoadFollows, LoadSetFollows, SameLoaded
  <2>3. FreshIsDisk'
    <3> SUFFICES ASSUME loads[p].clean, NEW s \in Sub PROVE Shows(accounts[s], s)'
      BY <2>1 DEF FreshIsDisk
    <3>1. Shows(loads[p].built[s], s)
      BY <1>0, <2>1 DEF LoadsFollow, FollowsDisk, Reading
    <3>2. QED
      BY <2>1, <3>1 DEF Shows, Loaded
  <2>4. QED
    BY <2>2, <2>3
<1>4. CASE StartupDone
  BY <1>0, <1>4, NewLoadFollows, LoadSetFollows, SameLoaded DEF StartupDone, Process
<1>5. CASE StartupFails \/ Crash
  <2>1. /\ loads' = [p \in Process |-> Load(IF p = Main THEN "list" ELSE "no")]
        /\ ~fresh' /\ UNCHANGED files
    BY <1>5 DEF StartupFails, Crash, Restart
  <2>2. LoadsFollow'
    <3>1. \A p \in Process : ~Reading(loads'[p])
      BY <2>1, LoadType DEF Reading
    <3>2. QED
      BY <3>1 DEF LoadsFollow, FollowsDisk, Reading
  <2>3. QED
    BY <1>0, <2>1, <2>2, SameLoaded DEF FreshIsDisk
<1>6. ASSUME NEW s \in Sub, RevokeAtGoogle(s)
      PROVE  TokensListed' /\ FreshIsDisk' /\ LoadsFollow'
  BY <1>0, <1>6, SameLoaded DEF RevokeAtGoogle, SameStore, LoadsFollow
<1>7. CASE UNCHANGED vars
  BY <1>0, <1>7, SameLoaded DEF vars, storeVars, LoadsFollow
<1>8. QED
  BY <1>1, <1>2, <1>3, <1>4, <1>5, <1>6, <1>7 DEF Next

LEMMA FreshInit == Init => FreshInv
<1> SUFFICES ASSUME Init PROVE TokensListed /\ FreshIsDisk /\ LoadsFollow
  BY TypeInit DEF FreshInv
<1>1. PICK users \in SUBSET Sub : \E in \in SUBSET users :
        files = [s \in Sub |->
                   [dir |-> s \in users,
                    token |-> IF s \in in /\ MaxGrants > 0 THEN FirstToken(1) ELSE NoFile,
                    folder |-> NoFile, default |-> FALSE]]
  BY DEF Init
<1>2. TokensListed
  <2>1. PICK in \in SUBSET users :
          files = [s \in Sub |->
                     [dir |-> s \in users,
                      token |-> IF s \in in /\ MaxGrants > 0 THEN FirstToken(1) ELSE NoFile,
                      folder |-> NoFile, default |-> FALSE]]
    BY <1>1
  <2>2. \A s \in Sub : files[s].dir = (s \in users)
    BY <2>1, Zenon
  <2>3. \A s \in Sub : s \notin in => files[s].token = NoFile
    BY <2>1
  <2>4. \A s \in Sub : files[s].token \in Token => s \in users
    BY <2>3, NothingAssumption
  <2>5. QED
    BY <2>2, <2>4, Zenon DEF TokensListed
<1>3. ~fresh /\ loads = [p \in Process |-> Load(IF p = Main THEN "list" ELSE "no")]
  BY DEF Init
<1>4. \A p \in Process : ~Reading(loads[p])
  BY <1>3, LoadType DEF Reading
<1>5. QED
  BY <1>2, <1>3, <1>4 DEF FreshIsDisk, LoadsFollow, FollowsDisk

\* UpdateFromDir reads without a lock what other requests write.  Whatever the order,
\* if nothing was written since the first read of the update that installed the
\* accounts, memory is what is on disk.
THEOREM FreshIsDiskHolds == Spec => []FreshIsDisk
<1>1. FreshInv => FreshIsDisk
  BY DEF FreshInv
<1>2. QED
  BY <1>1, FreshInit, FreshStep, PTL DEF Spec

-----------------------------------------------------------------------------
(* A request without another one.  While a request is alone, only its own  *)
(* handler writes files and only its own update replaces the accounts: so  *)
(* the update is clean, what it installs is fresh, and what is fresh is    *)
(* what the request has written.                                           *)

\* Which steps a request of each kind takes, and what it is about.
Steps(r) ==
    /\ r.pc = "idle" \/ r.kind = "none" => r = Idle
    /\ r.kind # "none" => r.sub \in Sub
    /\ r.pc \in {"truncate", "write"} => r.kind \in {"login", "folder"}
    /\ r.pc = "remove" => r.kind = "signout"
    /\ r.pc = "default" => r.kind = "default"

RequestSteps == \A h \in Handler : Steps(reqs[h])

\* Who updates the accounts: a handler that waits for it, or main before it
\* serves requests.
OneUpdates ==
    /\ \A h \in Handler : /\ loads[h].pc # "no" => reqs[h].pc = "update"
                          /\ reqs[h] # Idle => up
    /\ up => loads[Main].pc = "no"

\* What request r has made of the files, if nobody else writes them.
Written(r) ==
    /\ r.pc = "update" =>
         /\ r.kind = "login" => files[r.sub].token = r.token
         /\ r.kind = "signout" => files[r.sub].token = NoFile
         /\ r.kind = "folder" => files[r.sub].folder = r.folder
         /\ r.kind = "default" => r.todo = {}
    /\ r.kind = "default" => \A s \in r.users \ r.todo : files[s].default = (s = r.sub)

AloneIn(h) ==
    /\ \A g \in Handler : g # h => reqs[g] = Idle
    /\ Written(reqs[h])
    /\ loads[h].pc # "no" => loads[h].clean
    /\ loads[h].pc = "ok" => fresh

AloneWrites == \A h \in Handler : reqs[h].alone => AloneIn(h)

AloneInv == FreshInv /\ RequestSteps /\ OneUpdates /\ AloneWrites

LEMMA IdleSteps == Steps(Idle) /\ Written(Idle) /\ Written(Idle)' /\ Idle.alone = FALSE
BY IdleType DEF Steps, Written, Idle

\* The requests that have made their first step only.
LEMMA FirstSteps ==
    \A r : /\ r.sub \in Sub
           /\ <<r.pc, r.kind>> \in {<<"merge", "login">>, <<"truncate", "login">>,
                                  <<"default", "default">>}
           => Steps(r)
BY DEF Steps

LEMMA StartedSteps ==
    ASSUME TypeInv, NEW h \in Handler,
           \/ Login(h) \/ LoginFails(h) \/ SignOut(h) \/ StoreDriveFolder(h) \/ StoreDefaultUser(h)
    PROVE  \E r \in Request : /\ Start(h, r) /\ Steps(r)
                              /\ r.pc # "update" /\ (r.kind = "default" => r.todo = r.users)
<1> USE DEF TypeInv, TypeOK, StoreTypeOK
<1>1. CASE Login(h)
  <2> DEFINE r(s, t, pc) == [Idle EXCEPT !.kind = "login", !.sub = s, !.token = t, !.pc = pc]
  <2>1. \A s \in Sub, t \in RawToken, pc \in {"merge", "truncate"} :
          /\ r(s, t, pc) \in Request /\ r(s, t, pc).sub \in Sub
          /\ r(s, t, pc).pc = pc /\ r(s, t, pc).kind = "login"
    BY IdleType DEF Request
  <2>2. PICK s \in Sub, t \in RawToken : Start(h, LoginRequest(s, t))
    <3>1. ASSUME NEW s \in Sub, Issue(s)
          PROVE  FirstToken(issued[s] + 1) \in RawToken
      BY <3>1, IssueType, AccountBounds DEF FirstToken, RawToken
    <3>2. \A s \in Sub : [access |-> grant[s], refresh |-> 0] \in RawToken
      BY AccountBounds DEF RawToken
    <3>3. QED
      BY <1>1, <3>1, <3>2 DEF Login
  <2>3. PICK pc \in {"merge", "truncate"} : LoginRequest(s, t) = r(s, t, pc)
    <3>1. LoginRequest(s, t) = r(s, t, IF t.refresh = 0 THEN "merge" ELSE "truncate")
      BY Zenon DEF LoginRequest
    <3>2. (IF t.refresh = 0 THEN "merge" ELSE "truncate") \in {"merge", "truncate"}
      OBVIOUS
    <3> HIDE DEF r
    <3>3. QED
      BY <3>1, <3>2, Zenon
  <2> HIDE DEF r
  <2>4. QED
    BY <2>1, <2>2, <2>3, FirstSteps
<1>2. CASE SignOut(h)
  <2> DEFINE r(s, t) == [Idle EXCEPT !.pc = "remove", !.kind = "signout", !.sub = s, !.token = t]
  <2>1. \A s \in Sub, t \in RawToken : /\ r(s, t) \in Request /\ Steps(r(s, t))
                                       /\ r(s, t).pc # "update" /\ r(s, t).kind # "default"
    BY IdleType DEF Request, Steps
  <2>2. PICK s \in sessions :
          Start(h, r(s, IF accounts[s] = NoAccount THEN Idle.token ELSE accounts[s].token))
    BY <1>2 DEF SignOut
  <2>3. (IF accounts[s] = NoAccount THEN Idle.token ELSE accounts[s].token) \in RawToken
    BY <2>2, AccountBounds DEF Idle, RawToken, Accounts, Account, Token
  <2> HIDE DEF r
  <2>4. QED
    BY <2>1, <2>2, <2>3
<1>3. CASE StoreDriveFolder(h)
  <2> DEFINE r(s, f) == [Idle EXCEPT !.pc = "truncate", !.kind = "folder", !.sub = s, !.folder = f]
  <2>1. \A s \in Sub, f \in Folder : /\ r(s, f) \in Request /\ Steps(r(s, f))
                                     /\ r(s, f).pc # "update" /\ r(s, f).kind # "default"
    BY IdleType DEF Request, Steps
  <2>2. PICK s \in sessions, f \in Folder : Start(h, r(s, f))
    BY <1>3 DEF StoreDriveFolder
  <2> HIDE DEF r
  <2>3. QED
    BY <2>1, <2>2
<1>4. CASE StoreDefaultUser(h)
  <2> DEFINE r(s, users) == [Idle EXCEPT !.pc = "default", !.kind = "default", !.sub = s,
                                         !.users = users, !.todo = users, !.current = TRUE]
  <2>1. \A s \in Sub, users \in SUBSET Sub :
          /\ r(s, users) \in Request /\ r(s, users).sub \in Sub
          /\ r(s, users).pc = "default" /\ r(s, users).kind = "default"
          /\ r(s, users).todo = r(s, users).users
    BY IdleType DEF Request
  <2>2. PICK s \in Sub : Start(h, r(s, LoggedIn))
    BY <1>4 DEF StoreDefaultUser
  <2>3. LoggedIn \in SUBSET Sub
    BY DEF LoggedIn
  <2> HIDE DEF r
  <2>4. QED
    BY <2>1, <2>2, <2>3, FirstSteps
<1>5. CASE LoginFails(h)
  BY <1>5, IdleType, IdleSteps DEF LoginFails
<1>6. QED
  BY <1>1, <1>2, <1>3, <1>4, <1>5

\* The first step of a request: nobody has been alone who is not alone now.
LEMMA StartAlone ==
    ASSUME AloneInv, NEW h \in Handler, NEW r \in Request, Start(h, r), Steps(r),
           r.pc # "update", r.kind = "default" => r.todo = r.users,
           UNCHANGED <<files, loads, fresh, up>>
    PROVE  RequestSteps' /\ OneUpdates' /\ AloneWrites'
<1> DEFINE q == [r EXCEPT !.alone = (Busy = {})]
<1>1. /\ reqs \in [Handler -> Request] /\ RequestSteps /\ OneUpdates /\ AloneWrites
      /\ up /\ reqs[h] = Idle /\ loads[h].pc = "no"
  BY IdleType DEF AloneInv, FreshInv, TypeInv, TypeOK, Start, OneUpdates
<1>2. /\ q.pc = r.pc /\ q.kind = r.kind /\ q.sub = r.sub /\ q.users = r.users /\ q.todo = r.todo
      /\ q.alone => Busy = {}
  BY DEF Request
<1>3. reqs' = [g \in Handler |-> IF g = h THEN IF r = Idle THEN Idle ELSE q
                                 ELSE IF g \in Busy THEN [reqs[g] EXCEPT !.alone = FALSE]
                                 ELSE Idle]
  BY DEF Start
<1> HIDE DEF q
<1>4. reqs'[h] = IF r = Idle THEN Idle ELSE q
  BY <1>3
<1>5. ASSUME NEW g \in Handler, g # h
      PROVE  \/ reqs'[g] = Idle /\ reqs[g] = Idle
             \/ /\ reqs[g] # Idle /\ reqs'[g].alone = FALSE
                /\ reqs'[g] = [reqs[g] EXCEPT !.alone = FALSE]
  BY <1>1, <1>3, <1>5 DEF Busy, Request
<1>6. RequestSteps'
  <2> SUFFICES ASSUME NEW g \in Handler PROVE Steps(reqs'[g])
    BY DEF RequestSteps, Steps
  <2>1. CASE g = h
    BY <1>2, <1>4, <2>1, IdleSteps DEF Steps
  <2>2. CASE g # h /\ reqs[g] # Idle
    <3>1. reqs'[g] = [reqs[g] EXCEPT !.alone = FALSE] /\ Steps(reqs[g])
      BY <1>1, <1>5, <2>2 DEF RequestSteps
    <3>2. QED
      BY <1>1, <2>2, <3>1 DEF Steps, Request
  <2>3. CASE g # h /\ reqs[g] = Idle
    BY <1>5, <2>3, IdleSteps
  <2>4. QED
    BY <2>1, <2>2, <2>3
<1>7. OneUpdates'
  <2>1. ASSUME NEW g \in Handler, loads[g].pc # "no" PROVE reqs'[g].pc = "update"
    <3>1. g # h /\ reqs[g].pc = "update" /\ reqs[g] # Idle
      BY <1>1, <2>1, IdleType DEF OneUpdates
    <3>2. QED
      BY <1>1, <1>5, <3>1 DEF Request
  <2>2. QED
    BY <1>1, <2>1 DEF OneUpdates
<1>8. AloneWrites'
  <2> SUFFICES ASSUME NEW g \in Handler, reqs'[g].alone PROVE AloneIn(g)'
    BY DEF AloneWrites
  <2>1. g = h /\ r # Idle /\ Busy = {}
    BY <1>2, <1>4, <1>5, IdleSteps
  <2>2. \A f \in Handler : f # h => reqs'[f] = Idle
    BY <1>5, <2>1 DEF Busy
  <2>3. Written(reqs[h])'
    BY <1>2, <1>4, <2>1 DEF Written
  <2>4. QED
    BY <1>1, <2>1, <2>2, <2>3 DEF AloneIn
<1>9. QED
  BY <1>6, <1>7, <1>8

\* A request that is at work makes a step, or returns.  No other one is alone.
LEMMA StepAlone ==
    ASSUME AloneInv, NEW h \in Handler, NEW r, reqs[h] # Idle,
           reqs' = [reqs EXCEPT ![h] = r], Steps(r), r # Idle => r.alone = reqs[h].alone,
           \A g \in Handler : g # h /\ loads'[g].pc # "no" => loads[g].pc # "no",
           loads'[h].pc # "no" => r.pc = "update",
           loads'[Main].pc # "no" => loads[Main].pc # "no",
           r.alone /\ AloneIn(h) => /\ Written(r)'
                                    /\ loads'[h].pc # "no" => loads'[h].clean
                                    /\ loads'[h].pc = "ok" => fresh',
           UNCHANGED up
    PROVE  RequestSteps' /\ OneUpdates' /\ AloneWrites'
<1>1. /\ reqs \in [Handler -> Request] /\ RequestSteps /\ OneUpdates /\ AloneWrites /\ up
  BY DEF AloneInv, FreshInv, TypeInv, TypeOK, OneUpdates
<1>2. reqs'[h] = r /\ \A g \in Handler : g # h => reqs'[g] = reqs[g]
  BY <1>1
<1>3. RequestSteps'
  <2>1. \A g \in Handler : Steps(reqs'[g])
    BY <1>1, <1>2 DEF RequestSteps
  <2>2. QED
    BY <2>1 DEF RequestSteps, Steps
<1>4. OneUpdates'
  BY <1>1, <1>2 DEF OneUpdates
<1>5. AloneWrites'
  <2> SUFFICES ASSUME NEW g \in Handler, reqs'[g].alone PROVE AloneIn(g)'
    BY DEF AloneWrites
  <2>1. g = h
    <3> SUFFICES ASSUME g # h PROVE FALSE
      OBVIOUS
    <3>1. AloneIn(g)
      BY <1>1, <1>2 DEF AloneWrites
    <3>2. QED
      BY <3>1 DEF AloneIn
  <2>2. r.alone /\ AloneIn(h)
    BY <1>1, <1>2, <2>1, IdleSteps DEF AloneWrites
  <2>3. Written(reqs[h])'
    BY <1>2, <2>2 DEF Written
  <2>4. \A f \in Handler : f # h => reqs'[f] = Idle
    BY <1>2, <2>2 DEF AloneIn
  <2>5. QED
    BY <2>1, <2>2, <2>3, <2>4 DEF AloneIn
<1>6. QED
  BY <1>3, <1>4, <1>5

\* What a request keeps from step to step.
SameRequest(r, h) ==
    /\ r.kind = reqs[h].kind /\ r.sub = reqs[h].sub /\ r.folder = reqs[h].folder
    /\ r.users = reqs[h].users /\ r.alone = reqs[h].alone

\* A request that returns leaves nothing to be shown.
LEMMA ReturnAlone ==
    ASSUME AloneInv, NEW h \in Handler, reqs[h] # Idle, Return(h),
           \/ UNCHANGED loads /\ reqs[h].pc # "update"
           \/ loads' = [loads EXCEPT ![h] = Load("no")],
           UNCHANGED up
    PROVE  RequestSteps' /\ OneUpdates' /\ AloneWrites'
<1>1. loads \in [Process -> LoadState] /\ h \in Process /\ Main \in Process /\ Main # h
  BY MainAssumption DEF AloneInv, FreshInv, TypeInv, TypeOK, StoreTypeOK, Process
<1>2. \A p \in Process : p # h => loads'[p] = loads[p]
  BY <1>1
<1>3. loads'[h].pc = "no"
  BY <1>1, LoadType DEF AloneInv, OneUpdates
<1>4. \A g \in Handler : g \in Process
  BY DEF Process
<1>5. QED
  BY <1>1, <1>2, <1>3, <1>4, StepAlone, IdleSteps DEF Return

\* Steps of the handlers that write nothing or leave it to the next step.
LEMMA PlainAlone ==
    ASSUME AloneInv, NEW h \in Handler,
           \/ LoginMerge(h) \/ WriteFails(h) \/ RemoveTokenMissing(h) \/ Revoke(h)
           \/ RevokeFails(h)
    PROVE  RequestSteps' /\ OneUpdates' /\ AloneWrites'
<1>1. reqs \in [Handler -> Request] /\ reqs[h] # Idle /\ reqs[h].pc # "update"
  BY IdleType DEF AloneInv, FreshInv, TypeInv, TypeOK, LoginMerge, WriteFails,
                  RemoveTokenMissing, Revoke, RevokeFails
<1>2. UNCHANGED <<loads, up>>
  <2>1. CASE LoginMerge(h) \/ WriteFails(h) \/ RemoveTokenMissing(h)
    BY <2>1 DEF LoginMerge, WriteFails, RemoveTokenMissing, SameStore, Steady
  <2>2. CASE Revoke(h) \/ RevokeFails(h)
    BY <2>2 DEF Revoke, RevokeFails, SameStore, Steady
  <2>3. QED
    BY <2>1, <2>2
<1>3. CASE Return(h)
  BY <1>1, <1>2, <1>3, ReturnAlone
<1>4. CASE LoginMerge(h) /\ ~Return(h)
  <2> DEFINE t == Merged(reqs[h].token, accounts[reqs[h].sub].token)
  <2>0. PICK r : r = [reqs[h] EXCEPT !.pc = "truncate", !.token = t]
    OBVIOUS
  <2>1. reqs' = [reqs EXCEPT ![h] = r]
    BY <1>1, <1>4, <2>0 DEF LoginMerge
  <2>2. SameRequest(r, h) /\ r.pc = "truncate"
    BY <1>1, <2>0 DEF SameRequest, Request
  <2>3. reqs[h].kind = "login" /\ reqs[h].sub \in Sub /\ loads[h].pc = "no"
    BY <1>1, <1>4 DEF AloneInv, FreshInv, TypeInv, LoginToken, LoginMerge, OneUpdates
  <2>4. Steps(r) /\ Written(r)'
    BY <2>2, <2>3 DEF Steps, Written, SameRequest
  <2>5. QED
    BY <1>1, <1>2, <2>1, <2>2, <2>3, <2>4, StepAlone DEF SameRequest
<1>5. QED
  BY <1>3, <1>4 DEF WriteFails, RemoveTokenMissing, Revoke, RevokeFails

\* The update of a handler has ended: it revokes the token, or returns.
LEMMA UpdatedAlone ==
    ASSUME AloneInv, NEW h \in Handler, Updated(h)
    PROVE  RequestSteps' /\ OneUpdates' /\ AloneWrites'
<1>1. /\ reqs \in [Handler -> Request] /\ reqs[h] # Idle /\ UNCHANGED up
      /\ loads \in [Process -> LoadState] /\ h \in Process /\ Main # h
      /\ loads' = [loads EXCEPT ![h] = Load("no")]
  BY IdleType, MainAssumption
     DEF AloneInv, FreshInv, TypeInv, TypeOK, StoreTypeOK, Process, Updated, Steady
<1>2. CASE Return(h)
  BY <1>1, <1>2, ReturnAlone
<1>3. CASE reqs[h].kind = "signout" /\ Become(h, "revoke")
  <2>0. PICK r : r = [reqs[h] EXCEPT !.pc = "revoke"]
    OBVIOUS
  <2>1. reqs' = [reqs EXCEPT ![h] = r]
    BY <1>1, <1>3, <2>0 DEF Become
  <2>2. SameRequest(r, h) /\ r.pc = "revoke"
    BY <1>1, <2>0 DEF SameRequest, Request
  <2>3. reqs[h].sub \in Sub
    BY <1>3 DEF AloneInv, RequestSteps, Steps
  <2>4. loads'[h].pc = "no" /\ \A p \in Process : p # h => loads'[p] = loads[p]
    BY <1>1, LoadType
  <2>5. \A g \in Handler : g \in Process /\ Main \in Process
    BY DEF Process
  <2>6. Steps(r) /\ Written(r)'
    BY <1>3, <2>2, <2>3 DEF Steps, Written, SameRequest
  <2>7. QED
    BY <1>1, <2>1, <2>2, <2>4, <2>5, <2>6, StepAlone DEF SameRequest
<1>4. QED
  BY <1>2, <1>3 DEF Updated

\* What a write does to the updates, in the way StepAlone asks for.
LEMMA WriteLoads ==
    ASSUME TypeInv, NEW h \in Handler, NEW newFiles,
           Write(newFiles) \/ WriteAndUpdate(h, newFiles)
    PROVE  /\ \A p \in Process : p # h => loads'[p].pc = loads[p].pc
           /\ Write(newFiles) => loads'[h].pc = loads[h].pc
           /\ WriteAndUpdate(h, newFiles) => loads'[h].pc = "list" /\ loads'[h].clean
           /\ files' = newFiles /\ h \in Process /\ Main \in Process /\ Main # h
           /\ \A g \in Handler : g \in Process
<1>1. h \in Process /\ Main \in Process /\ Main # h /\ \A g \in Handler : g \in Process
  BY MainAssumption DEF Process
<1>2. \A l \in LoadState : [l EXCEPT !.clean = FALSE].pc = l.pc
  BY DEF LoadState
<1>3. \A p \in Process : loads[p] \in LoadState
  BY DEF TypeInv, TypeOK, StoreTypeOK
<1>4. CASE Write(newFiles) /\ ~WriteAndUpdate(h, newFiles)
  BY <1>1, <1>2, <1>3, <1>4 DEF Write
<1>5. CASE WriteAndUpdate(h, newFiles)
  <2>1. files' = newFiles
        /\ loads' = [p \in Process |-> IF p = h THEN Load("list")
                                       ELSE [loads[p] EXCEPT !.clean = FALSE]]
    BY <1>5 DEF WriteAndUpdate
  <2>2. loads'[h] = Load("list") /\ Load("list").pc = "list" /\ Load("list").clean
    BY <1>1, <2>1, LoadType
  <2>3. \A p \in Process : p # h => loads'[p].pc = loads[p].pc
    BY <1>2, <1>3, <2>1
  <2>4. Write(newFiles) => loads'[h].pc = loads[h].pc
    BY <1>1, <1>2, <1>3 DEF Write
  <2>5. QED
    BY <1>1, <2>1, <2>2, <2>3, <2>4
<1>6. QED
  BY <1>4, <1>5

LEMMA TruncateAlone ==
    ASSUME AloneInv, NEW h \in Handler, Truncate(h)
    PROVE  RequestSteps' /\ OneUpdates' /\ AloneWrites'
<1>0. PICK r : r = [reqs[h] EXCEPT !.pc = "write"]
  OBVIOUS
<1>1. /\ TypeInv /\ reqs \in [Handler -> Request] /\ reqs[h] # Idle /\ UNCHANGED up
      /\ loads[h].pc = "no" /\ Steps(reqs[h]) /\ reqs[h].pc = "truncate"
  BY IdleType DEF AloneInv, FreshInv, TypeInv, TypeOK, Truncate, Steady, OneUpdates, RequestSteps
<1>2. Write(With(h, Empty, Empty)) /\ reqs' = [reqs EXCEPT ![h] = r]
  BY <1>0, <1>1 DEF Truncate, Become
<1>3. SameRequest(r, h) /\ r.pc = "write"
  BY <1>0, <1>1 DEF SameRequest, Request
<1>4. Steps(r) /\ Written(r)'
  BY <1>1, <1>3 DEF Steps, Written, SameRequest
<1>5. (\A p \in Process : p # h => loads'[p].pc = loads[p].pc) /\ loads'[h].pc = "no"
      /\ Main \in Process /\ Main # h /\ \A g \in Handler : g \in Process
  BY <1>1, <1>2, WriteLoads
<1>6. QED
  BY <1>1, <1>2, <1>3, <1>4, <1>5, StepAlone DEF SameRequest

LEMMA WriteContentAlone ==
    ASSUME AloneInv, NEW h \in Handler, WriteContent(h)
    PROVE  RequestSteps' /\ OneUpdates' /\ AloneWrites'
<1>0. PICK r : r = [reqs[h] EXCEPT !.pc = "update"]
  OBVIOUS
<1>1. /\ TypeInv /\ reqs \in [Handler -> Request] /\ reqs[h] # Idle /\ UNCHANGED up
      /\ Steps(reqs[h]) /\ reqs[h].pc = "write" /\ files \in [Sub -> UserFiles]
  BY IdleType DEF AloneInv, FreshInv, TypeInv, TypeOK, StoreTypeOK, WriteContent, Steady, RequestSteps
<1> DEFINE new == With(h, reqs[h].token, reqs[h].folder)
<1>2. WriteAndUpdate(h, new) /\ reqs' = [reqs EXCEPT ![h] = r]
  BY <1>0, <1>1 DEF WriteContent, WriteAndUpdate, Become
<1>3. SameRequest(r, h) /\ r.pc = "update" /\ r.token = reqs[h].token
      /\ r.kind \in {"login", "folder"} /\ r.sub \in Sub
  BY <1>0, <1>1 DEF SameRequest, Request, Steps
<1>4. /\ r.kind = "login" => new[r.sub].token = r.token
      /\ r.kind = "folder" => new[r.sub].folder = r.folder
  BY <1>1, <1>3 DEF With, SameRequest, UserFiles
<1> HIDE DEF new
<1>5. /\ \A p \in Process : p # h => loads'[p].pc = loads[p].pc
      /\ loads'[h].pc = "list" /\ loads'[h].clean /\ files' = new
      /\ Main \in Process /\ Main # h /\ \A g \in Handler : g \in Process
  BY <1>1, <1>2, WriteLoads
<1>6. Steps(r) /\ Written(r)'
  BY <1>3, <1>4, <1>5 DEF Steps, Written
<1>7. QED
  BY <1>1, <1>2, <1>3, <1>5, <1>6, StepAlone DEF SameRequest

LEMMA RemoveTokenAlone ==
    ASSUME AloneInv, NEW h \in Handler, RemoveToken(h)
    PROVE  RequestSteps' /\ OneUpdates' /\ AloneWrites'
<1>0. PICK r : r = [reqs[h] EXCEPT !.pc = "update"]
  OBVIOUS
<1>1. /\ TypeInv /\ reqs \in [Handler -> Request] /\ reqs[h] # Idle /\ UNCHANGED up
      /\ Steps(reqs[h]) /\ reqs[h].pc = "remove" /\ files \in [Sub -> UserFiles]
  BY IdleType DEF AloneInv, FreshInv, TypeInv, TypeOK, StoreTypeOK, RemoveToken, Steady, RequestSteps
<1> DEFINE new == [files EXCEPT ![reqs[h].sub].token = NoFile]
<1>2. WriteAndUpdate(h, new) /\ reqs' = [reqs EXCEPT ![h] = r]
  BY <1>0, <1>1 DEF RemoveToken, WriteAndUpdate, Become
<1>3. SameRequest(r, h) /\ r.pc = "update" /\ r.kind = "signout" /\ r.sub \in Sub
  BY <1>0, <1>1 DEF SameRequest, Request, Steps
<1>4. new[r.sub].token = NoFile
  BY <1>1, <1>3 DEF SameRequest, UserFiles
<1> HIDE DEF new
<1>5. /\ \A p \in Process : p # h => loads'[p].pc = loads[p].pc
      /\ loads'[h].pc = "list" /\ loads'[h].clean /\ files' = new
      /\ Main \in Process /\ Main # h /\ \A g \in Handler : g \in Process
  BY <1>1, <1>2, WriteLoads
<1>6. Steps(r) /\ Written(r)'
  BY <1>3, <1>4, <1>5 DEF Steps, Written
<1>7. QED
  BY <1>1, <1>2, <1>3, <1>5, <1>6, StepAlone DEF SameRequest

\* One user after the other gets or loses the mark of the default user.
LEMMA WriteDefaultAlone ==
    ASSUME AloneInv, NEW h \in Handler, WriteDefault(h)
    PROVE  RequestSteps' /\ OneUpdates' /\ AloneWrites'
<1>1. /\ TypeInv /\ reqs \in [Handler -> Request] /\ reqs[h] # Idle /\ UNCHANGED up
      /\ loads[h].pc = "no" /\ Steps(reqs[h]) /\ reqs[h].pc = "default"
      /\ files \in [Sub -> UserFiles]
  BY IdleType DEF AloneInv, FreshInv, TypeInv, TypeOK, StoreTypeOK, WriteDefault, Steady,
                  OneUpdates, RequestSteps
<1>2. PICK s \in reqs[h].todo :
        /\ Write([files EXCEPT ![s].default = (s = reqs[h].sub)])
        /\ reqs' = [reqs EXCEPT ![h].todo = @ \ {s}]
  BY DEF WriteDefault
<1>3. PICK r : r = [reqs[h] EXCEPT !.todo = @ \ {s}]
  OBVIOUS
<1>4. reqs' = [reqs EXCEPT ![h] = r]
  <2>1. reqs' = [reqs EXCEPT ![h].todo = @ \ {s}]
    BY <1>2, Zenon
  <2>2. QED
    BY <1>1, <1>3, <2>1
<1>5. SameRequest(r, h) /\ r.pc = "default" /\ r.todo = reqs[h].todo \ {s}
      /\ r.kind = "default" /\ r.sub \in Sub
  BY <1>1, <1>3 DEF SameRequest, Request, Steps
<1>6. \A u \in Sub : files'[u].default = IF u = s THEN (s = reqs[h].sub) ELSE files[u].default
  <2>1. files' = [files EXCEPT ![s].default = (s = reqs[h].sub)]
    BY <1>2, Zenon DEF Write
  <2>2. \A b \in BOOLEAN : \A u \in Sub :
          [files EXCEPT ![s].default = b][u].default = IF u = s THEN b ELSE files[u].default
    BY <1>1 DEF UserFiles
  <2>3. (s = reqs[h].sub) \in BOOLEAN
    OBVIOUS
  <2>4. QED
    BY <2>1, <2>2, <2>3, Zenon
<1>7. Steps(r)
  BY <1>5 DEF Steps
<1>8. Written(reqs[h]) => Written(r)'
  <2> SUFFICES ASSUME Written(reqs[h]), NEW u \in r.users \ r.todo
               PROVE  files'[u].default = (u = r.sub)
    BY <1>5 DEF Written
  <2>1. u \in Sub /\ r.sub = reqs[h].sub
    BY <1>1, <1>5 DEF SameRequest, Request
  <2>2. CASE u = s
    BY <1>6, <2>1, <2>2, Zenon
  <2>3. CASE u # s
    <3>1. files[u].default = (u = reqs[h].sub)
      BY <1>1, <1>5, <2>3 DEF Written, SameRequest
    <3>2. QED
      BY <1>6, <2>1, <2>3, <3>1, Zenon
  <2>4. QED
    BY <2>2, <2>3
<1>9. /\ \A p \in Process : p # h => loads'[p].pc = loads[p].pc
      /\ loads'[h].pc = "no" /\ Main \in Process /\ Main # h /\ \A g \in Handler : g \in Process
  BY <1>1, <1>2, WriteLoads
<1>10. QED
  BY <1>1, <1>4, <1>5, <1>7, <1>8, <1>9, StepAlone DEF SameRequest, AloneIn

\* A request for a new default that cannot write a flag returns.
LEMMA WriteDefaultFailsAlone ==
    ASSUME AloneInv, NEW h \in Handler, WriteDefaultFails(h)
    PROVE  RequestSteps' /\ OneUpdates' /\ AloneWrites'
<1>1. /\ TypeInv /\ reqs \in [Handler -> Request] /\ files \in [Sub -> UserFiles]
      /\ reqs[h] # Idle /\ reqs[h].pc = "default" /\ loads[h].pc = "no" /\ UNCHANGED up
  BY IdleType DEF AloneInv, FreshInv, TypeInv, TypeOK, StoreTypeOK, WriteDefaultFails, Steady,
                  OneUpdates
<1>2. PICK newFiles : Write(newFiles)
  BY <1>1, FlagWritten, Zenon
<1>3. /\ \A p \in Process : p # h => loads'[p].pc = loads[p].pc
      /\ loads'[h].pc = "no" /\ Main \in Process /\ Main # h /\ \A g \in Handler : g \in Process
  BY <1>1, <1>2, WriteLoads
<1>4. reqs' = [reqs EXCEPT ![h] = Idle]
  BY DEF WriteDefaultFails, Return
<1>5. QED
  BY <1>1, <1>3, <1>4, StepAlone, IdleSteps

LEMMA DefaultsWrittenAlone ==
    ASSUME AloneInv, NEW h \in Handler, DefaultsWritten(h)
    PROVE  RequestSteps' /\ OneUpdates' /\ AloneWrites'
<1>0. PICK r : r = [reqs[h] EXCEPT !.pc = "update"]
  OBVIOUS
<1>1. /\ reqs \in [Handler -> Request] /\ reqs[h] # Idle /\ UNCHANGED up
      /\ Steps(reqs[h]) /\ reqs[h].pc = "default" /\ reqs[h].todo = {}
      /\ loads \in [Process -> LoadState] /\ h \in Process /\ Main \in Process /\ Main # h
      /\ \A g \in Handler : g \in Process
  BY IdleType, MainAssumption
     DEF AloneInv, FreshInv, TypeInv, TypeOK, StoreTypeOK, DefaultsWritten, Steady, RequestSteps,
         Process
<1>2. loads' = [loads EXCEPT ![h] = Load("list")] /\ reqs' = [reqs EXCEPT ![h] = r]
      /\ UNCHANGED files
  BY <1>0, <1>1 DEF DefaultsWritten, Become
<1>3. SameRequest(r, h) /\ r.pc = "update" /\ r.todo = {} /\ r.kind = "default" /\ r.sub \in Sub
  BY <1>0, <1>1 DEF SameRequest, Request, Steps
<1>4. loads'[h].pc = "list" /\ loads'[h].clean /\ \A p \in Process : p # h => loads'[p] = loads[p]
  BY <1>1, <1>2, LoadType
<1>5. Steps(r)
  BY <1>3 DEF Steps
<1>6. Written(reqs[h]) => Written(r)'
  BY <1>1, <1>2, <1>3 DEF Written, SameRequest
<1>7. QED
  BY <1>1, <1>2, <1>3, <1>4, <1>5, <1>6, StepAlone DEF SameRequest, AloneIn

\* Each read of an update leaves it clean, unless a write has overtaken it.
LEMMA LoadStepAlone ==
    ASSUME TypeInv, NEW p \in Process, LoadStep(p)
    PROVE  /\ loads[p].pc # "no" /\ \A q \in Process : q # p => loads'[q] = loads[q]
           /\ loads'[p].pc # "ok" /\ (loads[p].clean => loads'[p].clean)
<1>1. loads \in [Process -> LoadState]
  BY DEF TypeInv, TypeOK, StoreTypeOK
<1>2. Load("failed").pc = "failed" /\ Load("failed").clean
  BY LoadType
<1>3. CASE ListUsers(p)
  <2>1. [Load("token") EXCEPT !.todo = {s \in Sub : files[s].dir}].pc = "token"
        /\ [Load("token") EXCEPT !.todo = {s \in Sub : files[s].dir}].clean
    BY DEF Load
  <2>2. QED
    BY <1>1, <1>3, <2>1 DEF ListUsers
<1>4. CASE ReadToken(p)
  BY <1>1, <1>2, <1>4 DEF ReadToken, LoadState
<1>5. CASE ReadFolder(p)
  <2>1. PICK s \in Sub :
          loads' = [loads EXCEPT ![p] = IF files[s].folder = Empty THEN Load("failed")
                                          ELSE [@ EXCEPT !.pc = "default",
                                                         !.acc.folder = files[s].folder]]
    BY <1>5 DEF ReadFolder
  <2>2. CASE files[s].folder = Empty
    BY <1>1, <1>2, <1>5, <2>1, <2>2 DEF ReadFolder
  <2>3. CASE files[s].folder # Empty
    <3> DEFINE x == [loads[p] EXCEPT !.pc = "default", !.acc.folder = files[s].folder]
    <3>1. loads[p].acc \in Account
      BY <1>5 DEF ReadFolder, TypeInv, AccountRead
    <3>2. x.pc = "default" /\ x.clean = loads[p].clean
      BY <1>1, <3>1 DEF LoadState, Account
    <3>3. loads' = [loads EXCEPT ![p] = x]
      BY <1>1, <2>1, <2>3
    <3> HIDE DEF x
    <3>4. QED
      BY <1>1, <1>5, <3>2, <3>3 DEF ReadFolder
  <2>4. QED
    BY <2>2, <2>3
<1>6. CASE ReadDefault(p) \/ ReadDefaultFails(p)
  BY <1>1, <1>6 DEF ReadDefault, ReadDefaultFails, LoadState
<1>7. CASE Userinfo(p)
  BY <1>1, <1>7 DEF Userinfo, LoadState
<1>8. CASE UserinfoRefused(p) \/ LoadFails(p)
  BY <1>1, <1>2, <1>8 DEF UserinfoRefused, LoadFails
<1>9. QED
  BY <1>3, <1>4, <1>5, <1>6, <1>7, <1>8 DEF LoadStep

LEMMA UpdateAlone ==
    ASSUME AloneInv, NEW p \in Process, Update(p)
    PROVE  RequestSteps' /\ OneUpdates' /\ AloneWrites'
<1>1. /\ TypeInv /\ RequestSteps /\ OneUpdates /\ AloneWrites
      /\ UNCHANGED <<files, fresh, reqs, up>>
  BY LoadStepFrame DEF AloneInv, FreshInv, Update, Steady
<1>2. /\ loads[p].pc # "no" /\ \A q \in Process : q # p => loads'[q] = loads[q]
      /\ loads'[p].pc # "ok" /\ (loads[p].clean => loads'[p].clean)
  BY <1>1, LoadStepAlone DEF Update
<1>3. Main \in Process /\ \A g \in Handler : g \in Process
  BY DEF Process
<1>4. RequestSteps'
  BY <1>1 DEF RequestSteps, Steps
<1>5. OneUpdates'
  <2>1. \A q \in Process : loads'[q].pc # "no" => loads[q].pc # "no"
    BY <1>2
  <2>2. QED
    BY <1>1, <1>3, <2>1 DEF OneUpdates
<1>6. AloneWrites'
  <2> SUFFICES ASSUME NEW g \in Handler, reqs[g].alone PROVE AloneIn(g)'
    BY <1>1 DEF AloneWrites
  <2>1. AloneIn(g)
    BY <1>1 DEF AloneWrites
  <2>2. Written(reqs[g])' /\ \A f \in Handler : f # g => reqs'[f] = Idle
    BY <1>1, <2>1 DEF AloneIn, Written
  <2>3. CASE g = p
    <3>1. loads'[g].clean /\ loads'[g].pc # "ok"
      BY <1>2, <2>1, <2>3, Zenon DEF AloneIn
    <3>2. QED
      BY <2>2, <3>1 DEF AloneIn
  <2>4. CASE g # p
    BY <1>1, <1>2, <1>3, <2>1, <2>2, <2>4 DEF AloneIn
  <2>5. QED
    BY <2>3, <2>4
<1>7. QED
  BY <1>4, <1>5, <1>6

\* The accounts of a request that is alone are installed by its own update.
LEMMA ReplaceAlone ==
    ASSUME AloneInv, NEW p \in Process, Replace(p)
    PROVE  RequestSteps' /\ OneUpdates' /\ AloneWrites'
<1>1. /\ RequestSteps /\ OneUpdates /\ AloneWrites
      /\ reqs \in [Handler -> Request] /\ loads \in [Process -> LoadState]
      /\ loads[p].pc = "token" /\ loads' = [loads EXCEPT ![p] = Load("ok")]
      /\ fresh' = loads[p].clean /\ UNCHANGED <<files, up>>
      /\ reqs' = [h \in Handler |-> [reqs[h] EXCEPT !.current = FALSE]]
  BY DEF AloneInv, FreshInv, TypeInv, TypeOK, StoreTypeOK, Replace, Install, Steady
<1>2. \A g \in Handler : g \in Process
  BY DEF Process
<1>3. \A q \in Request : LET n == [q EXCEPT !.current = FALSE]
                         IN  /\ n.pc = q.pc /\ n.kind = q.kind /\ n.sub = q.sub
                             /\ n.token = q.token /\ n.folder = q.folder /\ n.users = q.users
                             /\ n.todo = q.todo /\ n.alone = q.alone
  BY DEF Request
<1>4. [Idle EXCEPT !.current = FALSE] = Idle
  <2>1. \A q \in Request : q.current = FALSE => [q EXCEPT !.current = FALSE] = q
    BY DEF Request
  <2>2. QED
    BY <2>1, IdleType
<1>5. ASSUME NEW g \in Handler
      PROVE  /\ reqs[g] = Idle => reqs'[g] = Idle
             /\ reqs'[g].pc = reqs[g].pc /\ reqs'[g].kind = reqs[g].kind
             /\ reqs'[g].sub = reqs[g].sub /\ reqs'[g].token = reqs[g].token
             /\ reqs'[g].folder = reqs[g].folder /\ reqs'[g].users = reqs[g].users
             /\ reqs'[g].todo = reqs[g].todo /\ reqs'[g].alone = reqs[g].alone
  BY <1>1, <1>3, <1>4
<1>6. \A q \in Process : loads'[q] = IF q = p THEN Load("ok") ELSE loads[q]
  BY <1>1
<1>7. Load("ok").pc = "ok" /\ Load("ok").clean
  BY LoadType
<1>8. RequestSteps'
  BY <1>1, <1>5 DEF RequestSteps, Steps
<1>9. OneUpdates'
  <2>1. ASSUME NEW g \in Handler, loads'[g].pc # "no" PROVE reqs'[g].pc = "update"
    BY <1>1, <1>2, <1>5, <1>6, <2>1 DEF OneUpdates
  <2>2. ASSUME NEW g \in Handler, reqs'[g] # Idle PROVE up'
    BY <1>1, <1>5, <2>2 DEF OneUpdates
  <2>3. up' => loads'[Main].pc = "no"
    BY <1>1, <1>6 DEF OneUpdates, Process
  <2>4. QED
    BY <2>1, <2>2, <2>3 DEF OneUpdates
<1>10. AloneWrites'
  <2> SUFFICES ASSUME NEW g \in Handler, reqs'[g].alone PROVE AloneIn(g)'
    BY DEF AloneWrites
  <2>1. AloneIn(g) /\ reqs[g] # Idle
    BY <1>1, <1>5, IdleSteps DEF AloneWrites
  <2>2. p = g
    <3>1. p # Main
      BY <1>1, <2>1 DEF OneUpdates
    <3>2. p \in Handler /\ reqs[p] # Idle
      BY <1>1, <3>1, IdleType DEF OneUpdates, Process
    <3>3. QED
      BY <2>1, <3>2 DEF AloneIn
  <2>3. \A f \in Handler : f # g => reqs'[f] = Idle
    BY <1>5, <2>1 DEF AloneIn
  <2>4. Written(reqs[g])'
    BY <1>1, <1>5, <2>1 DEF AloneIn, Written
  <2>5. fresh' /\ loads'[g].clean
    BY <1>1, <1>2, <1>6, <1>7, <2>1, <2>2 DEF AloneIn
  <2>6. QED
    BY <2>3, <2>4, <2>5 DEF AloneIn
<1>11. QED
  BY <1>8, <1>9, <1>10

LEMMA HandlerAlone ==
    ASSUME AloneInv, NEW h \in Handler, HandlerStep(h)
    PROVE  RequestSteps' /\ OneUpdates' /\ AloneWrites'
<1>1. CASE \/ Login(h) \/ LoginFails(h) \/ SignOut(h) \/ StoreDriveFolder(h)
           \/ StoreDefaultUser(h)
  <2>1. UNCHANGED <<files, loads, fresh, up>>
    BY <1>1, Zenon DEF Login, LoginFails, SignOut, StoreDriveFolder, StoreDefaultUser, SameStore
  <2>2. TypeInv
    BY DEF AloneInv, FreshInv
  <2>3. QED
    BY <1>1, <2>1, <2>2, StartedSteps, StartAlone
<1>2. CASE \/ LoginMerge(h) \/ WriteFails(h) \/ RemoveTokenMissing(h) \/ Revoke(h)
           \/ RevokeFails(h)
  BY <1>2, PlainAlone
<1>3. CASE Truncate(h) \/ WriteContent(h) \/ RemoveToken(h)
  BY <1>3, TruncateAlone, WriteContentAlone, RemoveTokenAlone
<1>4. CASE WriteDefault(h) \/ WriteDefaultFails(h) \/ DefaultsWritten(h) \/ Updated(h)
  BY <1>4, WriteDefaultAlone, WriteDefaultFailsAlone, DefaultsWrittenAlone, UpdatedAlone
<1>5. QED
  BY <1>1, <1>2, <1>3, <1>4 DEF HandlerStep

LEMMA AloneStep == AloneInv /\ [Next]_vars => AloneInv'
<1> SUFFICES ASSUME AloneInv, [Next]_vars PROVE RequestSteps' /\ OneUpdates' /\ AloneWrites'
  BY FreshStep DEF AloneInv
<1>0. /\ loads \in [Process -> LoadState] /\ RequestSteps /\ OneUpdates /\ AloneWrites
  BY DEF AloneInv, FreshInv, TypeInv, TypeOK, StoreTypeOK
<1>1. ASSUME NEW h \in Handler, HandlerStep(h)
      PROVE  RequestSteps' /\ OneUpdates' /\ AloneWrites'
  BY <1>1, HandlerAlone
<1>2. ASSUME NEW p \in Process, Update(p) \/ Replace(p)
      PROVE  RequestSteps' /\ OneUpdates' /\ AloneWrites'
  BY <1>2, UpdateAlone, ReplaceAlone
<1>3. CASE StartupDone
  <2>1. /\ ~up /\ up' /\ UNCHANGED <<files, fresh, reqs>>
        /\ loads' = [loads EXCEPT ![Main] = Load("no")]
    BY <1>3 DEF StartupDone
  <2>2. \A g \in Handler : reqs[g] = Idle /\ loads'[g] = loads[g]
    BY <1>0, <2>1, MainAssumption DEF OneUpdates, Process
  <2>3. loads'[Main].pc = "no"
    BY <1>0, <2>1, LoadType DEF Process
  <2>4. QED
    BY <1>0, <2>1, <2>2, <2>3, IdleSteps DEF RequestSteps, Steps, OneUpdates, AloneWrites
<1>4. CASE StartupFails \/ Crash
  <2>1. /\ loads' = [p \in Process |-> Load(IF p = Main THEN "list" ELSE "no")]
        /\ reqs' = [h \in Handler |-> Idle] /\ ~up'
    BY <1>4 DEF StartupFails, Crash, Restart
  <2>2. \A g \in Handler : reqs'[g] = Idle /\ loads'[g].pc = "no"
    BY <2>1, LoadType, MainAssumption DEF Process
  <2>3. QED
    BY <2>1, <2>2, IdleSteps DEF RequestSteps, Steps, OneUpdates, AloneWrites
<1>5. ASSUME (\E s \in Sub : RevokeAtGoogle(s)) \/ UNCHANGED vars
      PROVE  RequestSteps' /\ OneUpdates' /\ AloneWrites'
  <2>1. UNCHANGED <<files, loads, fresh, reqs, up>>
    BY <1>5 DEF RevokeAtGoogle, SameStore, Steady, vars, storeVars
  <2>2. QED
    BY <1>0, <2>1 DEF RequestSteps, Steps, OneUpdates, AloneWrites, AloneIn, Written
<1>6. QED
  BY <1>1, <1>2, <1>3, <1>4, <1>5 DEF Next

LEMMA AloneInit == Init => AloneInv
<1> SUFFICES ASSUME Init PROVE RequestSteps /\ OneUpdates /\ AloneWrites
  BY FreshInit DEF AloneInv
<1>1. /\ loads = [p \in Process |-> Load(IF p = Main THEN "list" ELSE "no")]
      /\ reqs = [h \in Handler |-> Idle] /\ ~up
  BY DEF Init
<1>2. \A g \in Handler : reqs[g] = Idle /\ loads[g].pc = "no"
  BY <1>1, LoadType, MainAssumption DEF Process
<1>3. QED
  BY <1>1, <1>2, IdleSteps DEF RequestSteps, OneUpdates, AloneWrites

\* Once a request that ran without another one has updated the accounts, memory is
\* what is on disk, and on disk is what the request has written.
LEMMA AloneShows == AloneInv => AloneTakesEffect
<1> SUFFICES ASSUME AloneInv, NEW h \in Handler, loads[h].pc = "ok", reqs[h].alone
             PROVE  LET r == reqs[h]
                        a == accounts[r.sub]
                    IN  CASE r.kind = "login"   -> a # NoAccount /\ a.token = r.token
                          [] r.kind = "signout" -> a = NoAccount
                          [] r.kind = "folder"  -> a # NoAccount => a.folder = r.folder
                          [] r.kind = "default" -> \A s \in r.users \cap LoggedIn :
                                  accounts[s].default <=> (s = r.sub /\ accounts[s].flagRead)
  BY DEF AloneTakesEffect
<1> DEFINE r == reqs[h]
<1>1. /\ r \in Request /\ r # Idle /\ Steps(r) /\ r.pc = "update" /\ Written(r) /\ fresh
      /\ r.kind = "login" => r.token \in Token
  BY IdleSteps DEF AloneInv, FreshInv, TypeInv, TypeOK, LoginToken, RequestSteps, OneUpdates,
                   AloneWrites, AloneIn
<1>2. ASSUME NEW s \in Sub
      PROVE  /\ files[s].token \in Token => accounts[s] # NoAccount
             /\ accounts[s] # NoAccount =>
                  /\ files[s].token \in Token
                  /\ accounts[s].token = files[s].token /\ accounts[s].folder = files[s].folder
                  /\ accounts[s].default <=> (files[s].default /\ accounts[s].flagRead)
  <2>1. Shows(accounts[s], s)
    BY <1>1 DEF AloneInv, FreshInv, FreshIsDisk
  <2>2. CASE files[s].token \notin Token
    BY <2>1, <2>2 DEF Shows, Loaded
  <2>3. CASE files[s].token \in Token
    <3>1. files[s].folder \in Folder \cup {NoFile, Empty} /\ files[s].default \in BOOLEAN
      BY DEF AloneInv, FreshInv, TypeInv, TypeOK, StoreTypeOK, UserFiles
    <3>2. PICK b \in BOOLEAN, read \in BOOLEAN :
            /\ accounts[s] = [token |-> files[s].token, folder |-> files[s].folder,
                              default |-> b, flagRead |-> read]
            /\ b <=> (files[s].default /\ read)
      BY <2>1, <2>3, <3>1, Zenon DEF Shows, Loaded
    <3>3. accounts[s] # NoAccount
      BY <2>3, <3>1, <3>2, NothingAssumption
    <3>4. QED
      BY <2>3, <3>2, <3>3
  <2>4. QED
    BY <2>2, <2>3
<1>3. r.sub \in Sub /\ r.kind \in {"login", "signout", "folder", "default"}
  BY <1>1 DEF Steps, Request
<1> HIDE DEF r
<1>4. /\ r.kind = "login" => accounts[r.sub] # NoAccount /\ accounts[r.sub].token = r.token
      /\ r.kind = "signout" => accounts[r.sub] = NoAccount
      /\ r.kind = "folder" /\ accounts[r.sub] # NoAccount => accounts[r.sub].folder = r.folder
  BY <1>1, <1>2, <1>3, NothingAssumption DEF Written
<1>5. ASSUME r.kind = "default", NEW s \in r.users \cap LoggedIn
      PROVE  accounts[s].default <=> (s = r.sub /\ accounts[s].flagRead)
  <2>1. s \in Sub /\ accounts[s] # NoAccount
    BY <1>5 DEF LoggedIn
  <2>2. files[s].default = (s = r.sub)
    BY <1>1, <1>5 DEF Written
  <2>3. QED
    BY <1>2, <2>1, <2>2
<1>6. QED
  BY <1>3, <1>4, <1>5, Zenon DEF r

\* A handler that ran without another one, and whose update succeeded, finds its own
\* change in memory, whatever the startup code, crashes and Google did before.
THEOREM AloneTakesEffectHolds == Spec => []AloneTakesEffect
BY AloneInit, AloneStep, AloneShows, PTL DEF Spec

=============================================================================
