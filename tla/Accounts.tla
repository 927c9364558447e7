------------------------------ MODULE Accounts ------------------------------
(***************************************************************************)
(* Accounts, sessions, roles and the sharing of boards, as the HTTP        *)
(* handlers change them (KANBANODON_AUTH_MODE=local).                      *)
(*                                                                         *)
(* As in Tickets, transactions are atomic and the statements of a handler  *)
(* that run outside one interleave with other handlers.  The middleware    *)
(* withUser is the first of them: what it reads about the session and the  *)
(* account is a copy that may be out of date when the handler acts.        *)
(*                                                                         *)
(* Passwords are abstracted to versions: every write of a password makes a *)
(* new one, and a client knows a password when it names its version.       *)
(***************************************************************************)
EXTENDS Naturals, FiniteSets

CONSTANTS
  Clients,        \* request slots
  Requests,       \* the requests that clients send
  Names,          \* user names
  MaxUsers,       \* bound: account ids are 1..MaxUsers
  MaxBoards,      \* bound: board ids are 1..MaxBoards
  MaxTokens,      \* bound: session tokens are 1..MaxTokens
  MaxVersion,     \* bound: password versions are 1..MaxVersion
  AllowSignup,    \* KANBANODON_ALLOW_SIGNUP
  InitialStores   \* databases the first start may find

Users == 1 .. MaxUsers
Boards == 1 .. MaxBoards
Tokens == 1 .. MaxTokens
Versions == 1 .. MaxVersion

DefaultAdmin == "kanbanoadmin"

Account == [name: Names, admin: BOOLEAN, mustChange: BOOLEAN, version: Versions]

Request ==
       [kind: {"login"}, name: Names, version: Versions]
  \union [kind: {"signup"}, name: Names]
  \union [kind: {"logout", "createBoard"}]
  \union [kind: {"createUser"}, name: Names, admin: BOOLEAN, board: {0} \union Boards]
  \union [kind: {"setRole"}, id: Users, admin: BOOLEAN]
  \union [kind: {"deleteUser", "reset"}, id: Users]
  \union [kind: {"password"}, version: Versions]
  \union [kind: {"share"}, board: Boards, id: Users, access: BOOLEAN]

ASSUME ParametersAssumption ==
  /\ MaxUsers \in Nat \ {0} /\ MaxBoards \in Nat
  /\ MaxTokens \in Nat /\ MaxVersion \in Nat \ {0}
  /\ AllowSignup \in BOOLEAN
  /\ DefaultAdmin \in Names
  /\ Requests \subseteq Request

-----------------------------------------------------------------------------
VARIABLES
  users,        \* table users: a function from the ids in use to accounts
  sessions,     \* table sessions: a function from stored tokens
  issued,       \* how many tokens have been handed out
  boards,       \* table boards: a function from ids to owners, 0 for none
  access,       \* table board_users: a function from <<board, user>> to full_access
  initialized,  \* config.db: bootstrap_initialized
  server,       \* how far the process has come, "up" once it listens
  handler       \* per request slot: how far its handler has come

store == <<users, sessions, issued, boards, access, initialized>>
vars == <<users, sessions, issued, boards, access, initialized, server, handler>>

(* opened: the password version the session stands for; only the           *)
(* properties read it.                                                     *)
Session == [user: Users, opened: Versions, live: BOOLEAN]

Idle == [phase |-> "idle"]

(* user, admin: what withUser read.  target: an account or owner the       *)
(* handler has read or made.                                               *)
Handling == [phase: {"received", "session", "ready", "checked", "known",
                     "created", "granting"},
             request: Request, token: {0} \union Tokens,
             user: {0} \union Users, admin: BOOLEAN, target: {0} \union Users]

At(c, phase, kind) ==
  handler[c].phase = phase /\ handler[c].request.kind = kind

Reply(c) == handler' = [handler EXCEPT ![c] = Idle]
Advance(c, phase) == handler' = [handler EXCEPT ![c].phase = phase]

Public == {"login", "signup", "logout"}

(* Mutant: LastInsertId fails and nobody looks.                            *)
NewIdsMutant(table, ids) == {0}

(* integer primary key: one more than the largest id in the table.         *)
NewIds(table, ids) ==
  {n \in ids : /\ \A i \in DOMAIN table : i < n
               /\ n = 1 \/ n - 1 \in DOMAIN table}

With(table, key, row) ==
  [k \in DOMAIN table \union {key} |-> IF k = key THEN row ELSE table[k]]

Admins == {i \in DOMAIN users : users[i].admin}

(* canAccessBoard, for a board that exists: ownership does not count.      *)
CanAccess(i, b) ==
  users[i].admin \/ (<<b, i>> \in DOMAIN access /\ access[<<b, i>>])

Free(name) == \A i \in DOMAIN users : users[i].name # name

-----------------------------------------------------------------------------
(* Sessions *)

Opened(token, i, version) ==
  With(sessions, token, [user |-> i, opened |-> version, live |-> TRUE])

(* Mutant: the sessions of the account stay.                               *)
RevokedMutant(i, kept) == sessions

(* The sessions after those of account i are deleted, all but "kept".      *)
Revoked(i, kept) ==
  [t \in {s \in DOMAIN sessions : sessions[s].user # i \/ s = kept} |-> sessions[t]]

(* Mutant: any session of the account will do, not only the cookie's.      *)
HoldsSessionMutant(c) ==
  \E t \in DOMAIN sessions : sessions[t].user = handler[c].user /\ sessions[t].live

(* passwordSession: the cookie still names an unexpired session of the     *)
(* account.                                                                *)
HoldsSession(c) ==
  LET t == handler[c].token
  IN t \in DOMAIN sessions /\ sessions[t].user = handler[c].user /\ sessions[t].live

-----------------------------------------------------------------------------
(* Start, stop and time *)

FirstAdmin(i) ==
  /\ i \in Admins
  /\ \A j \in Admins : users[i].name = DefaultAdmin
                       \/ (users[j].name # DefaultAdmin /\ i <= j)

(* grantUserAllBoards: rows for the boards that have none, then every row  *)
(* of the user is set.                                                     *)
GrantedMissing(i) ==
  LET new == {p \in (DOMAIN boards) \X {i} : p \notin DOMAIN access}
  IN [p \in DOMAIN access \union new |-> IF p \in new THEN TRUE ELSE access[p]]

GrantedAll(i) == [p \in DOMAIN access |-> access[p] \/ p[2] = i]

(* bootstrapAdmin creates the first account of a fresh installation.  Any  *)
(* other installation without an administrator does not start.             *)
BootInsert ==
  /\ server = "down"
  /\ ~initialized /\ DOMAIN users = {}
  /\ users' = With(users, 1, [name |-> DefaultAdmin, admin |-> TRUE,
                              mustChange |-> TRUE, version |-> 1])
  /\ server' = "marking"
  /\ UNCHANGED <<sessions, issued, boards, access, initialized, handler>>

BootFindAdmin ==
  /\ server = "down"
  /\ Admins # {}
  /\ server' = "marking"
  /\ UNCHANGED <<store, handler>>

(* The marker is in a database of its own.                                 *)
BootMark ==
  /\ server = "marking"
  /\ initialized' = TRUE
  /\ \E i \in Admins :
       FirstAdmin(i) /\ server' = IF users[i].name = DefaultAdmin
                                  THEN "inserting" ELSE "assigning"
  /\ UNCHANGED <<users, sessions, issued, boards, access, handler>>

BootGrantMissing ==
  /\ server = "inserting"
  /\ \E i \in Admins : FirstAdmin(i) /\ access' = GrantedMissing(i)
  /\ server' = "updating"
  /\ UNCHANGED <<users, sessions, issued, boards, initialized, handler>>

BootGrantAll ==
  /\ server = "updating"
  /\ \E i \in Admins : FirstAdmin(i) /\ access' = GrantedAll(i)
  /\ server' = "assigning"
  /\ UNCHANGED <<users, sessions, issued, boards, initialized, handler>>

(* ensureBoardOwners: boards of older versions get the administrator.      *)
BootAssignOwners ==
  /\ server = "assigning"
  /\ \E i \in Admins :
       FirstAdmin(i) /\ boards' = [b \in DOMAIN boards |-> IF boards[b] = 0 THEN i ELSE boards[b]]
  /\ server' = "up"
  /\ UNCHANGED <<users, sessions, issued, access, initialized, handler>>

Boot == \/ BootInsert \/ BootFindAdmin \/ BootMark
        \/ BootGrantMissing \/ BootGrantAll \/ BootAssignOwners

Crash ==
  /\ server # "down"
  /\ server' = "down"
  /\ handler' = [c \in Clients |-> Idle]
  /\ UNCHANGED store

(* A session reaches its expiry time.                                      *)
Expire ==
  /\ \E t \in DOMAIN sessions :
       sessions[t].live /\ sessions' = [sessions EXCEPT ![t].live = FALSE]
  /\ UNCHANGED <<users, issued, boards, access, initialized, server, handler>>

-----------------------------------------------------------------------------
(* Before the handler *)

Receive(c) ==
  /\ server = "up"
  /\ handler[c] = Idle
  /\ \E q \in Requests, t \in 0 .. issued :
       /\ handler' = [handler EXCEPT ![c] =
            [phase |-> IF q.kind \in Public THEN "ready" ELSE "received",
             request |-> q, token |-> t, user |-> 0, admin |-> FALSE, target |-> 0]]
  /\ UNCHANGED <<store, server>>

(* currentUser looks the session up; one that has expired is removed.      *)
FindSession(c) ==
  /\ handler[c].phase = "received"
  /\ LET t == handler[c].token
     IN /\ t \in DOMAIN sessions
        /\ IF sessions[t].live
           THEN /\ handler' = [handler EXCEPT ![c].phase = "session",
                                              ![c].user = sessions[t].user]
                /\ UNCHANGED sessions
           ELSE /\ sessions' = [s \in DOMAIN sessions \ {t} |-> sessions[s]]
                /\ Reply(c)
  /\ UNCHANGED <<users, issued, boards, access, initialized, server>>

(* currentUser reads the account in a second statement; one that must      *)
(* change its password may do nothing else.  The role is the copy the      *)
(* handler goes by.                                                        *)
FindUser(c) ==
  /\ handler[c].phase = "session"
  /\ LET i == handler[c].user
     IN /\ i \in DOMAIN users
        /\ users[i].mustChange => handler[c].request.kind = "password"
        /\ handler' = [handler EXCEPT ![c].phase = "ready",
                                      ![c].admin = users[i].admin]
  /\ UNCHANGED <<store, server>>

(* A check or a statement fails and the transaction rolls back.            *)
Fail(c) ==
  /\ handler[c] # Idle
  /\ Reply(c)
  /\ UNCHANGED <<store, server>>

-----------------------------------------------------------------------------
(* Login, signup, logout: no middleware *)

(* Credentials and session are one transaction.                            *)
Login(c) ==
  /\ At(c, "ready", "login")
  /\ issued < MaxTokens
  /\ \E i \in DOMAIN users :
       /\ users[i].name = handler[c].request.name
       /\ users[i].version = handler[c].request.version
       /\ sessions' = Opened(issued + 1, i, users[i].version)
  /\ issued' = issued + 1
  /\ Reply(c)
  /\ UNCHANGED <<users, boards, access, initialized, server>>

(* createAccount with the session in the same transaction.                 *)
Signup(c) ==
  /\ At(c, "ready", "signup")
  /\ AllowSignup
  /\ issued < MaxTokens
  /\ handler[c].request.name # DefaultAdmin /\ Free(handler[c].request.name)
  /\ \E n \in NewIds(users, Users) :
       /\ users' = With(users, n, [name |-> handler[c].request.name, admin |-> FALSE,
                                   mustChange |-> FALSE, version |-> 1])
       /\ sessions' = Opened(issued + 1, n, 1)
  /\ issued' = issued + 1
  /\ Reply(c)
  /\ UNCHANGED <<boards, access, initialized, server>>

Logout(c) ==
  /\ At(c, "ready", "logout")
  /\ sessions' = [s \in DOMAIN sessions \ {handler[c].token} |-> sessions[s]]
  /\ Reply(c)
  /\ UNCHANGED <<users, issued, boards, access, initialized, server>>

-----------------------------------------------------------------------------
(* Account management *)

(* userCreate commits the account first; the board to share exists.        *)
CreateUser(c) ==
  /\ At(c, "ready", "createUser")
  /\ LET q == handler[c].request
     IN /\ handler[c].admin
        /\ ~q.admin /\ q.board # 0 => q.board \in DOMAIN boards
        /\ q.name # DefaultAdmin /\ Free(q.name)
        /\ \E n \in NewIds(users, Users) :
             /\ users' = With(users, n, [name |-> q.name, admin |-> q.admin,
                                         mustChange |-> TRUE, version |-> 1])
             /\ handler' = IF q.admin \/ q.board # 0
                  THEN [handler EXCEPT ![c].phase = "created", ![c].target = n]
                  ELSE [handler EXCEPT ![c] = Idle]
  /\ UNCHANGED <<sessions, issued, boards, access, initialized, server>>

(* ... and then grants access, to every board for an administrator.        *)
GrantCreated(c) ==
  /\ At(c, "created", "createUser")
  /\ LET q == handler[c].request
     IN IF q.admin
        THEN /\ access' = GrantedMissing(handler[c].target)
             /\ Advance(c, "granting")
        ELSE /\ access' = With(access, <<q.board, handler[c].target>>, TRUE)
             /\ Reply(c)
  /\ UNCHANGED <<users, sessions, issued, boards, initialized, server>>

GrantCreatedAll(c) ==
  /\ At(c, "granting", "createUser")
  /\ access' = GrantedAll(handler[c].target)
  /\ Reply(c)
  /\ UNCHANGED <<users, sessions, issued, boards, initialized, server>>

(* Mutant: the number of administrators is not looked at.                  *)
MayLoseMutant(i) == TRUE

(* The installation keeps an administrator when account i goes.            *)
MayLose(i) == users[i].admin => Cardinality(Admins) > 1

(* Mutant: the boards of the deleted account keep their owner.             *)
TransferredMutant(from, to) == boards

(* Deletion hands the boards of the account to the acting administrator.   *)
Transferred(from, to) ==
  [b \in DOMAIN boards |-> IF boards[b] = from THEN to ELSE boards[b]]

(* Mutant: the new owner gets no access row.                               *)
AccessAfterMutant(from, to) ==
  [p \in {r \in DOMAIN access : r[2] # from} |-> access[p]]

(* The new owner gets access, then the rows of the account are deleted.    *)
AccessAfter(from, to) ==
  LET owned == {b \in DOMAIN boards : boards[b] = from} \X {to}
  IN [p \in {r \in DOMAIN access \union owned : r[2] # from} |->
        p \in owned \/ access[p]]

DeleteUser(c) ==
  /\ At(c, "ready", "deleteUser")
  /\ LET i == handler[c].request.id
         u == handler[c].user
     IN /\ handler[c].admin
        /\ i # u
        /\ i \in DOMAIN users
        /\ MayLose(i)
        /\ users' = [j \in DOMAIN users \ {i} |-> users[j]]
        /\ boards' = Transferred(i, u)
        /\ access' = AccessAfter(i, u)
        /\ sessions' = Revoked(i, 0)
  /\ Reply(c)
  /\ UNCHANGED <<issued, initialized, server>>

(* userAdmin counts the administrators in a statement of its own ...       *)
CountAdmins(c) ==
  /\ At(c, "ready", "setRole")
  /\ LET q == handler[c].request
     IN /\ handler[c].admin
        /\ ~q.admin => q.id # handler[c].user /\ Cardinality(Admins) > 1
  /\ Advance(c, "checked")
  /\ UNCHANGED <<store, server>>

(* ... and then writes the role.                                           *)
SetRole(c) ==
  /\ At(c, "checked", "setRole")
  /\ LET q == handler[c].request
     IN /\ q.id \in DOMAIN users
        /\ users' = [users EXCEPT ![q.id].admin = q.admin]
  /\ Reply(c)
  /\ UNCHANGED <<sessions, issued, boards, access, initialized, server>>

(* userPassword: session and role are read again in the transaction, and   *)
(* the account is signed out everywhere.                                   *)
ResetPassword(c) ==
  /\ At(c, "ready", "reset")
  /\ LET i == handler[c].request.id
         u == handler[c].user
     IN /\ handler[c].admin
        /\ HoldsSession(c)
        /\ u \in Admins /\ ~users[u].mustChange
        /\ i \in DOMAIN users /\ users[i].version < MaxVersion
        /\ users' = [users EXCEPT ![i].version = @ + 1, ![i].mustChange = TRUE]
        /\ sessions' = Revoked(i, 0)
  /\ Reply(c)
  /\ UNCHANGED <<issued, boards, access, initialized, server>>

(* password: the current one is needed unless it has to be changed; every  *)
(* other session of the account ends.                                      *)
ChangePassword(c) ==
  /\ At(c, "ready", "password")
  /\ LET u == handler[c].user
         t == handler[c].token
         kept == Revoked(u, t)
     IN /\ HoldsSession(c)
        /\ u \in DOMAIN users /\ users[u].version < MaxVersion
        /\ users[u].mustChange \/ users[u].version = handler[c].request.version
        /\ users' = [users EXCEPT ![u].version = @ + 1, ![u].mustChange = FALSE]
        /\ sessions' = [s \in DOMAIN kept |->
             IF s = t THEN [kept[s] EXCEPT !.opened = users[u].version + 1] ELSE kept[s]]
  /\ Reply(c)
  /\ UNCHANGED <<issued, boards, access, initialized, server>>

-----------------------------------------------------------------------------
(* Boards *)

CreateBoard(c) ==
  /\ At(c, "ready", "createBoard")
  /\ \E n \in NewIds(boards, Boards) :
       /\ boards' = With(boards, n, handler[c].user)
       /\ access' = With(access, <<n, handler[c].user>>, TRUE)
  /\ Reply(c)
  /\ UNCHANGED <<users, sessions, issued, initialized, server>>

(* Mutant: the owner is treated like any other user.                       *)
KeepsOwnerMutant(q, owner) == TRUE

KeepsOwner(q, owner) == q.id = owner => q.access

(* boardAccess reads the owner, ...                                        *)
ReadOwner(c) ==
  /\ At(c, "ready", "share")
  /\ LET q == handler[c].request
     IN /\ q.board \in DOMAIN boards
        /\ handler[c].admin \/ boards[q.board] = handler[c].user
        /\ KeepsOwner(q, boards[q.board])
  /\ Advance(c, "checked")
  /\ UNCHANGED <<store, server>>

(* Mutant: any account id is accepted.                                     *)
ExistsMutant(i) == TRUE

Exists(i) == i \in DOMAIN users

(* ... looks for the user, ...                                             *)
ReadUser(c) ==
  /\ At(c, "checked", "share")
  /\ Exists(handler[c].request.id)
  /\ Advance(c, "known")
  /\ UNCHANGED <<store, server>>

(* ... and writes the row.                                                 *)
Share(c) ==
  /\ At(c, "known", "share")
  /\ LET q == handler[c].request
     IN access' = With(access, <<q.board, q.id>>, q.access)
  /\ Reply(c)
  /\ UNCHANGED <<users, sessions, issued, boards, initialized, server>>

-----------------------------------------------------------------------------
(* Databases of older versions: some accounts and boards, perhaps without  *)
(* an owner.                                                               *)
WellFormed(s) ==
  /\ DOMAIN s.users \subseteq Users /\ s.users \in [DOMAIN s.users -> Account]
  /\ \A i, j \in DOMAIN s.users : s.users[i].name = s.users[j].name => i = j
  /\ DOMAIN s.boards \subseteq Boards
  /\ s.boards \in [DOMAIN s.boards -> {0} \union DOMAIN s.users]
  /\ DOMAIN s.access \subseteq (DOMAIN s.boards) \X (DOMAIN s.users)
  /\ s.access \in [DOMAIN s.access -> BOOLEAN]
  /\ \A b \in DOMAIN s.boards : s.boards[b] # 0 =>
       <<b, s.boards[b]>> \in DOMAIN s.access /\ s.access[<<b, s.boards[b]>>]

ASSUME StoresAssumption == \A s \in InitialStores : WellFormed(s)

Init ==
  /\ \E s \in InitialStores : users = s.users /\ boards = s.boards /\ access = s.access
  /\ sessions = [t \in {} |-> 0]
  /\ issued = 0
  /\ initialized = FALSE
  /\ server = "down"
  /\ handler = [c \in Clients |-> Idle]

Handle(c) ==
  \/ Receive(c) \/ FindSession(c) \/ FindUser(c) \/ Fail(c)
  \/ Login(c) \/ Signup(c) \/ Logout(c)
  \/ CreateUser(c) \/ GrantCreated(c) \/ GrantCreatedAll(c) \/ DeleteUser(c)
  \/ CountAdmins(c) \/ SetRole(c) \/ ResetPassword(c) \/ ChangePassword(c)
  \/ CreateBoard(c) \/ ReadOwner(c) \/ ReadUser(c) \/ Share(c)

Next == Boot \/ Crash \/ Expire \/ \E c \in Clients : Handle(c)

Spec == Init /\ [][Next]_vars
-----------------------------------------------------------------------------
(* Properties *)

(* The tables and the handlers hold values of the right kind.              *)
TypeOK ==
  /\ DOMAIN users \subseteq Users /\ users \in [DOMAIN users -> Account]
  /\ DOMAIN sessions \subseteq Tokens /\ sessions \in [DOMAIN sessions -> Session]
  /\ issued \in 0 .. MaxTokens
  /\ DOMAIN boards \subseteq Boards /\ boards \in [DOMAIN boards -> {0} \union Users]
  /\ DOMAIN access \subseteq Boards \X Users /\ access \in [DOMAIN access -> BOOLEAN]
  /\ initialized \in BOOLEAN
  /\ server \in {"down", "marking", "inserting", "updating", "assigning", "up"}
  /\ handler \in [Clients -> {Idle} \union Handling]

(* users.go, "at least one admin is required": a running installation has  *)
(* an administrator, or it could never be started again.                   *)
AdminRemains == server # "down" => Admins # {}

(* README: a reset signs the account out everywhere and a change signs out *)
(* the other sessions.  Every stored session belongs to a stored account   *)
(* and stands for its current password, logins under way included.         *)
SessionsCurrent ==
  \A t \in DOMAIN sessions :
    /\ sessions[t].user \in DOMAIN users
    /\ sessions[t].opened = users[sessions[t].user].version

(* The request of c is answered in this step.                              *)
Answers(c) == handler[c] # Idle /\ handler'[c] = Idle

(* The session the request of c came with is stored and unexpired now, and *)
(* it is one of the account itself, for its own password, or one of an     *)
(* administrator, for a reset.                                             *)
MaySetPassword(c, i) ==
  LET q == handler[c].request
      t == handler[c].token
  IN /\ t \in DOMAIN sessions /\ sessions[t].live
     /\ \/ q.kind = "password" /\ sessions[t].user = i
        \/ q.kind = "reset" /\ q.id = i /\ sessions[t].user \in Admins

(* passwordSession: a password changes only at the hand of a request whose *)
(* own session is still stored and unexpired at that moment, whatever the  *)
(* middleware read when the request arrived.  Another session of the same  *)
(* account, or of another administrator, does not stand in for it.         *)
PasswordNeedsSession ==
  [][\A i \in DOMAIN users \intersect DOMAIN users' :
       users'[i].version # users[i].version =>
         \E c \in Clients : Answers(c) /\ MaySetPassword(c, i)]_vars

(* boards.go, "board owner keeps access": canAccessBoard lets the owner of *)
(* a board in, through transfers, grants, revocations and changes of role. *)
OwnerKeepsAccess ==
  \A b \in DOMAIN boards : boards[b] \in DOMAIN users => CanAccess(boards[b], b)

OwnersExist == server = "up" => \A b \in DOMAIN boards : boards[b] \in DOMAIN users

AccessRowsNameUsers == \A p \in DOMAIN access : p[2] \in DOMAIN users

(* userDelete hands over the boards: once the server listens, every board  *)
(* is owned by an existing account, and no access row outlives its account *)
(* and would pass to the next one that gets the id.                        *)
AccountsStay == OwnersExist /\ AccessRowsNameUsers
=============================================================================
