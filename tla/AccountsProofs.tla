--------------------------- MODULE AccountsProofs ---------------------------
(***************************************************************************)
(* Theorems about Accounts for every set of requests, every database the   *)
(* first start may find and every number of concurrent handlers.           *)
(***************************************************************************)
EXTENDS Accounts, FiniteSetTheorems, TLAPS

-----------------------------------------------------------------------------
(* Facts about tables *)

(* A table maps some of the keys K to rows in V.                           *)
IsTable(T, K, V) == DOMAIN T \subseteq K /\ T \in [DOMAIN T -> V]

LEMMA WithType ==
  ASSUME NEW K, NEW V, NEW T, IsTable(T, K, V), NEW k \in K, NEW row \in V
  PROVE  /\ IsTable(With(T, k, row), K, V)
         /\ DOMAIN With(T, k, row) = DOMAIN T \union {k}
         /\ With(T, k, row)[k] = row
         /\ \A j \in DOMAIN T \ {k} : With(T, k, row)[j] = T[j]
BY DEF With, IsTable

LEMMA RestrictedType ==
  ASSUME NEW K, NEW V, NEW T, IsTable(T, K, V), NEW S \in SUBSET DOMAIN T
  PROVE  /\ IsTable([k \in S |-> T[k]], K, V)
         /\ DOMAIN [k \in S |-> T[k]] = S
         /\ \A k \in S : [j \in S |-> T[j]][k] = T[k]
BY DEF IsTable

LEMMA ExceptType ==
  ASSUME NEW K, NEW V, NEW T, IsTable(T, K, V), NEW k \in DOMAIN T, NEW row \in V
  PROVE  /\ IsTable([T EXCEPT ![k] = row], K, V)
         /\ DOMAIN [T EXCEPT ![k] = row] = DOMAIN T
         /\ [T EXCEPT ![k] = row][k] = row
         /\ \A j \in DOMAIN T \ {k} : [T EXCEPT ![k] = row][j] = T[j]
BY DEF IsTable

(* The parts of the type invariant that one handler disturbs together.     *)
UsersOK == IsTable(users, Users, Account)
SessionsOK == IsTable(sessions, Tokens, Session) /\ issued \in 0 .. MaxTokens
BoardsOK == IsTable(boards, Boards, {0} \union Users) /\ IsTable(access, Boards \X Users, BOOLEAN)
ServerOK ==
  /\ initialized \in BOOLEAN
  /\ server \in {"down", "marking", "inserting", "updating", "assigning", "up"}
HandlerOK == handler \in [Clients -> {Idle} \union Handling]

LEMMA TypeParts ==
  TypeOK <=> UsersOK /\ SessionsOK /\ BoardsOK /\ ServerOK /\ HandlerOK
BY DEF TypeOK, UsersOK, SessionsOK, BoardsOK, ServerOK, HandlerOK, IsTable

(* Past the middleware a handler knows its account, and a handler that has *)
(* made an account knows that one.                                         *)
AccountsKnown ==
  \A c \in Clients :
    /\ handler[c].phase \in {"session", "ready", "checked", "known", "created", "granting"} =>
         handler[c].request.kind \in Public \/ handler[c].user \in Users
    /\ handler[c].phase \in {"created", "granting"} => handler[c].target \in Users
    /\ handler[c].phase = "created" =>
         handler[c].request.admin \/ handler[c].request.board # 0

TypeInv == TypeOK /\ AccountsKnown

LEMMA RequestFields ==
  ASSUME NEW q \in Request
  PROVE  /\ q.kind \in {"setRole", "deleteUser", "reset", "share"} => q.id \in Users
         /\ q.kind \in {"setRole", "createUser"} => q.admin \in BOOLEAN
         /\ q.kind \in {"login", "signup", "createUser"} => q.name \in Names
         /\ q.kind = "createUser" => q.board \in {0} \union Boards
         /\ q.kind = "share" => q.board \in Boards /\ q.access \in BOOLEAN
BY DEF Request

LEMMA HandlingFields ==
  ASSUME HandlerOK, NEW c \in Clients, handler[c] # Idle
  PROVE  /\ handler[c] \in Handling
         /\ handler[c].request \in Request
         /\ handler[c].token \in {0} \union Tokens
         /\ handler[c].user \in {0} \union Users
         /\ handler[c].target \in {0} \union Users
BY DEF HandlerOK, Handling

LEMMA AtNotIdle ==
  ASSUME NEW c, NEW phase, NEW kind, At(c, phase, kind), phase # "idle"
  PROVE  handler[c] # Idle
BY DEF At, Idle

LEMMA ReplyType ==
  ASSUME HandlerOK, NEW c \in Clients, Reply(c)
  PROVE  HandlerOK'
BY DEF HandlerOK, Reply

LEMMA AdvanceType ==
  ASSUME HandlerOK, NEW c \in Clients, handler[c] # Idle,
         NEW phase \in {"received", "session", "ready", "checked", "known",
                        "created", "granting"},
         Advance(c, phase)
  PROVE  HandlerOK'
<1>1. [handler[c] EXCEPT !.phase = phase] \in Handling
  BY HandlingFields DEF Handling
<1>2. handler' = [handler EXCEPT ![c] = [handler[c] EXCEPT !.phase = phase]]
  BY DEF Advance
<1> QED
  BY <1>1, <1>2 DEF HandlerOK

(* Ids are given out above those in use.                                   *)
LEMMA NewIdIsNew ==
  ASSUME NEW T, NEW n \in NewIds(T, Users) \union NewIds(T, Boards)
  PROVE  n \notin DOMAIN T
<1>1. \A i \in DOMAIN T : i < n
  BY DEF NewIds
<1>2. n \in Nat
  BY ParametersAssumption DEF NewIds, Users, Boards
<1> QED
  BY <1>1, <1>2

LEMMA GrantType ==
  ASSUME BoardsOK, NEW i \in Users
  PROVE  /\ IsTable(GrantedMissing(i), Boards \X Users, BOOLEAN)
         /\ IsTable(GrantedAll(i), Boards \X Users, BOOLEAN)
<1> DEFINE new == {p \in (DOMAIN boards) \X {i} : p \notin DOMAIN access}
<1>1. new \subseteq Boards \X Users
  BY DEF BoardsOK, IsTable
<1>2. GrantedMissing(i) =
        [p \in DOMAIN access \union new |-> IF p \in new THEN TRUE ELSE access[p]]
  BY DEF GrantedMissing
<1> HIDE DEF new
<1>3. \A p \in DOMAIN access : access[p] \in BOOLEAN
  BY DEF BoardsOK, IsTable
<1>4. IsTable(GrantedMissing(i), Boards \X Users, BOOLEAN)
  BY <1>1, <1>2, <1>3 DEF BoardsOK, IsTable
<1>5. IsTable(GrantedAll(i), Boards \X Users, BOOLEAN)
  BY DEF BoardsOK, IsTable, GrantedAll
<1> QED
  BY <1>4, <1>5

LEMMA RevokedType ==
  ASSUME SessionsOK, NEW i, NEW kept
  PROVE  /\ IsTable(Revoked(i, kept), Tokens, Session)
         /\ DOMAIN Revoked(i, kept) =
              {t \in DOMAIN sessions : sessions[t].user # i \/ t = kept}
         /\ \A t \in DOMAIN Revoked(i, kept) : Revoked(i, kept)[t] = sessions[t]
BY DEF SessionsOK, IsTable, Revoked

LEMMA OpenedType ==
  ASSUME SessionsOK, issued < MaxTokens, NEW i \in Users, NEW version \in Versions
  PROVE  /\ IsTable(Opened(issued + 1, i, version), Tokens, Session)
         /\ issued + 1 \in 0 .. MaxTokens
         /\ DOMAIN Opened(issued + 1, i, version) = DOMAIN sessions \union {issued + 1}
         /\ Opened(issued + 1, i, version)[issued + 1] =
              [user |-> i, opened |-> version, live |-> TRUE]
         /\ \A t \in DOMAIN sessions \ {issued + 1} :
              Opened(issued + 1, i, version)[t] = sessions[t]
<1> DEFINE row == [user |-> i, opened |-> version, live |-> TRUE]
<1>1. issued + 1 \in Tokens /\ issued + 1 \in 0 .. MaxTokens
  BY ParametersAssumption DEF SessionsOK, Tokens
<1>2. row \in Session
  BY DEF Session
<1>3. Opened(issued + 1, i, version) = With(sessions, issued + 1, row)
  BY DEF Opened
<1> HIDE DEF row
<1>4. IsTable(sessions, Tokens, Session)
  BY DEF SessionsOK
<1> DEFINE n == issued + 1
           T == With(sessions, n, row)
<1>5. n \in Tokens
  BY <1>1
<1> HIDE DEF n
<1>6. T = [k \in DOMAIN sessions \union {n} |-> IF k = n THEN row ELSE sessions[k]]
  BY DEF With
<1> HIDE DEF T
<1>7. IsTable(T, Tokens, Session)
  BY <1>2, <1>4, <1>5, <1>6 DEF IsTable
<1>8. /\ DOMAIN T = DOMAIN sessions \union {n}
      /\ T[n] = row
      /\ \A t \in DOMAIN sessions \ {n} : T[t] = sessions[t]
  BY <1>6
<1> QED
  BY <1>1, <1>3, <1>7, <1>8 DEF row, n, T

LEMMA VersionType ==
  ASSUME UsersOK, NEW i \in DOMAIN users
  PROVE  /\ i \in Users /\ users[i] \in Account
         /\ users[i].version \in Versions
         /\ users[i].version < MaxVersion => users[i].version + 1 \in Versions
BY ParametersAssumption DEF UsersOK, IsTable, Account, Versions

-----------------------------------------------------------------------------
(* Type correctness, part by part *)

LEMMA InitType == Init => TypeOK
<1> SUFFICES ASSUME Init PROVE TypeOK
  OBVIOUS
<1>1. PICK s \in InitialStores : users = s.users /\ boards = s.boards /\ access = s.access
  BY DEF Init
<1>2. WellFormed(s)
  BY StoresAssumption
<1>3. UsersOK
  BY <1>1, <1>2 DEF WellFormed, UsersOK, IsTable
<1>4. BoardsOK
  BY <1>1, <1>2 DEF WellFormed, BoardsOK, IsTable
<1>5. SessionsOK
  BY ParametersAssumption DEF Init, SessionsOK, IsTable
<1>6. ServerOK /\ HandlerOK
  BY DEF Init, ServerOK, HandlerOK
<1> QED
  BY <1>3, <1>4, <1>5, <1>6, TypeParts

LEMMA BootType ==
  ASSUME TypeOK, Boot
  PROVE  TypeOK'
<1>1. UsersOK /\ SessionsOK /\ BoardsOK /\ ServerOK /\ HandlerOK
  BY TypeParts
<1>2. UsersOK'
  <2>1. CASE BootInsert
    <3>1. /\ 1 \in Users
          /\ [name |-> DefaultAdmin, admin |-> TRUE, mustChange |-> TRUE, version |-> 1] \in Account
      BY ParametersAssumption DEF Users, Account, Versions
    <3> QED
      BY <1>1, <2>1, <3>1 DEF BootInsert, UsersOK, IsTable, With
  <2>2. CASE ~BootInsert
    BY <1>1, <2>2 DEF Boot, BootFindAdmin, BootMark, BootGrantMissing, BootGrantAll,
       BootAssignOwners, store, UsersOK
  <2> QED
    BY <2>1, <2>2
<1>3. BoardsOK'
  <2>1. Admins \subseteq Users
    BY <1>1 DEF Admins, UsersOK, IsTable
  <2>2. CASE BootGrantMissing \/ BootGrantAll
    BY <1>1, <2>1, <2>2, GrantType DEF BootGrantMissing, BootGrantAll, BoardsOK
  <2>3. CASE BootAssignOwners
    BY <1>1, <2>1, <2>3 DEF BootAssignOwners, BoardsOK, IsTable
  <2>4. CASE BootInsert \/ BootFindAdmin \/ BootMark
    BY <1>1, <2>4 DEF BootInsert, BootFindAdmin, BootMark, store, BoardsOK
  <2> QED
    BY <2>2, <2>3, <2>4 DEF Boot
<1>4. SessionsOK' /\ ServerOK' /\ HandlerOK'
  BY <1>1 DEF Boot, BootInsert, BootFindAdmin, BootMark, BootGrantMissing, BootGrantAll,
     BootAssignOwners, store, SessionsOK, ServerOK, HandlerOK
<1> QED
  BY <1>2, <1>3, <1>4, TypeParts DEF TypeOK, UsersOK, SessionsOK, BoardsOK, ServerOK,
     HandlerOK, IsTable

LEMMA HandlerType ==
  ASSUME TypeOK, NEW c \in Clients, Handle(c)
  PROVE  HandlerOK'
<1>1. HandlerOK /\ UsersOK /\ SessionsOK
  BY TypeParts
<1>2. CASE Receive(c)
  <2>1. PICK q \in Requests, t \in 0 .. issued : handler' = [handler EXCEPT ![c] =
            [phase |-> IF q.kind \in Public THEN "ready" ELSE "received",
             request |-> q, token |-> t, user |-> 0, admin |-> FALSE, target |-> 0]]
    BY <1>2 DEF Receive
  <2>2. q \in Request /\ t \in {0} \union Tokens
    BY <1>1, ParametersAssumption DEF SessionsOK, Tokens
  <2>3. [phase |-> IF q.kind \in Public THEN "ready" ELSE "received",
         request |-> q, token |-> t, user |-> 0, admin |-> FALSE, target |-> 0] \in Handling
    BY <2>2 DEF Handling
  <2> QED
    BY <1>1, <2>1, <2>3 DEF HandlerOK
<1>3. CASE FindSession(c)
  <2> DEFINE t == handler[c].token
  <2>1. handler[c] # Idle
    BY <1>3 DEF FindSession, Idle
  <2>2. t \in DOMAIN sessions /\ sessions[t].user \in Users
    BY <1>1, <1>3 DEF FindSession, SessionsOK, IsTable, Session
  <2>3. [handler[c] EXCEPT !.phase = "session", !.user = sessions[t].user] \in Handling
    BY <1>1, <2>1, <2>2, HandlingFields DEF Handling
  <2>4. \/ handler' = [handler EXCEPT ![c] =
               [handler[c] EXCEPT !.phase = "session", !.user = sessions[t].user]]
        \/ Reply(c)
    BY <1>1, <1>3 DEF FindSession, HandlerOK
  <2> HIDE DEF t
  <2> QED
    BY <1>1, <2>3, <2>4, ReplyType DEF HandlerOK
<1>4. CASE FindUser(c)
  <2> DEFINE i == handler[c].user
  <2>1. handler[c] # Idle
    BY <1>4 DEF FindUser, Idle
  <2>2. users[i].admin \in BOOLEAN
    BY <1>1, <1>4 DEF FindUser, UsersOK, IsTable, Account
  <2>3. [handler[c] EXCEPT !.phase = "ready", !.admin = users[i].admin] \in Handling
    BY <1>1, <2>1, <2>2, HandlingFields DEF Handling
  <2>4. handler' = [handler EXCEPT ![c] =
               [handler[c] EXCEPT !.phase = "ready", !.admin = users[i].admin]]
    BY <1>1, <1>4 DEF FindUser, HandlerOK
  <2> HIDE DEF i
  <2> QED
    BY <1>1, <2>3, <2>4 DEF HandlerOK
<1>5. CASE CreateUser(c)
  <2>1. handler[c] # Idle
    BY <1>5, AtNotIdle DEF CreateUser
  <2>2. PICK n \in Users :
          \/ handler' = [handler EXCEPT ![c] = [handler[c] EXCEPT !.phase = "created",
                                                                 !.target = n]]
          \/ handler' = [handler EXCEPT ![c] = Idle]
    BY <1>1, <1>5 DEF CreateUser, HandlerOK, NewIds
  <2>3. [handler[c] EXCEPT !.phase = "created", !.target = n] \in Handling
    BY <1>1, <2>1, <2>2, HandlingFields DEF Handling
  <2> QED
    BY <1>1, <2>2, <2>3 DEF HandlerOK
<1>6. CASE GrantCreated(c)
  <2>1. handler[c] # Idle /\ (Advance(c, "granting") \/ Reply(c))
    BY <1>6, AtNotIdle DEF GrantCreated
  <2> QED
    BY <1>1, <2>1, ReplyType, AdvanceType
<1>7. CASE CountAdmins(c) \/ ReadOwner(c) \/ ReadUser(c)
  <2>1. handler[c] # Idle /\ (Advance(c, "checked") \/ Advance(c, "known"))
    BY <1>7, AtNotIdle DEF CountAdmins, ReadOwner, ReadUser
  <2> QED
    BY <1>1, <2>1, AdvanceType
<1>8. CASE \/ Fail(c) \/ Login(c) \/ Signup(c) \/ Logout(c) \/ GrantCreatedAll(c)
           \/ DeleteUser(c) \/ SetRole(c) \/ ResetPassword(c) \/ ChangePassword(c)
           \/ CreateBoard(c) \/ Share(c)
  <2>1. Reply(c)
    BY <1>8 DEF Fail, Login, Signup, Logout, GrantCreatedAll, DeleteUser, SetRole,
       ResetPassword, ChangePassword, CreateBoard, Share
  <2> QED
    BY <1>1, <2>1, ReplyType
<1> QED
  BY <1>2, <1>3, <1>4, <1>5, <1>6, <1>7, <1>8 DEF Handle

LEMMA UsersType ==
  ASSUME TypeOK, NEW c \in Clients, Handle(c)
  PROVE  UsersOK'
<1>1. HandlerOK /\ UsersOK
  BY TypeParts
<1>2. CASE Signup(c) \/ CreateUser(c)
  <2>1. handler[c] # Idle /\ handler[c].request \in Request
        /\ handler[c].request.kind \in {"signup", "createUser"}
    BY <1>1, <1>2, AtNotIdle, HandlingFields DEF Signup, CreateUser, At
  <2>2. PICK n \in Users, admin \in BOOLEAN, must \in BOOLEAN :
          users' = With(users, n, [name |-> handler[c].request.name, admin |-> admin,
                                   mustChange |-> must, version |-> 1])
    <3>1. CASE Signup(c)
      BY <3>1 DEF Signup, NewIds
    <3>2. CASE CreateUser(c)
      <4>1. handler[c].request.admin \in BOOLEAN
        BY <2>1, <3>2, RequestFields DEF CreateUser, At
      <4> QED
        BY <3>2, <4>1 DEF CreateUser, NewIds
    <3> QED
      BY <1>2, <3>1, <3>2
  <2>3. [name |-> handler[c].request.name, admin |-> admin,
         mustChange |-> must, version |-> 1] \in Account
    BY <2>1, <2>2, RequestFields, ParametersAssumption DEF Account, Versions
  <2> QED
    BY <1>1, <2>2, <2>3 DEF UsersOK, IsTable, With
<1>3. CASE DeleteUser(c)
  BY <1>1, <1>3 DEF DeleteUser, UsersOK, IsTable
<1>4. CASE SetRole(c)
  <2> DEFINE q == handler[c].request
  <2>1. q.admin \in BOOLEAN /\ q.id \in DOMAIN users
    BY <1>1, <1>4, AtNotIdle, HandlingFields, RequestFields DEF SetRole, At
  <2>2. [users[q.id] EXCEPT !.admin = q.admin] \in Account
    BY <1>1, <2>1 DEF UsersOK, IsTable, Account
  <2>3. users' = [users EXCEPT ![q.id] = [users[q.id] EXCEPT !.admin = q.admin]]
    BY <1>4 DEF SetRole
  <2> HIDE DEF q
  <2> QED
    BY <1>1, <2>1, <2>2, <2>3 DEF UsersOK, IsTable
<1>5. CASE ResetPassword(c) \/ ChangePassword(c)
  <2>1. PICK i \in DOMAIN users, must \in BOOLEAN :
          /\ users[i].version < MaxVersion
          /\ users' = [users EXCEPT ![i] =
               [users[i] EXCEPT !.version = users[i].version + 1, !.mustChange = must]]
    BY <1>5 DEF ResetPassword, ChangePassword
  <2>2. [users[i] EXCEPT !.version = users[i].version + 1, !.mustChange = must] \in Account
    BY <1>1, <2>1, VersionType DEF Account
  <2> QED
    BY <1>1, <2>1, <2>2 DEF UsersOK, IsTable
<1>6. CASE UNCHANGED users
  BY <1>1, <1>6 DEF UsersOK
<1>7. \/ Signup(c) \/ CreateUser(c) \/ DeleteUser(c) \/ SetRole(c) \/ ResetPassword(c)
      \/ ChangePassword(c) \/ UNCHANGED users
  BY DEF Handle, Receive, FindSession, FindUser, Fail, Login, Logout, GrantCreated,
     GrantCreatedAll, CountAdmins, CreateBoard, ReadOwner, ReadUser, Share, store
<1> QED
  BY <1>2, <1>3, <1>4, <1>5, <1>6, <1>7

LEMMA SessionsType ==
  ASSUME TypeOK, NEW c \in Clients, Handle(c)
  PROVE  SessionsOK'
<1>1. HandlerOK /\ UsersOK /\ SessionsOK
  BY TypeParts
<1>2. CASE Login(c) \/ Signup(c)
  <2>1. PICK i \in Users, version \in Versions :
          sessions' = Opened(issued + 1, i, version)
    BY <1>1, <1>2, VersionType, ParametersAssumption DEF Login, Signup, NewIds, Versions
  <2>2. issued < MaxTokens /\ issued' = issued + 1
    BY <1>2 DEF Login, Signup
  <2> QED
    BY <1>1, <2>1, <2>2, OpenedType DEF SessionsOK
<1>3. CASE FindSession(c) \/ Logout(c)
  BY <1>1, <1>3 DEF FindSession, Logout, SessionsOK, IsTable
<1>4. CASE DeleteUser(c) \/ ResetPassword(c)
  <2>1. PICK i : sessions' = Revoked(i, 0) /\ issued' = issued
    BY <1>4 DEF DeleteUser, ResetPassword
  <2> QED
    BY <1>1, <2>1, RevokedType DEF SessionsOK
<1>5. CASE ChangePassword(c)
  <2> DEFINE u == handler[c].user
             t == handler[c].token
             kept == Revoked(u, t)
  <2>1. IsTable(kept, Tokens, Session)
    BY <1>1, RevokedType
  <2>2. users[u].version + 1 \in Versions
    BY <1>1, <1>5, VersionType DEF ChangePassword
  <2>3. /\ issued' = issued
        /\ sessions' = [s \in DOMAIN kept |->
             IF s = t THEN [kept[s] EXCEPT !.opened = users[u].version + 1] ELSE kept[s]]
    BY <1>5 DEF ChangePassword
  <2> HIDE DEF kept
  <2>4. \A s \in DOMAIN kept : [kept[s] EXCEPT !.opened = users[u].version + 1] \in Session
    BY <2>1, <2>2 DEF IsTable, Session
  <2> QED
    BY <1>1, <2>1, <2>3, <2>4 DEF SessionsOK, IsTable
<1>6. CASE UNCHANGED <<sessions, issued>>
  BY <1>1, <1>6 DEF SessionsOK
<1>7. \/ Login(c) \/ Signup(c) \/ FindSession(c) \/ Logout(c) \/ DeleteUser(c)
      \/ ResetPassword(c) \/ ChangePassword(c) \/ UNCHANGED <<sessions, issued>>
  BY DEF Handle, Receive, FindUser, Fail, CreateUser, GrantCreated, GrantCreatedAll,
     CountAdmins, SetRole, CreateBoard, ReadOwner, ReadUser, Share, store
<1> QED
  BY <1>2, <1>3, <1>4, <1>5, <1>6, <1>7

LEMMA BoardsType ==
  ASSUME TypeInv, NEW c \in Clients, Handle(c)
  PROVE  BoardsOK'
<1>1. HandlerOK /\ UsersOK /\ BoardsOK /\ AccountsKnown
  BY TypeParts DEF TypeInv
<1>2. ASSUME NEW b \in Boards, NEW i \in Users, NEW full \in BOOLEAN
      PROVE  IsTable(With(access, <<b, i>>, full), Boards \X Users, BOOLEAN)
  BY <1>1 DEF BoardsOK, IsTable, With
<1>3. CASE GrantCreated(c) \/ GrantCreatedAll(c)
  <2> DEFINE q == handler[c].request
             i == handler[c].target
  <2>1. i \in Users
    BY <1>1, <1>3 DEF GrantCreated, GrantCreatedAll, At, AccountsKnown
  <2>2. handler[c] # Idle /\ q.kind = "createUser"
    BY <1>3, AtNotIdle DEF GrantCreated, GrantCreatedAll, At
  <2>3. q.board \in {0} \union Boards
    BY <1>1, <2>2, HandlingFields, RequestFields
  <2>4. \/ access' = GrantedMissing(i)
        \/ access' = GrantedAll(i)
        \/ access' = With(access, <<q.board, i>>, TRUE) /\ q.board # 0
    BY <1>1, <1>3 DEF GrantCreated, GrantCreatedAll, At, AccountsKnown
  <2>5. boards' = boards
    BY <1>3 DEF GrantCreated, GrantCreatedAll
  <2> HIDE DEF q, i
  <2>6. IsTable(access', Boards \X Users, BOOLEAN)
    BY <1>1, <1>2, <2>1, <2>3, <2>4, GrantType
  <2> QED
    BY <1>1, <2>5, <2>6 DEF BoardsOK
<1>4. CASE DeleteUser(c)
  <2> DEFINE i == handler[c].request.id
             u == handler[c].user
             owned == {b \in DOMAIN boards : boards[b] = i} \X {u}
  <2>1. u \in Users
    BY <1>1, <1>4 DEF DeleteUser, At, AccountsKnown, Public
  <2>2. boards' = Transferred(i, u) /\ access' = AccessAfter(i, u)
    BY <1>4 DEF DeleteUser
  <2>3. owned \subseteq Boards \X Users
    BY <1>1, <2>1 DEF BoardsOK, IsTable
  <2>4. access' = [p \in {r \in DOMAIN access \union owned : r[2] # i} |->
                     p \in owned \/ access[p]]
    BY <2>2 DEF AccessAfter
  <2> HIDE DEF owned
  <2>5. IsTable(access', Boards \X Users, BOOLEAN)
    BY <1>1, <2>3, <2>4 DEF BoardsOK, IsTable
  <2>6. IsTable(boards', Boards, {0} \union Users)
    BY <1>1, <2>1, <2>2 DEF BoardsOK, IsTable, Transferred
  <2> QED
    BY <2>5, <2>6 DEF BoardsOK
<1>5. CASE CreateBoard(c)
  <2>1. handler[c].user \in Users
    BY <1>1, <1>5 DEF CreateBoard, At, AccountsKnown, Public
  <2>2. PICK n \in Boards : /\ boards' = With(boards, n, handler[c].user)
                            /\ access' = With(access, <<n, handler[c].user>>, TRUE)
    BY <1>5 DEF CreateBoard, NewIds
  <2>3. IsTable(boards', Boards, {0} \union Users)
    BY <1>1, <2>1, <2>2 DEF BoardsOK, IsTable, With
  <2> QED
    BY <1>2, <2>1, <2>2, <2>3 DEF BoardsOK
<1>6. CASE Share(c)
  <2> DEFINE q == handler[c].request
  <2>1. q.board \in Boards /\ q.id \in Users /\ q.access \in BOOLEAN
    BY <1>1, <1>6, AtNotIdle, HandlingFields, RequestFields DEF Share, At
  <2>2. access' = With(access, <<q.board, q.id>>, q.access) /\ boards' = boards
    BY <1>6 DEF Share
  <2> HIDE DEF q
  <2> QED
    BY <1>1, <1>2, <2>1, <2>2 DEF BoardsOK
<1>7. CASE UNCHANGED <<boards, access>>
  BY <1>1, <1>7 DEF BoardsOK
<1>8. \/ GrantCreated(c) \/ GrantCreatedAll(c) \/ DeleteUser(c) \/ CreateBoard(c)
      \/ Share(c) \/ UNCHANGED <<boards, access>>
  BY DEF Handle, Receive, FindSession, FindUser, Fail, Login, Signup, Logout, CreateUser,
     CountAdmins, SetRole, ResetPassword, ChangePassword, ReadOwner, ReadUser, store
<1> QED
  BY <1>3, <1>4, <1>5, <1>6, <1>7, <1>8

LEMMA KnownStep ==
  ASSUME TypeInv, NEW c \in Clients, Handle(c)
  PROVE  AccountsKnown'
<1>1. HandlerOK /\ UsersOK /\ SessionsOK /\ AccountsKnown
  BY TypeParts DEF TypeInv
<1>2. \A d \in Clients \ {c} : handler'[d] = handler[d]
  BY <1>1 DEF Handle, HandlerOK, Receive, FindSession, FindUser, Fail, Login, Signup, Logout,
     CreateUser, GrantCreated, GrantCreatedAll, DeleteUser, CountAdmins, SetRole,
     ResetPassword, ChangePassword, CreateBoard, ReadOwner, ReadUser, Share, Reply, Advance
<1> DEFINE h == handler'[c]
           Known == /\ h.phase \in {"session", "ready", "checked", "known", "created", "granting"} =>
                         h.request.kind \in Public \/ h.user \in Users
                    /\ h.phase \in {"created", "granting"} => h.target \in Users
                    /\ h.phase = "created" => h.request.admin \/ h.request.board # 0
<1>3. Known
  <2>1. CASE Reply(c)
    BY <1>1, <2>1 DEF Reply, HandlerOK, Idle
  <2>2. CASE Receive(c)
    BY <1>1, <2>2 DEF Receive, HandlerOK
  <2>3. CASE FindSession(c) /\ ~Reply(c)
    <3>1. sessions[handler[c].token].user \in Users
      BY <1>1, <2>3 DEF FindSession, SessionsOK, IsTable, Session
    <3>2. handler[c] # Idle
      BY <2>3 DEF FindSession, Idle
    <3>3. handler[c] \in Handling
      BY <1>1, <3>2, HandlingFields
    <3>4. handler' = [handler EXCEPT ![c] =
            [handler[c] EXCEPT !.phase = "session", !.user = sessions[handler[c].token].user]]
      BY <1>1, <2>3 DEF FindSession, HandlerOK
    <3> QED
      BY <1>1, <3>1, <3>3, <3>4 DEF HandlerOK, Handling
  <2>4. CASE FindUser(c)
    <3>1. handler[c] # Idle /\ handler[c].user \in Users
      BY <1>1, <2>4 DEF FindUser, Idle, UsersOK, IsTable
    <3>2. handler[c] \in Handling
      BY <1>1, <3>1, HandlingFields
    <3>3. handler' = [handler EXCEPT ![c] =
               [handler[c] EXCEPT !.phase = "ready", !.admin = users[handler[c].user].admin]]
      BY <1>1, <2>4 DEF FindUser, HandlerOK
    <3> QED
      BY <1>1, <3>1, <3>2, <3>3 DEF HandlerOK, Handling
  <2>5. CASE CreateUser(c) /\ ~Reply(c)
    <3>1. handler[c] # Idle /\ handler[c].user \in Users
      BY <1>1, <2>5, AtNotIdle DEF CreateUser, At, AccountsKnown, Public
    <3>2. handler[c] \in Handling
      BY <1>1, <3>1, HandlingFields
    <3>3. PICK n \in Users :
            handler' = [handler EXCEPT ![c] =
              [handler[c] EXCEPT !.phase = "created", !.target = n]]
      BY <1>1, <2>5 DEF CreateUser, Reply, NewIds
    <3>4. handler[c].request.admin \/ handler[c].request.board # 0
      BY <2>5 DEF CreateUser, Reply
    <3> QED
      BY <1>1, <3>1, <3>2, <3>3, <3>4 DEF HandlerOK, Handling
  <2>6. CASE /\ GrantCreated(c) \/ CountAdmins(c) \/ ReadOwner(c) \/ ReadUser(c)
             /\ ~Reply(c)
    <3>1. /\ handler[c] # Idle
          /\ handler[c].request.kind \notin Public
          /\ handler[c].phase \in {"ready", "created", "checked"}
          /\ \/ Advance(c, "granting") /\ handler[c].phase = "created"
             \/ Advance(c, "checked") \/ Advance(c, "known")
      BY <2>6, AtNotIdle DEF GrantCreated, CountAdmins, ReadOwner, ReadUser, At, Public
    <3>2. handler[c] \in Handling
      BY <1>1, <3>1, HandlingFields
    <3>3. PICK p \in {"granting", "checked", "known"} :
            /\ handler' = [handler EXCEPT ![c] = [handler[c] EXCEPT !.phase = p]]
            /\ p = "granting" => handler[c].phase = "created"
      BY <3>1 DEF Advance
    <3> QED
      BY <1>1, <3>1, <3>2, <3>3 DEF HandlerOK, Handling, AccountsKnown
  <2> QED
    BY <2>1, <2>2, <2>3, <2>4, <2>5, <2>6 DEF Handle, Fail, Login, Signup, Logout,
       GrantCreatedAll, DeleteUser, SetRole, ResetPassword, ChangePassword, CreateBoard, Share
<1> QED
  BY <1>1, <1>2, <1>3 DEF AccountsKnown

LEMMA TypeInvInit == Init => TypeInv
BY InitType DEF Init, TypeInv, AccountsKnown, Idle

LEMMA TypeInvNext == TypeInv /\ [Next]_vars => TypeInv'
<1> SUFFICES ASSUME TypeInv, [Next]_vars PROVE TypeInv'
  OBVIOUS
<1>1. TypeOK /\ AccountsKnown
  BY DEF TypeInv
<1>2. CASE Boot
  <2>1. handler' = handler
    BY <1>2 DEF Boot, BootInsert, BootFindAdmin, BootMark, BootGrantMissing, BootGrantAll,
       BootAssignOwners
  <2> QED
    BY <1>1, <1>2, <2>1, BootType DEF TypeInv, AccountsKnown
<1>3. CASE Crash
  BY <1>1, <1>3 DEF Crash, store, TypeInv, TypeOK, AccountsKnown, Idle
<1>4. CASE Expire
  <2>1. SessionsOK
    BY <1>1, TypeParts
  <2>2. PICK t \in DOMAIN sessions :
          sessions' = [sessions EXCEPT ![t] = [sessions[t] EXCEPT !.live = FALSE]]
    BY <1>4 DEF Expire
  <2>3. [sessions[t] EXCEPT !.live = FALSE] \in Session
    BY <2>1 DEF SessionsOK, IsTable, Session
  <2>4. DOMAIN sessions' \subseteq Tokens /\ sessions' \in [DOMAIN sessions' -> Session]
    BY <2>1, <2>2, <2>3 DEF SessionsOK, IsTable
  <2> QED
    BY <1>1, <1>4, <2>4 DEF Expire, TypeInv, TypeOK, AccountsKnown
<1>5. ASSUME NEW c \in Clients, Handle(c) PROVE TypeInv'
  <2>1. UsersOK' /\ SessionsOK' /\ BoardsOK' /\ HandlerOK' /\ AccountsKnown'
    BY <1>1, <1>5, UsersType, SessionsType, BoardsType, HandlerType, KnownStep
  <2>2. UNCHANGED <<initialized, server>>
    BY <1>5 DEF Handle, Receive, FindSession, FindUser, Fail, Login, Signup, Logout,
       CreateUser, GrantCreated, GrantCreatedAll, DeleteUser, CountAdmins, SetRole,
       ResetPassword, ChangePassword, CreateBoard, ReadOwner, ReadUser, Share, store
  <2> QED
    BY <1>1, <2>1, <2>2 DEF TypeInv, TypeOK, UsersOK, SessionsOK, BoardsOK, HandlerOK, IsTable
<1>6. CASE UNCHANGED vars
  BY <1>1, <1>6 DEF vars, TypeInv, TypeOK, AccountsKnown
<1> QED
  BY <1>2, <1>3, <1>4, <1>5, <1>6 DEF Next

LEMMA TypeInvariant == Spec => []TypeInv
BY TypeInvInit, TypeInvNext, PTL DEF Spec

(* The tables and the handlers hold values of the right kind.              *)
THEOREM TypeCorrect == Spec => []TypeOK
<1>1. TypeInv => TypeOK
  BY DEF TypeInv
<1> QED
  BY <1>1, TypeInvariant, PTL

-----------------------------------------------------------------------------
(* Sessions stand for current passwords *)

(* How one handler changes accounts and sessions: a new account, a deleted *)
(* one, a new password, or neither of the three.                           *)
LEMMA AccountStep ==
  ASSUME TypeInv, NEW c \in Clients, Handle(c)
  PROVE  \/ \E n \in Users :
              /\ n \notin DOMAIN users /\ DOMAIN users' = DOMAIN users \union {n}
              /\ \A j \in DOMAIN users : users'[j] = users[j]
              /\ \/ sessions' = sessions
                 \/ users'[n].version = 1 /\ sessions' = Opened(issued + 1, n, 1)
                    /\ issued < MaxTokens
         \/ \E i \in DOMAIN users :
              /\ DOMAIN users' = DOMAIN users \ {i}
              /\ \A j \in DOMAIN users' : users'[j] = users[j]
              /\ sessions' = Revoked(i, 0)
         \/ \E i \in DOMAIN users, must \in BOOLEAN :
              /\ users' = [users EXCEPT ![i] = [users[i] EXCEPT
                            !.version = users[i].version + 1, !.mustChange = must]]
              /\ ResetPassword(c) \/ ChangePassword(c)
         \/ /\ DOMAIN users' = DOMAIN users
            /\ \A j \in DOMAIN users : users'[j].version = users[j].version
            /\ \/ Login(c)
               \/ DOMAIN sessions' \subseteq DOMAIN sessions
                  /\ \A t \in DOMAIN sessions' : sessions'[t] = sessions[t]
<1>1. UsersOK
  BY TypeParts DEF TypeInv
<1>2. CASE Signup(c) \/ CreateUser(c)
  <2>1. PICK n, admin, must :
          /\ n \in NewIds(users, Users)
          /\ users' = With(users, n, [name |-> handler[c].request.name, admin |-> admin,
                                      mustChange |-> must, version |-> 1])
          /\ \/ sessions' = sessions
             \/ sessions' = Opened(issued + 1, n, 1) /\ issued < MaxTokens
    <3>1. CASE Signup(c)
      BY <3>1 DEF Signup
    <3>2. CASE CreateUser(c)
      BY <3>2 DEF CreateUser
    <3> QED
      BY <1>2, <3>1, <3>2
  <2>2. n \in Users /\ n \notin DOMAIN users
    BY <2>1, NewIdIsNew DEF NewIds
  <2>3. /\ DOMAIN users' = DOMAIN users \union {n}
        /\ \A j \in DOMAIN users : users'[j] = users[j]
        /\ users'[n].version = 1
    BY <2>1, <2>2 DEF With
  <2> QED
    BY <2>1, <2>2, <2>3
<1>3. CASE DeleteUser(c)
  BY <1>3 DEF DeleteUser
<1>4. CASE ResetPassword(c) \/ ChangePassword(c)
  BY <1>4 DEF ResetPassword, ChangePassword
<1>5. CASE SetRole(c)
  <2>1. PICK i, admin :
          i \in DOMAIN users /\ users' = [users EXCEPT ![i] = [users[i] EXCEPT !.admin = admin]]
    BY <1>5 DEF SetRole
  <2>2. users[i] \in Account
    BY <1>1, <2>1 DEF UsersOK, IsTable
  <2>3. [users[i] EXCEPT !.admin = admin].version = users[i].version
    BY <2>2 DEF Account
  <2>4. sessions' = sessions
    BY <1>5 DEF SetRole
  <2> QED
    BY <1>1, <2>1, <2>3, <2>4 DEF UsersOK, IsTable
<1>6. CASE Login(c)
  BY <1>6 DEF Login
<1>7. CASE FindSession(c) \/ Logout(c)
  BY <1>7 DEF FindSession, Logout
<1>8. CASE UNCHANGED <<users, sessions>>
  BY <1>8
<1> QED
  BY <1>2, <1>3, <1>4, <1>5, <1>6, <1>7, <1>8 DEF Handle, Receive, FindUser, Fail,
     GrantCreated, GrantCreatedAll, CountAdmins, CreateBoard, ReadOwner, ReadUser, Share, store

LEMMA CurrentInit == Init => SessionsCurrent
BY DEF Init, SessionsCurrent

LEMMA CurrentHandle ==
  ASSUME TypeInv, SessionsCurrent, NEW c \in Clients, Handle(c)
  PROVE  SessionsCurrent'
<1>1. UsersOK /\ SessionsOK
  BY TypeParts DEF TypeInv
<1>2. ASSUME NEW n \in Users, n \notin DOMAIN users,
             DOMAIN users' = DOMAIN users \union {n},
             \A j \in DOMAIN users : users'[j] = users[j],
             \/ sessions' = sessions
             \/ users'[n].version = 1 /\ sessions' = Opened(issued + 1, n, 1)
                /\ issued < MaxTokens
      PROVE  SessionsCurrent'
  <2>1. CASE sessions' = sessions
    BY <1>2, <2>1 DEF SessionsCurrent
  <2>2. CASE /\ users'[n].version = 1 /\ sessions' = Opened(issued + 1, n, 1)
             /\ issued < MaxTokens
    <3>1. 1 \in Versions
      BY ParametersAssumption DEF Versions
    <3>2. /\ DOMAIN sessions' = DOMAIN sessions \union {issued + 1}
          /\ sessions'[issued + 1] = [user |-> n, opened |-> 1, live |-> TRUE]
          /\ \A t \in DOMAIN sessions \ {issued + 1} : sessions'[t] = sessions[t]
      BY <1>1, <2>2, <3>1, OpenedType
    <3> QED
      BY <1>2, <2>2, <3>2 DEF SessionsCurrent
  <2> QED
    BY <1>2, <2>1, <2>2
<1>3. ASSUME NEW i \in DOMAIN users, DOMAIN users' = DOMAIN users \ {i},
             \A j \in DOMAIN users' : users'[j] = users[j],
             sessions' = Revoked(i, 0)
      PROVE  SessionsCurrent'
  <2>1. 0 \notin DOMAIN sessions
    BY <1>1 DEF SessionsOK, IsTable, Tokens
  <2>2. \A t \in DOMAIN sessions' : /\ t \in DOMAIN sessions /\ sessions[t].user # i
                                   /\ sessions'[t] = sessions[t]
    BY <1>3, <2>1 DEF Revoked
  <2> QED
    BY <1>3, <2>2 DEF SessionsCurrent
<1>4. ASSUME NEW i \in DOMAIN users, NEW must \in BOOLEAN,
             users' = [users EXCEPT ![i] = [users[i] EXCEPT
                         !.version = users[i].version + 1, !.mustChange = must]],
             ResetPassword(c) \/ ChangePassword(c)
      PROVE  SessionsCurrent'
  <2>1. CASE ResetPassword(c)
    <3> DEFINE r == handler[c].request.id
    <3>1. /\ sessions' = Revoked(r, 0) /\ DOMAIN users' = DOMAIN users
          /\ \A j \in DOMAIN users \ {r} : users'[j] = users[j]
      BY <1>1, <2>1 DEF ResetPassword, UsersOK, IsTable
    <3> HIDE DEF r
    <3>2. 0 \notin DOMAIN sessions
      BY <1>1 DEF SessionsOK, IsTable, Tokens
    <3>3. \A t \in DOMAIN sessions' : /\ t \in DOMAIN sessions /\ sessions[t].user # r
                                     /\ sessions'[t] = sessions[t]
      BY <3>1, <3>2 DEF Revoked
    <3> QED
      BY <3>1, <3>3 DEF SessionsCurrent
  <2>2. CASE ChangePassword(c)
    <3> DEFINE u == handler[c].user
               t == handler[c].token
               kept == Revoked(u, t)
    <3>1. /\ t \in DOMAIN sessions /\ sessions[t].user = u
          /\ u \in DOMAIN users /\ DOMAIN users' = DOMAIN users
          /\ \A j \in DOMAIN users \ {u} : users'[j] = users[j]
      BY <1>1, <2>2 DEF ChangePassword, HoldsSession, UsersOK, IsTable
    <3>2. users'[u].version = users[u].version + 1
      <4>1. users[u] \in Account
        BY <1>1, <3>1 DEF UsersOK, IsTable
      <4>2. users' = [users EXCEPT ![u] = [users[u] EXCEPT
                        !.version = users[u].version + 1, !.mustChange = FALSE]]
        BY <2>2 DEF ChangePassword
      <4> HIDE DEF u
      <4>3. users'[u] = [users[u] EXCEPT !.version = users[u].version + 1, !.mustChange = FALSE]
        BY <1>1, <3>1, <4>2 DEF UsersOK, IsTable
      <4> QED
        BY <4>1, <4>3 DEF Account
    <3>3. sessions' = [s \in DOMAIN kept |->
             IF s = t THEN [kept[s] EXCEPT !.opened = users[u].version + 1] ELSE kept[s]]
      BY <2>2 DEF ChangePassword
    <3>4. /\ DOMAIN kept = {s \in DOMAIN sessions : sessions[s].user # u \/ s = t}
          /\ \A s \in DOMAIN kept : kept[s] = sessions[s]
      BY DEF Revoked
    <3>5. \A s \in DOMAIN sessions : sessions[s] \in Session
      BY <1>1 DEF SessionsOK, IsTable
    <3> HIDE DEF u, t, kept
    <3>6. ASSUME NEW s \in DOMAIN sessions'
          PROVE  /\ sessions'[s].user \in DOMAIN users'
                 /\ sessions'[s].opened = users'[sessions'[s].user].version
      <4>1. CASE s = t
        <5>1. sessions'[s] = [sessions[t] EXCEPT !.opened = users[u].version + 1]
          BY <3>3, <3>4, <3>6, <4>1
        <5>2. sessions'[s].user = u /\ sessions'[s].opened = users[u].version + 1
          BY <3>1, <3>5, <5>1 DEF Session
        <5> QED
          BY <3>1, <3>2, <5>2
      <4>2. CASE s # t
        <5>1. sessions'[s] = sessions[s] /\ s \in DOMAIN sessions /\ sessions[s].user # u
          BY <3>3, <3>4, <3>6, <4>2
        <5> QED
          BY <3>1, <5>1 DEF SessionsCurrent
      <4> QED
        BY <4>1, <4>2
    <3> QED
      BY <3>6 DEF SessionsCurrent
  <2> QED
    BY <1>4, <2>1, <2>2
<1>5. ASSUME DOMAIN users' = DOMAIN users,
             \A j \in DOMAIN users : users'[j].version = users[j].version,
             \/ Login(c)
             \/ DOMAIN sessions' \subseteq DOMAIN sessions
                /\ \A t \in DOMAIN sessions' : sessions'[t] = sessions[t]
      PROVE  SessionsCurrent'
  <2>1. CASE Login(c)
    <3>1. PICK i \in DOMAIN users : sessions' = Opened(issued + 1, i, users[i].version)
      BY <2>1 DEF Login
    <3>2. i \in Users /\ users[i].version \in Versions /\ issued < MaxTokens
      BY <1>1, <2>1, VersionType DEF Login
    <3>3. /\ DOMAIN sessions' = DOMAIN sessions \union {issued + 1}
          /\ sessions'[issued + 1] = [user |-> i, opened |-> users[i].version, live |-> TRUE]
          /\ \A t \in DOMAIN sessions \ {issued + 1} : sessions'[t] = sessions[t]
      BY <1>1, <3>1, <3>2, OpenedType
    <3> QED
      BY <1>5, <3>3 DEF SessionsCurrent
  <2>2. CASE DOMAIN sessions' \subseteq DOMAIN sessions
             /\ \A t \in DOMAIN sessions' : sessions'[t] = sessions[t]
    BY <1>5, <2>2 DEF SessionsCurrent
  <2> QED
    BY <1>5, <2>1, <2>2
<1> QED
  BY <1>2, <1>3, <1>4, <1>5, AccountStep

LEMMA CurrentNext == TypeInv /\ SessionsCurrent /\ [Next]_vars => SessionsCurrent'
<1> SUFFICES ASSUME TypeInv, SessionsCurrent, [Next]_vars PROVE SessionsCurrent'
  OBVIOUS
<1>1. UsersOK /\ SessionsOK
  BY TypeParts DEF TypeInv
<1>2. CASE BootInsert
  <2>1. DOMAIN sessions = {} /\ sessions' = sessions
    BY <1>2 DEF BootInsert, SessionsCurrent
  <2> QED
    BY <2>1 DEF SessionsCurrent
<1>3. CASE Boot /\ ~BootInsert
  BY <1>3 DEF Boot, BootFindAdmin, BootMark, BootGrantMissing, BootGrantAll,
     BootAssignOwners, store, SessionsCurrent
<1>4. CASE Crash
  BY <1>4 DEF Crash, store, SessionsCurrent
<1>5. CASE Expire
  <2>1. PICK t \in DOMAIN sessions :
          sessions' = [sessions EXCEPT ![t] = [sessions[t] EXCEPT !.live = FALSE]]
    BY <1>5 DEF Expire
  <2>2. sessions[t] \in Session
    BY <1>1 DEF SessionsOK, IsTable
  <2>3. /\ [sessions[t] EXCEPT !.live = FALSE].user = sessions[t].user
        /\ [sessions[t] EXCEPT !.live = FALSE].opened = sessions[t].opened
    BY <2>2 DEF Session
  <2>4. \A s \in DOMAIN sessions' : /\ s \in DOMAIN sessions
                                   /\ sessions'[s].user = sessions[s].user
                                   /\ sessions'[s].opened = sessions[s].opened
    BY <1>1, <2>1, <2>3 DEF SessionsOK, IsTable
  <2>5. users' = users
    BY <1>5 DEF Expire
  <2> QED
    BY <2>4, <2>5 DEF SessionsCurrent
<1>6. CASE UNCHANGED vars
  BY <1>6 DEF vars, SessionsCurrent
<1> QED
  BY <1>2, <1>3, <1>4, <1>5, <1>6, CurrentHandle DEF Next

(* Every stored session belongs to a stored account and stands for its     *)
(* current password: no reset, change, deletion or login leaves a session  *)
(* of an earlier password behind, however they interleave.                 *)
THEOREM SessionsStayCurrent == Spec => []SessionsCurrent
BY CurrentInit, CurrentNext, TypeInvariant, PTL DEF Spec

-----------------------------------------------------------------------------
(* Passwords change only through stored sessions *)

LEMMA PasswordStep ==
  ASSUME TypeInv, [Next]_vars,
         NEW i \in DOMAIN users \intersect DOMAIN users',
         users'[i].version # users[i].version
  PROVE  \E c \in Clients : Answers(c) /\ MaySetPassword(c, i)
<1>1. UsersOK /\ HandlerOK
  BY TypeParts DEF TypeInv
<1>2. PICK c \in Clients : Handle(c)
  <2>1. CASE Boot
    BY <2>1 DEF Boot, BootInsert, BootFindAdmin, BootMark, BootGrantMissing, BootGrantAll,
       BootAssignOwners, store
  <2>2. CASE Crash \/ Expire \/ UNCHANGED vars
    BY <2>2 DEF Crash, Expire, store, vars
  <2> QED
    BY <2>1, <2>2 DEF Next
<1>3. PICK j \in DOMAIN users, must \in BOOLEAN :
        /\ users' = [users EXCEPT ![j] = [users[j] EXCEPT
                      !.version = users[j].version + 1, !.mustChange = must]]
        /\ ResetPassword(c) \/ ChangePassword(c)
  BY <1>2, AccountStep
<1>4. Answers(c)
  <2>1. handler'[c] = Idle
    BY <1>1, <1>3 DEF ResetPassword, ChangePassword, Reply, HandlerOK
  <2> QED
    BY <1>3, <2>1, AtNotIdle DEF ResetPassword, ChangePassword, Answers
<1>5. CASE ResetPassword(c)
  <2>1. i = handler[c].request.id
    BY <1>1, <1>5 DEF ResetPassword, UsersOK, IsTable
  <2> QED
    BY <1>4, <1>5, <2>1 DEF ResetPassword, HoldsSession, MaySetPassword, At
<1>6. CASE ChangePassword(c)
  <2>1. i = handler[c].user
    BY <1>1, <1>6 DEF ChangePassword, UsersOK, IsTable
  <2> QED
    BY <1>4, <1>6, <2>1 DEF ChangePassword, HoldsSession, MaySetPassword, At
<1> QED
  BY <1>3, <1>5, <1>6

(* A password changes only at the hand of a request whose own session is   *)
(* stored and unexpired at that moment, one of the account or, for a       *)
(* reset, of an administrator: neither what the middleware read earlier    *)
(* nor another session is ever enough.                                     *)
THEOREM PasswordsNeedSessions == Spec => PasswordNeedsSession
<1>1. TypeInv /\ [Next]_vars =>
        [\A i \in DOMAIN users \intersect DOMAIN users' :
           users'[i].version # users[i].version =>
             \E c \in Clients : Answers(c) /\ MaySetPassword(c, i)]_vars
  BY PasswordStep
<1> QED
  BY <1>1, TypeInvariant, PTL DEF Spec, PasswordNeedsSession

-----------------------------------------------------------------------------
(* An administrator remains while no request takes the role away *)

NoDemotions == \A q \in Requests : q.kind = "setRole" => q.admin

(* Handlers work on requests that were sent.                               *)
Asked == \A c \in Clients : handler[c] # Idle => handler[c].request \in Requests

AdminInv == TypeInv /\ Asked /\ AdminRemains

LEMMA AskedNext ==
  ASSUME TypeInv, Asked, [Next]_vars
  PROVE  Asked'
<1>1. HandlerOK
  BY TypeParts DEF TypeInv
<1>2. ASSUME NEW c \in Clients, Handle(c) PROVE Asked'
  <2>1. \A d \in Clients \ {c} : handler'[d] = handler[d]
    BY <1>1, <1>2 DEF Handle, HandlerOK, Receive, FindSession, FindUser, Fail, Login, Signup,
       Logout, CreateUser, GrantCreated, GrantCreatedAll, DeleteUser, CountAdmins, SetRole,
       ResetPassword, ChangePassword, CreateBoard, ReadOwner, ReadUser, Share, Reply, Advance
  <2>2. handler'[c] # Idle => handler'[c].request \in Requests
    <3>1. CASE Receive(c)
      BY <1>1, <3>1 DEF Receive, HandlerOK
    <3>2. CASE Reply(c)
      BY <1>1, <3>2 DEF Reply, HandlerOK
    <3>3. CASE ~Receive(c) /\ ~Reply(c)
      <4>1. handler[c] # Idle
        <5>1. handler[c].phase # "idle"
          BY <1>2, <3>3 DEF Handle, FindSession, FindUser, Fail, Login, Signup, Logout,
             CreateUser, GrantCreated, GrantCreatedAll, DeleteUser, CountAdmins, SetRole,
             ResetPassword, ChangePassword, CreateBoard, ReadOwner, ReadUser, Share, At
        <5> QED
          BY <5>1 DEF Idle
      <4>2. handler[c] \in Handling
        BY <1>1, <4>1, HandlingFields
      <4>3. PICK h : /\ handler' = [handler EXCEPT ![c] = h]
                     /\ h.request = handler[c].request
        <5>1. CASE FindSession(c)
          <6> DEFINE known == [handler[c] EXCEPT !.phase = "session",
                                             !.user = sessions[handler[c].token].user]
          <6>1. handler' = [handler EXCEPT ![c] = known]
            BY <1>1, <3>3, <5>1 DEF FindSession, HandlerOK
          <6>2. known.request = handler[c].request
            BY <4>2 DEF Handling
          <6> QED
            BY <6>1, <6>2
        <5>2. CASE FindUser(c)
          <6> DEFINE known == [handler[c] EXCEPT !.phase = "ready",
                                             !.admin = users[handler[c].user].admin]
          <6>1. handler' = [handler EXCEPT ![c] = known]
            BY <1>1, <5>2 DEF FindUser, HandlerOK
          <6>2. known.request = handler[c].request
            BY <4>2 DEF Handling
          <6> QED
            BY <6>1, <6>2
        <5>3. CASE CreateUser(c)
          <6>1. PICK n \in Users : handler' = [handler EXCEPT ![c] =
                  [handler[c] EXCEPT !.phase = "created", !.target = n]]
            BY <1>1, <3>3, <5>3 DEF CreateUser, Reply, HandlerOK, NewIds
          <6>2. [handler[c] EXCEPT !.phase = "created", !.target = n].request = handler[c].request
            BY <4>2 DEF Handling
          <6> QED
            BY <6>1, <6>2
        <5>4. CASE GrantCreated(c) \/ CountAdmins(c) \/ ReadOwner(c) \/ ReadUser(c)
          <6>1. PICK p : handler' = [handler EXCEPT ![c] = [handler[c] EXCEPT !.phase = p]]
            BY <3>3, <5>4 DEF GrantCreated, CountAdmins, ReadOwner, ReadUser, Advance
          <6>2. [handler[c] EXCEPT !.phase = p].request = handler[c].request
            BY <4>2 DEF Handling
          <6> QED
            BY <6>1, <6>2
        <5> QED
          BY <1>2, <3>3, <5>1, <5>2, <5>3, <5>4 DEF Handle, Fail, Login, Signup, Logout,
             GrantCreatedAll, DeleteUser, SetRole, ResetPassword, ChangePassword,
             CreateBoard, Share
      <4>4. handler'[c].request = handler[c].request
        BY <1>1, <4>3 DEF HandlerOK
      <4> QED
        BY <4>1, <4>4 DEF Asked
    <3> QED
      BY <3>1, <3>2, <3>3
  <2> QED
    BY <2>1, <2>2 DEF Asked
<1>3. CASE Crash
  BY <1>3 DEF Crash, Asked
<1>4. CASE handler' = handler
  BY <1>4 DEF Asked
<1> QED
  BY <1>2, <1>3, <1>4 DEF Next, Boot, BootInsert, BootFindAdmin, BootMark, BootGrantMissing,
     BootGrantAll, BootAssignOwners, Expire, store, vars

LEMMA AdminStep ==
  ASSUME NoDemotions, AdminInv, NEW c \in Clients, Handle(c), Admins # {}
  PROVE  Admins' # {}
<1>1. UsersOK /\ HandlerOK /\ Asked
  BY TypeParts DEF AdminInv, TypeInv
<1>2. PICK a \in Admins : TRUE
  OBVIOUS
<1>3. a \in DOMAIN users /\ users[a].admin
  BY DEF Admins
<1>4. CASE DeleteUser(c)
  <2> DEFINE i == handler[c].request.id
  <2>1. MayLose(i) /\ users' = [j \in DOMAIN users \ {i} |-> users[j]]
    BY <1>4 DEF DeleteUser
  <2> HIDE DEF i
  <2>2. \E b \in Admins : b # i
    <3>1. CASE a # i
      BY <3>1
    <3>2. CASE a = i
      <4>1. Cardinality(Admins) > 1
        BY <1>3, <2>1, <3>2 DEF MayLose
      <4>2. Admins # {i}
        BY <4>1, FS_Singleton
      <4> QED
        BY <1>2, <3>2, <4>2
    <3> QED
      BY <3>1, <3>2
  <2> QED
    BY <2>1, <2>2 DEF Admins
<1>5. CASE SetRole(c)
  <2> DEFINE q == handler[c].request
  <2>1. q \in Requests /\ q.kind = "setRole" /\ q.id \in DOMAIN users
    BY <1>1, <1>5, AtNotIdle DEF SetRole, At, Asked
  <2>2. q.admin
    BY <2>1 DEF NoDemotions
  <2>3. users' = [users EXCEPT ![q.id] = [users[q.id] EXCEPT !.admin = q.admin]]
    BY <1>5 DEF SetRole
  <2> HIDE DEF q
  <2>4. users'[q.id].admin /\ q.id \in DOMAIN users'
    <3>1. users[q.id] \in Account
      BY <1>1, <2>1 DEF UsersOK, IsTable
    <3>2. users'[q.id] = [users[q.id] EXCEPT !.admin = q.admin] /\ q.id \in DOMAIN users'
      BY <1>1, <2>1, <2>3 DEF UsersOK, IsTable
    <3> QED
      BY <2>2, <3>1, <3>2 DEF Account
  <2> QED
    BY <2>4 DEF Admins
<1>6. CASE ResetPassword(c) \/ ChangePassword(c)
  <2>1. PICK j \in DOMAIN users, must \in BOOLEAN :
          users' = [users EXCEPT ![j] = [users[j] EXCEPT
                      !.version = users[j].version + 1, !.mustChange = must]]
    BY <1>6 DEF ResetPassword, ChangePassword
  <2>2. users[j] \in Account
    BY <1>1 DEF UsersOK, IsTable
  <2>3. [users[j] EXCEPT !.version = users[j].version + 1, !.mustChange = must].admin = users[j].admin
    BY <2>2 DEF Account
  <2>4. a \in DOMAIN users' /\ users'[a].admin = users[a].admin
    BY <1>1, <1>3, <2>1, <2>3 DEF UsersOK, IsTable
  <2> QED
    BY <1>3, <2>4 DEF Admins
<1>7. CASE Signup(c) \/ CreateUser(c)
  <2>1. a \in DOMAIN users' /\ users'[a] = users[a]
    <3>1. \E n, row : n \in NewIds(users, Users) /\ users' = With(users, n, row)
      BY <1>7 DEF Signup, CreateUser
    <3> QED
      BY <1>3, <3>1, NewIdIsNew DEF With
  <2> QED
    BY <1>3, <2>1 DEF Admins
<1>8. CASE UNCHANGED users
  BY <1>2, <1>8 DEF Admins
<1> QED
  BY <1>4, <1>5, <1>6, <1>7, <1>8 DEF Handle, Receive, FindSession, FindUser, Fail, Login,
     Logout, GrantCreated, GrantCreatedAll, CountAdmins, CreateBoard, ReadOwner, ReadUser,
     Share, store

LEMMA AdminNext ==
  ASSUME NoDemotions, AdminInv, [Next]_vars
  PROVE  AdminInv'
<1>1. TypeInv' /\ Asked'
  BY TypeInvNext, AskedNext DEF AdminInv
<1>2. AdminRemains'
  <2>1. CASE BootInsert
    BY <2>1 DEF BootInsert, With, AdminRemains, Admins
  <2>2. CASE BootFindAdmin
    BY <2>2 DEF BootFindAdmin, store, AdminRemains, Admins
  <2>3. CASE BootMark \/ BootGrantMissing \/ BootGrantAll \/ BootAssignOwners
    BY <2>3 DEF BootMark, BootGrantMissing, BootGrantAll, BootAssignOwners, AdminInv,
       AdminRemains, Admins
  <2>4. CASE Crash
    BY <2>4 DEF Crash, AdminRemains
  <2>5. CASE Expire \/ UNCHANGED vars
    BY <2>5 DEF Expire, vars, AdminInv, AdminRemains, Admins
  <2>6. ASSUME NEW c \in Clients, Handle(c) PROVE AdminRemains'
    <3>1. server' = server
      BY <2>6 DEF Handle, Receive, FindSession, FindUser, Fail, Login, Signup, Logout,
         CreateUser, GrantCreated, GrantCreatedAll, DeleteUser, CountAdmins, SetRole,
         ResetPassword, ChangePassword, CreateBoard, ReadOwner, ReadUser, Share, store
    <3> QED
      BY <2>6, <3>1, AdminStep DEF AdminInv, AdminRemains
  <2> QED
    BY <2>1, <2>2, <2>3, <2>4, <2>5, <2>6 DEF Next, Boot
<1> QED
  BY <1>1, <1>2 DEF AdminInv

(* As long as no request takes a role away, creation and deletion of       *)
(* accounts leave an administrator, whatever their interleaving: userDelete *)
(* counts in its transaction.                                              *)
THEOREM AnAdminRemains ==
  ASSUME NoDemotions
  PROVE  Spec => []AdminRemains
<1>1. Init => AdminInv
  BY TypeInvInit DEF Init, AdminInv, Asked, AdminRemains
<1>2. AdminInv /\ [Next]_vars => AdminInv'
  BY AdminNext
<1>3. AdminInv => AdminRemains
  BY DEF AdminInv
<1> QED
  BY <1>1, <1>2, <1>3, PTL DEF Spec

-----------------------------------------------------------------------------
(* Owners keep their boards and rows name stored accounts                  *)

(* Nobody deletes an account, or requests are handled one at a time.       *)
NoDeletions == \A q \in Requests : q.kind # "deleteUser"
OneRequest == \A c, d \in Clients : c = d
AccountsLast == NoDeletions \/ OneRequest

(* Where an older database has a board without an owner, the owner it gets *)
(* at startup is the default administrator, whom startup grants every      *)
(* board.  Without this a board may get an owner that has no row for it;   *)
(* who owns the boards, and whom the rows name, does not depend on it.     *)
LegacyBoards ==
  \A s \in InitialStores :
    \/ \A b \in DOMAIN s.boards : s.boards[b] # 0
    \/ DOMAIN s.users = {}
    \/ \E i \in DOMAIN s.users : s.users[i].admin /\ s.users[i].name = DefaultAdmin

(* The tables agree: owners are stored accounts, with an access row where  *)
(* startup gives it to them, and a row of board_users names a stored board *)
(* and a stored account.                                                   *)
Owned == \A b \in DOMAIN boards :
  boards[b] # 0 => /\ boards[b] \in DOMAIN users
                   /\ LegacyBoards => /\ <<b, boards[b]>> \in DOMAIN access
                                      /\ access[<<b, boards[b]>>]
RowsStored == DOMAIN access \subseteq (DOMAIN boards) \X (DOMAIN users)
TablesAgree == Owned /\ RowsStored

(* username text unique not null.                                          *)
NamesUnique == \A i, j \in DOMAIN users : users[i].name = users[j].name => i = j

HasRows(i, value) ==
  \A b \in DOMAIN boards : <<b, i>> \in DOMAIN access /\ (value => access[<<b, i>>])

Default(i) == i \in Admins /\ users[i].name = DefaultAdmin

(* How far startup is with the boards that have no owner.                  *)
BootGrants ==
  \/ \A b \in DOMAIN boards : boards[b] # 0
  \/ server = "down" /\ DOMAIN users = {}
  \/ /\ server # "up"
     /\ LegacyBoards => \E i \in Users :
          /\ Default(i)
          /\ server = "updating" => HasRows(i, FALSE)
          /\ server = "assigning" => HasRows(i, TRUE)

BootInv == NamesUnique /\ BootGrants

(* Requests reach a server that listens.                                   *)
OnlyUpHandles == server # "up" => \A c \in Clients : handler[c] = Idle

UserFound(c) ==
  handler[c].phase \in {"ready", "checked", "known", "created", "granting"} =>
    handler[c].request.kind \in Public \/ handler[c].user \in DOMAIN users

TargetFound(c) ==
  handler[c].phase \in {"created", "granting"} =>
    /\ handler[c].target \in DOMAIN users
    /\ handler[c].request.admin \/ handler[c].request.board \in DOMAIN boards

ShareVetted(c) ==
  /\ At(c, "checked", "share") \/ At(c, "known", "share") =>
       /\ handler[c].request.board \in DOMAIN boards
       /\ KeepsOwner(handler[c].request, boards[handler[c].request.board])
  /\ At(c, "known", "share") => handler[c].request.id \in DOMAIN users

(* What a handler relies on when it acts.                                  *)
HandlersFind == \A c \in Clients : UserFound(c) /\ TargetFound(c) /\ ShareVetted(c)

OwnerInv == TypeInv /\ Asked /\ TablesAgree /\ BootInv /\ OnlyUpHandles /\ HandlersFind
LEMMA OthersWait ==
  ASSUME TypeInv, NEW c \in Clients, Handle(c)
  PROVE  server' = server /\ \A d \in Clients \ {c} : handler'[d] = handler[d]
<1>1. HandlerOK
  BY TypeParts DEF TypeInv
<1> QED
  BY <1>1 DEF Handle, HandlerOK, Receive, FindSession, FindUser, Fail, Login, Signup,
     Logout, CreateUser, GrantCreated, GrantCreatedAll, DeleteUser, CountAdmins, SetRole,
     ResetPassword, ChangePassword, CreateBoard, ReadOwner, ReadUser, Share, Reply, Advance,
     store

LEMMA HandledWhenUp ==
  ASSUME OnlyUpHandles, NEW c \in Clients, Handle(c)
  PROVE  server = "up"
<1>1. CASE Receive(c)
  BY <1>1 DEF Receive
<1>2. CASE ~Receive(c)
  <2>1. handler[c] # Idle
    <3>1. CASE Fail(c)
      BY <3>1 DEF Fail
    <3>2. CASE ~Fail(c)
      <4>1. handler[c].phase # "idle"
        BY <1>2, <3>2 DEF Handle, FindSession, FindUser, Login, Signup, Logout, CreateUser,
           GrantCreated, GrantCreatedAll, DeleteUser, CountAdmins, SetRole, ResetPassword,
           ChangePassword, CreateBoard, ReadOwner, ReadUser, Share, At
      <4> QED
        BY <4>1 DEF Idle
    <3> QED
      BY <3>1, <3>2
  <2> QED
    BY <2>1 DEF OnlyUpHandles
<1> QED
  BY <1>1, <1>2

(* Only deletion takes accounts away, and nothing takes boards away or     *)
(* changes their owner.                                                    *)
LEMMA TablesGrow ==
  ASSUME TypeInv, NEW c \in Clients, Handle(c), ~DeleteUser(c)
  PROVE  /\ DOMAIN users \subseteq DOMAIN users'
         /\ DOMAIN boards \subseteq DOMAIN boards'
         /\ \A b \in DOMAIN boards : boards'[b] = boards[b]
<1>1. UsersOK
  BY TypeParts DEF TypeInv
<1>2. DOMAIN users \subseteq DOMAIN users'
  <2>1. CASE Signup(c) \/ CreateUser(c)
    BY <2>1 DEF Signup, CreateUser, With
  <2>2. CASE SetRole(c) \/ ResetPassword(c) \/ ChangePassword(c)
    BY <1>1, <2>2 DEF SetRole, ResetPassword, ChangePassword, UsersOK, IsTable
  <2>3. CASE UNCHANGED users
    BY <2>3
  <2> QED
    BY <2>1, <2>2, <2>3 DEF Handle, Receive, FindSession, FindUser, Fail, Login, Logout,
       GrantCreated, GrantCreatedAll, CountAdmins, CreateBoard, ReadOwner, ReadUser, Share,
       store
<1>3. /\ DOMAIN boards \subseteq DOMAIN boards'
      /\ \A b \in DOMAIN boards : boards'[b] = boards[b]
  <2>1. CASE CreateBoard(c)
    <3>1. PICK n \in NewIds(boards, Boards) : boards' = With(boards, n, handler[c].user)
      BY <2>1 DEF CreateBoard
    <3> QED
      BY <3>1, NewIdIsNew DEF With
  <2>2. CASE UNCHANGED boards
    BY <2>2
  <2> QED
    BY <2>1, <2>2 DEF Handle, Receive, FindSession, FindUser, Fail, Login, Signup, Logout,
       CreateUser, GrantCreated, GrantCreatedAll, CountAdmins, SetRole, ResetPassword,
       ChangePassword, ReadOwner, ReadUser, Share, store
<1> QED
  BY <1>2, <1>3

(* A deletion runs alone.                                                  *)
LEMMA DeletionIsAlone ==
  ASSUME AccountsLast, TypeInv, Asked, NEW c \in Clients, DeleteUser(c)
  PROVE  \A d \in Clients : d = c
<1>1. handler[c].request \in Requests /\ handler[c].request.kind = "deleteUser"
  BY AtNotIdle DEF DeleteUser, At, Asked
<1> QED
  BY <1>1 DEF AccountsLast, NoDeletions, OneRequest

(* What a handler relies on, after its own step.                           *)
LEMMA FoundByStep ==
  ASSUME OwnerInv, NEW c \in Clients, Handle(c)
  PROVE  (UserFound(c) /\ TargetFound(c) /\ ShareVetted(c))'
<1>1. HandlerOK /\ UsersOK /\ UserFound(c) /\ TargetFound(c) /\ ShareVetted(c) /\ TypeInv
  BY TypeParts DEF OwnerInv, TypeInv, HandlersFind
<1>2. CASE Reply(c)
  <2>1. handler'[c] = Idle
    BY <1>1, <1>2 DEF Reply, HandlerOK
  <2> QED
    BY <2>1 DEF UserFound, TargetFound, ShareVetted, At, Idle
<1>3. CASE Receive(c)
  <2>1. PICK q \in Requests, t \in 0 .. issued : handler' = [handler EXCEPT ![c] =
            [phase |-> IF q.kind \in Public THEN "ready" ELSE "received",
             request |-> q, token |-> t, user |-> 0, admin |-> FALSE, target |-> 0]]
    BY <1>3 DEF Receive
  <2>2. /\ handler'[c].phase = IF q.kind \in Public THEN "ready" ELSE "received"
        /\ handler'[c].request = q
    BY <1>1, <2>1 DEF HandlerOK
  <2> QED
    BY <2>2 DEF UserFound, TargetFound, ShareVetted, At
<1>4. CASE FindSession(c) /\ ~Reply(c)
  <2>1. handler[c] # Idle
    BY <1>4 DEF FindSession, Idle
  <2>2. handler[c] \in Handling
    BY <1>1, <2>1, HandlingFields
  <2>3. handler' = [handler EXCEPT ![c] =
          [handler[c] EXCEPT !.phase = "session", !.user = sessions[handler[c].token].user]]
    BY <1>1, <1>4 DEF FindSession, HandlerOK
  <2>4. handler'[c].phase = "session"
    BY <1>1, <2>2, <2>3 DEF HandlerOK, Handling
  <2> QED
    BY <2>4 DEF UserFound, TargetFound, ShareVetted, At
<1>5. CASE FindUser(c)
  <2>1. handler[c] # Idle /\ handler[c].user \in DOMAIN users /\ users' = users
    BY <1>5 DEF FindUser, Idle, store
  <2>2. handler[c] \in Handling
    BY <1>1, <2>1, HandlingFields
  <2>3. handler' = [handler EXCEPT ![c] =
             [handler[c] EXCEPT !.phase = "ready", !.admin = users[handler[c].user].admin]]
    BY <1>1, <1>5 DEF FindUser, HandlerOK
  <2>4. handler'[c].phase = "ready" /\ handler'[c].user = handler[c].user
    BY <1>1, <2>2, <2>3 DEF HandlerOK, Handling
  <2> QED
    BY <2>1, <2>4 DEF UserFound, TargetFound, ShareVetted, At
<1>6. CASE CreateUser(c) /\ ~Reply(c)
  <2> DEFINE q == handler[c].request
  <2>1. handler[c] # Idle /\ At(c, "ready", "createUser")
    BY <1>6, AtNotIdle DEF CreateUser
  <2>2. handler[c] \in Handling
    BY <1>1, <2>1, HandlingFields
  <2>3. PICK n \in Users :
          /\ handler' = [handler EXCEPT ![c] =
               [handler[c] EXCEPT !.phase = "created", !.target = n]]
          /\ n \in DOMAIN users'
    BY <1>1, <1>6 DEF CreateUser, Reply, NewIds, With
  <2>4. q.admin \/ q.board \in DOMAIN boards
    <3>1. q.admin \/ q.board # 0
      BY <1>6 DEF CreateUser, Reply
    <3> QED
      BY <1>6, <3>1 DEF CreateUser
  <2>5. /\ handler'[c].phase = "created" /\ handler'[c].request = q
        /\ handler'[c].user = handler[c].user /\ handler'[c].target = n
    BY <1>1, <2>2, <2>3 DEF HandlerOK, Handling
  <2>6. handler[c].user \in DOMAIN users /\ DOMAIN users \subseteq DOMAIN users'
    BY <1>1, <1>6, <2>1 DEF UserFound, At, Public, CreateUser, With
  <2>7. boards' = boards /\ q.kind = "createUser"
    BY <1>6, <2>1 DEF CreateUser, At
  <2> HIDE DEF q
  <2> QED
    BY <2>3, <2>4, <2>5, <2>6, <2>7 DEF UserFound, TargetFound, ShareVetted, At
<1>7. CASE (GrantCreated(c) /\ ~Reply(c)) \/ CountAdmins(c) \/ ReadOwner(c) \/ ReadUser(c)
  <2> DEFINE q == handler[c].request
  <2>1. /\ handler[c] # Idle
        /\ UNCHANGED <<users, boards>>
        /\ \/ Advance(c, "granting") /\ At(c, "created", "createUser")
           \/ Advance(c, "checked") /\ At(c, "ready", "setRole")
           \/ /\ Advance(c, "checked") /\ At(c, "ready", "share")
              /\ q.board \in DOMAIN boards /\ KeepsOwner(q, boards[q.board])
           \/ Advance(c, "known") /\ At(c, "checked", "share") /\ q.id \in DOMAIN users
    BY <1>7, AtNotIdle DEF GrantCreated, CountAdmins, ReadOwner, ReadUser, Exists, store
  <2>2. handler[c] \in Handling
    BY <1>1, <2>1, HandlingFields
  <2>3. ASSUME NEW p, Advance(c, p)
        PROVE  /\ handler'[c].phase = p /\ handler'[c].request = q
               /\ handler'[c].user = handler[c].user /\ handler'[c].target = handler[c].target
    BY <1>1, <2>2, <2>3 DEF Advance, HandlerOK, Handling
  <2> HIDE DEF q
  <2>4. CASE Advance(c, "granting") /\ At(c, "created", "createUser")
    BY <1>1, <2>1, <2>3, <2>4 DEF UserFound, TargetFound, ShareVetted, At, q
  <2>5. CASE Advance(c, "checked") /\ At(c, "ready", "setRole")
    BY <1>1, <2>1, <2>3, <2>5 DEF UserFound, TargetFound, ShareVetted, At, q
  <2>6. CASE /\ Advance(c, "checked") /\ At(c, "ready", "share")
             /\ q.board \in DOMAIN boards /\ KeepsOwner(q, boards[q.board])
    BY <1>1, <2>1, <2>3, <2>6 DEF UserFound, TargetFound, ShareVetted, At, q, KeepsOwner
  <2>7. CASE Advance(c, "known") /\ At(c, "checked", "share") /\ q.id \in DOMAIN users
    BY <1>1, <2>1, <2>3, <2>7 DEF UserFound, TargetFound, ShareVetted, At, q, KeepsOwner
  <2> QED
    BY <2>1, <2>4, <2>5, <2>6, <2>7
<1> QED
  BY <1>2, <1>3, <1>4, <1>5, <1>6, <1>7 DEF Handle, Fail, Login, Signup, Logout,
     GrantCreatedAll, DeleteUser, SetRole, ResetPassword, ChangePassword, CreateBoard, Share

LEMMA FindStep ==
  ASSUME AccountsLast, OwnerInv, NEW c \in Clients, Handle(c)
  PROVE  HandlersFind'
<1>1. TypeInv /\ Asked /\ HandlersFind
  BY DEF OwnerInv
<1>2. (UserFound(c) /\ TargetFound(c) /\ ShareVetted(c))'
  BY FoundByStep
<1>3. ASSUME NEW d \in Clients, d # c
      PROVE  (UserFound(d) /\ TargetFound(d) /\ ShareVetted(d))'
  <2>1. ~DeleteUser(c)
    BY <1>1, <1>3, DeletionIsAlone
  <2>2. handler'[d] = handler[d]
    BY <1>1, <1>3, OthersWait
  <2>3. /\ DOMAIN users \subseteq DOMAIN users'
        /\ DOMAIN boards \subseteq DOMAIN boards'
        /\ \A b \in DOMAIN boards : boards'[b] = boards[b]
    BY <1>1, <2>1, TablesGrow
  <2>4. UserFound(d) /\ TargetFound(d) /\ ShareVetted(d)
    BY <1>1 DEF HandlersFind
  <2> QED
    BY <2>2, <2>3, <2>4 DEF UserFound, TargetFound, ShareVetted, At, KeepsOwner
<1> QED
  BY <1>2, <1>3 DEF HandlersFind

-----------------------------------------------------------------------------
(* The tables *)

(* A row set to true, or for an owner only to true, keeps the owners' rows. *)
LEMMA RowWritten ==
  ASSUME BoardsOK, TablesAgree, NEW b \in DOMAIN boards, NEW i \in DOMAIN users,
         NEW value \in BOOLEAN, boards[b] = i => value,
         boards' = boards, DOMAIN users \subseteq DOMAIN users',
         access' = With(access, <<b, i>>, value)
  PROVE  TablesAgree'
<1> DEFINE p == <<b, i>>
<1>1. access' = [r \in DOMAIN access \union {p} |-> IF r = p THEN value ELSE access[r]]
  BY DEF With
<1>2. DOMAIN access' = DOMAIN access \union {p}
  BY <1>1
<1>3. \A r \in DOMAIN access' : access'[r] = IF r = p THEN value ELSE access[r]
  BY <1>1
<1>4. RowsStored'
  BY <1>2 DEF TablesAgree, RowsStored
<1>5. ASSUME NEW d \in DOMAIN boards, boards[d] # 0
      PROVE  /\ boards[d] \in DOMAIN users'
             /\ LegacyBoards => /\ <<d, boards[d]>> \in DOMAIN access'
                                /\ access'[<<d, boards[d]>>]
  <2>1. /\ boards[d] \in DOMAIN users
        /\ LegacyBoards => /\ <<d, boards[d]>> \in DOMAIN access
                           /\ access[<<d, boards[d]>>]
    BY <1>5 DEF TablesAgree, Owned
  <2>2. CASE <<d, boards[d]>> = p
    <3>1. d = b /\ boards[d] = i
      BY <2>2
    <3> QED
      BY <1>2, <1>3, <2>1, <2>2, <3>1
  <2>3. CASE <<d, boards[d]>> # p
    BY <1>2, <1>3, <2>1, <2>3
  <2> QED
    BY <2>2, <2>3
<1> QED
  BY <1>4, <1>5 DEF TablesAgree, Owned

LEMMA RowsGranted ==
  ASSUME BoardsOK, TablesAgree, NEW i \in DOMAIN users,
         boards' = boards, users' = users,
         access' = GrantedMissing(i) \/ access' = GrantedAll(i)
  PROVE  TablesAgree'
<1> DEFINE new == {p \in (DOMAIN boards) \X {i} : p \notin DOMAIN access}
<1>1. CASE access' = GrantedMissing(i)
  <2>1. access' = [p \in DOMAIN access \union new |-> IF p \in new THEN TRUE ELSE access[p]]
    BY <1>1 DEF GrantedMissing
  <2>2. new \subseteq (DOMAIN boards) \X (DOMAIN users) /\ \A p \in new : p \notin DOMAIN access
    OBVIOUS
  <2> HIDE DEF new
  <2>3. DOMAIN access' = DOMAIN access \union new /\ \A p \in DOMAIN access : access'[p] = access[p]
    BY <2>1, <2>2
  <2> QED
    BY <2>2, <2>3 DEF TablesAgree, Owned, RowsStored
<1>2. CASE access' = GrantedAll(i)
  <2>1. DOMAIN access' = DOMAIN access /\ \A p \in DOMAIN access : access[p] => access'[p]
    BY <1>2 DEF GrantedAll
  <2> QED
    BY <2>1 DEF TablesAgree, Owned, RowsStored
<1> QED
  BY <1>1, <1>2

LEMMA BoardAdded ==
  ASSUME BoardsOK, TablesAgree, NEW n \in NewIds(boards, Boards), NEW u \in DOMAIN users,
         users' = users, boards' = With(boards, n, u),
         access' = With(access, <<n, u>>, TRUE)
  PROVE  TablesAgree'
<1> DEFINE p == <<n, u>>
<1>1. n \notin DOMAIN boards
  BY NewIdIsNew
<1>2. p \notin DOMAIN access
  BY <1>1 DEF TablesAgree, RowsStored
<1>3. access' = [r \in DOMAIN access \union {p} |-> IF r = p THEN TRUE ELSE access[r]]
  BY DEF With
<1>4. boards' = [d \in DOMAIN boards \union {n} |-> IF d = n THEN u ELSE boards[d]]
  BY DEF With
<1>5. /\ DOMAIN access' = DOMAIN access \union {p} /\ access'[p]
      /\ \A r \in DOMAIN access : access'[r] = access[r]
  BY <1>2, <1>3
<1>6. /\ DOMAIN boards' = DOMAIN boards \union {n} /\ boards'[n] = u
      /\ \A d \in DOMAIN boards : boards'[d] = boards[d]
  BY <1>1, <1>4
<1>7. RowsStored'
  <2>1. <<n, u>> \in (DOMAIN boards') \X (DOMAIN users')
    BY <1>6
  <2>2. DOMAIN access \subseteq (DOMAIN boards') \X (DOMAIN users')
    BY <1>6 DEF TablesAgree, RowsStored
  <2> QED
    BY <1>5, <2>1, <2>2 DEF RowsStored
<1>8. Owned'
  <2> SUFFICES ASSUME NEW d \in DOMAIN boards', boards'[d] # 0
               PROVE  /\ boards'[d] \in DOMAIN users'
                      /\ LegacyBoards => /\ <<d, boards'[d]>> \in DOMAIN access'
                                         /\ access'[<<d, boards'[d]>>]
    BY DEF Owned
  <2>1. CASE d = n
    BY <1>5, <1>6, <2>1
  <2>2. CASE d \in DOMAIN boards
    BY <1>5, <1>6, <2>2 DEF TablesAgree, Owned
  <2> QED
    BY <1>6, <2>1, <2>2
<1> QED
  BY <1>7, <1>8 DEF TablesAgree

(* userDelete: the boards of the account and the access to them go to the  *)
(* administrator.                                                          *)
LEMMA AccountRemoved ==
  ASSUME BoardsOK, TablesAgree, NEW i \in DOMAIN users, NEW u \in DOMAIN users,
         UsersOK, i # u,
         users' = [j \in DOMAIN users \ {i} |-> users[j]],
         boards' = Transferred(i, u), access' = AccessAfter(i, u)
  PROVE  TablesAgree'
<1> DEFINE owned == {b \in DOMAIN boards : boards[b] = i} \X {u}
<1>1. DOMAIN boards' = DOMAIN boards
      /\ \A b \in DOMAIN boards : boards'[b] = IF boards[b] = i THEN u ELSE boards[b]
  BY DEF Transferred
<1>2. access' = [p \in {r \in DOMAIN access \union owned : r[2] # i} |->
                   p \in owned \/ access[p]]
  BY DEF AccessAfter
<1>3. \A p \in owned : p \in (DOMAIN boards) \X (DOMAIN users) /\ p[2] = u
  OBVIOUS
<1>4. \A b \in DOMAIN boards : boards[b] = i => <<b, u>> \in owned
  OBVIOUS
<1> HIDE DEF owned
<1>5. DOMAIN access' = {r \in DOMAIN access \union owned : r[2] # i}
  BY <1>2
<1>6. \A p \in DOMAIN access' : p \in owned \/ access[p] => access'[p]
  BY <1>2
<1>7. DOMAIN users' = DOMAIN users \ {i}
  OBVIOUS
<1>8. RowsStored'
  <2> SUFFICES ASSUME NEW p \in DOMAIN access'
               PROVE  p \in (DOMAIN boards') \X (DOMAIN users')
    BY DEF RowsStored
  <2>1. p \in (DOMAIN boards) \X (DOMAIN users) /\ p[2] # i
    BY <1>3, <1>5 DEF TablesAgree, RowsStored
  <2> QED
    BY <1>1, <1>7, <2>1
<1>9. Owned'
  <2> SUFFICES ASSUME NEW b \in DOMAIN boards, boards'[b] # 0
               PROVE  /\ boards'[b] \in DOMAIN users'
                      /\ LegacyBoards => /\ <<b, boards'[b]>> \in DOMAIN access'
                                         /\ access'[<<b, boards'[b]>>]
    BY <1>1 DEF Owned
  <2>1. CASE boards[b] = i
    <3>1. boards'[b] = u /\ <<b, u>> \in owned /\ u # i
      BY <1>1, <1>4, <2>1
    <3>2. <<b, u>> \in DOMAIN access'
      BY <1>3, <1>5, <3>1
    <3> QED
      BY <1>6, <1>7, <3>1, <3>2
  <2>2. CASE boards[b] # i
    <3>1. boards'[b] = boards[b] /\ boards[b] # 0
      BY <1>1, <2>2
    <3>2. /\ boards[b] \in DOMAIN users
          /\ LegacyBoards => /\ <<b, boards[b]>> \in DOMAIN access
                             /\ access[<<b, boards[b]>>]
      BY <3>1 DEF TablesAgree, Owned
    <3>3. LegacyBoards => <<b, boards[b]>> \in DOMAIN access'
      BY <1>5, <2>2, <3>2
    <3> QED
      BY <1>6, <1>7, <2>2, <3>1, <3>2, <3>3
  <2> QED
    BY <2>1, <2>2
<1> QED
  BY <1>8, <1>9 DEF TablesAgree

NoOrphans == \A b \in DOMAIN boards : boards[b] # 0

LEMMA TablesStep ==
  ASSUME OwnerInv, NEW c \in Clients, Handle(c)
  PROVE  TablesAgree'
<1> DEFINE q == handler[c].request
<1>1. /\ UsersOK /\ BoardsOK /\ HandlerOK /\ TablesAgree /\ TypeInv
      /\ UserFound(c) /\ TargetFound(c) /\ ShareVetted(c)
  BY TypeParts DEF OwnerInv, TypeInv, HandlersFind
<1>2. CASE GrantCreated(c) \/ GrantCreatedAll(c)
  <2>1. handler[c].target \in DOMAIN users
    BY <1>1, <1>2 DEF GrantCreated, GrantCreatedAll, At, TargetFound
  <2>2. UNCHANGED <<users, boards>>
    BY <1>2 DEF GrantCreated, GrantCreatedAll
  <2>3. CASE access' = GrantedMissing(handler[c].target) \/ access' = GrantedAll(handler[c].target)
    BY <1>1, <2>1, <2>2, <2>3, RowsGranted
  <2>4. CASE ~q.admin /\ access' = With(access, <<q.board, handler[c].target>>, TRUE)
             /\ GrantCreated(c)
    <3>1. q.board \in DOMAIN boards
      BY <1>1, <2>4 DEF GrantCreated, At, TargetFound
    <3> QED
      BY <1>1, <2>1, <2>2, <2>4, <3>1, RowWritten
  <2> QED
    BY <1>2, <2>3, <2>4 DEF GrantCreated, GrantCreatedAll
<1>3. CASE DeleteUser(c)
  <2>1. handler[c].user \in DOMAIN users
    BY <1>1, <1>3 DEF DeleteUser, At, UserFound, Public
  <2>2. /\ q.id # handler[c].user /\ q.id \in DOMAIN users
        /\ users' = [j \in DOMAIN users \ {q.id} |-> users[j]]
        /\ boards' = Transferred(q.id, handler[c].user)
        /\ access' = AccessAfter(q.id, handler[c].user)
    BY <1>3 DEF DeleteUser
  <2> HIDE DEF q
  <2> QED
    BY <1>1, <2>1, <2>2, AccountRemoved
<1>4. CASE CreateBoard(c)
  <2>1. handler[c].user \in DOMAIN users
    BY <1>1, <1>4 DEF CreateBoard, At, UserFound, Public
  <2>2. PICK n \in NewIds(boards, Boards) :
          /\ boards' = With(boards, n, handler[c].user)
          /\ access' = With(access, <<n, handler[c].user>>, TRUE)
    BY <1>4 DEF CreateBoard
  <2>3. users' = users
    BY <1>4 DEF CreateBoard
  <2> QED
    BY <1>1, <2>1, <2>2, <2>3, BoardAdded
<1>5. CASE Share(c)
  <2>1. handler[c] # Idle /\ q.kind = "share"
    BY <1>5, AtNotIdle DEF Share, At
  <2>2. q \in Request
    BY <1>1, <2>1, HandlingFields
  <2>3. q.access \in BOOLEAN
    BY <2>1, <2>2, RequestFields
  <2>4. /\ q.board \in DOMAIN boards /\ q.id \in DOMAIN users
        /\ boards[q.board] = q.id => q.access
    BY <1>1, <1>5 DEF Share, ShareVetted, KeepsOwner
  <2>5. access' = With(access, <<q.board, q.id>>, q.access) /\ UNCHANGED <<users, boards>>
    BY <1>5 DEF Share
  <2> HIDE DEF q
  <2> QED
    BY <1>1, <2>3, <2>4, <2>5, RowWritten
<1>6. CASE /\ Receive(c) \/ FindSession(c) \/ FindUser(c) \/ Fail(c) \/ Login(c)
              \/ Signup(c) \/ Logout(c) \/ CreateUser(c) \/ CountAdmins(c) \/ SetRole(c)
              \/ ResetPassword(c) \/ ChangePassword(c) \/ ReadOwner(c) \/ ReadUser(c)
  <2>1. UNCHANGED <<boards, access>> /\ ~DeleteUser(c)
    BY <1>1, <1>6 DEF Receive, FindSession, FindUser, Fail, Login, Signup, Logout, CreateUser,
       CountAdmins, SetRole, ResetPassword, ChangePassword, ReadOwner, ReadUser, DeleteUser,
       store, At
  <2>2. DOMAIN users \subseteq DOMAIN users'
    BY <1>1, <2>1, TablesGrow
  <2> QED
    BY <1>1, <2>1, <2>2 DEF TablesAgree, Owned, RowsStored
<1> QED
  BY <1>2, <1>3, <1>4, <1>5, <1>6 DEF Handle

(* Every board has an owner once the server handles requests.              *)
LEMMA NoOrphansStep ==
  ASSUME OwnerInv, NEW c \in Clients, Handle(c)
  PROVE  NoOrphans'
<1>1. NoOrphans
  <2>1. server = "up"
    BY HandledWhenUp DEF OwnerInv
  <2> QED
    BY <2>1 DEF OwnerInv, BootInv, BootGrants, NoOrphans
<1>2. /\ UsersOK /\ UserFound(c)
  BY TypeParts DEF OwnerInv, TypeInv, HandlersFind
<1>3. 0 \notin DOMAIN users
  BY <1>2 DEF UsersOK, IsTable, Users
<1>4. CASE DeleteUser(c)
  <2>1. handler[c].user \in DOMAIN users /\ boards' = Transferred(handler[c].request.id, handler[c].user)
    BY <1>2, <1>4 DEF DeleteUser, At, UserFound, Public
  <2> QED
    BY <1>1, <1>3, <2>1 DEF NoOrphans, Transferred
<1>5. CASE CreateBoard(c)
  <2>1. handler[c].user \in DOMAIN users
    BY <1>2, <1>5 DEF CreateBoard, At, UserFound, Public
  <2>2. PICK n : boards' = With(boards, n, handler[c].user)
    BY <1>5 DEF CreateBoard
  <2> QED
    BY <1>1, <1>3, <2>1, <2>2 DEF NoOrphans, With
<1>6. CASE UNCHANGED boards
  BY <1>1, <1>6 DEF NoOrphans
<1> QED
  BY <1>4, <1>5, <1>6 DEF Handle, Receive, FindSession, FindUser, Fail, Login, Signup,
     Logout, CreateUser, GrantCreated, GrantCreatedAll, CountAdmins, SetRole, ResetPassword,
     ChangePassword, ReadOwner, ReadUser, Share, store

LEMMA NamesStep ==
  ASSUME TypeInv, NamesUnique, NEW c \in Clients, Handle(c)
  PROVE  NamesUnique'
<1> DEFINE q == handler[c].request
<1>1. UsersOK
  BY TypeParts DEF TypeInv
<1>2. CASE Signup(c) \/ CreateUser(c)
  <2>1. PICK n, admin, must :
          /\ n \in NewIds(users, Users)
          /\ users' = With(users, n, [name |-> q.name, admin |-> admin,
                                      mustChange |-> must, version |-> 1])
    BY <1>2 DEF Signup, CreateUser
  <2>2. \A j \in DOMAIN users : users[j].name # q.name
    BY <1>2 DEF Signup, CreateUser, Free
  <2>3. n \notin DOMAIN users
    BY <2>1, NewIdIsNew
  <2> HIDE DEF q
  <2>4. /\ DOMAIN users' = DOMAIN users \union {n} /\ users'[n].name = q.name
        /\ \A j \in DOMAIN users : users'[j] = users[j]
    BY <2>1, <2>3 DEF With
  <2> QED
    BY <2>2, <2>4 DEF NamesUnique
<1>3. CASE DeleteUser(c)
  BY <1>3 DEF DeleteUser, NamesUnique
<1>4. CASE SetRole(c) \/ ResetPassword(c) \/ ChangePassword(c)
  <2>1. PICK i, row :
          i \in DOMAIN users /\ users' = [users EXCEPT ![i] = row] /\ row.name = users[i].name
    <3>1. CASE SetRole(c)
      <4>1. q.id \in DOMAIN users
            /\ users' = [users EXCEPT ![q.id] = [users[q.id] EXCEPT !.admin = q.admin]]
        BY <3>1 DEF SetRole
      <4>2. [users[q.id] EXCEPT !.admin = q.admin].name = users[q.id].name
        BY <1>1, <4>1 DEF UsersOK, IsTable, Account
      <4> QED
        BY <4>1, <4>2
    <3>2. CASE ResetPassword(c) \/ ChangePassword(c)
      <4>1. PICK j \in DOMAIN users, must \in BOOLEAN :
              users' = [users EXCEPT ![j] = [users[j] EXCEPT
                          !.version = users[j].version + 1, !.mustChange = must]]
        BY <3>2 DEF ResetPassword, ChangePassword
      <4>2. [users[j] EXCEPT !.version = users[j].version + 1,
                             !.mustChange = must].name = users[j].name
        BY <1>1 DEF UsersOK, IsTable, Account
      <4> QED
        BY <4>1, <4>2
    <3> QED
      BY <1>4, <3>1, <3>2
  <2>2. DOMAIN users' = DOMAIN users /\ \A j \in DOMAIN users : users'[j].name = users[j].name
    BY <1>1, <2>1 DEF UsersOK, IsTable
  <2> QED
    BY <2>2 DEF NamesUnique
<1>5. CASE UNCHANGED users
  BY <1>5 DEF NamesUnique
<1> QED
  BY <1>2, <1>3, <1>4, <1>5 DEF Handle, Receive, FindSession, FindUser, Fail, Login,
     Logout, GrantCreated, GrantCreatedAll, CountAdmins, CreateBoard, ReadOwner, ReadUser,
     Share, store

-----------------------------------------------------------------------------
(* Startup *)

LEMMA AdminIsUser ==
  ASSUME UsersOK, NEW i, i \in Admins
  PROVE  i \in DOMAIN users /\ i \in Users
BY DEF Admins, UsersOK, IsTable

(* Startup works with the default administrator while there is one.        *)
LEMMA DefaultIsFirst ==
  ASSUME NamesUnique, NEW i, Default(i), NEW j, FirstAdmin(j)
  PROVE  j = i
BY DEF NamesUnique, Default, FirstAdmin, Admins

LEMMA GrantsGiveRows ==
  ASSUME BoardsOK, NEW i \in Users, boards' = boards
  PROVE  /\ access' = GrantedMissing(i) => HasRows(i, FALSE)'
         /\ access' = GrantedAll(i) /\ HasRows(i, FALSE) => HasRows(i, TRUE)'
<1> DEFINE new == {p \in (DOMAIN boards) \X {i} : p \notin DOMAIN access}
<1>1. ASSUME access' = GrantedMissing(i) PROVE HasRows(i, FALSE)'
  <2>1. DOMAIN access' = DOMAIN access \union new
    BY <1>1 DEF GrantedMissing
  <2>2. \A b \in DOMAIN boards : <<b, i>> \in DOMAIN access \/ <<b, i>> \in new
    OBVIOUS
  <2> HIDE DEF new
  <2> QED
    BY <2>1, <2>2 DEF HasRows
<1>2. ASSUME access' = GrantedAll(i), HasRows(i, FALSE) PROVE HasRows(i, TRUE)'
  <2>1. DOMAIN access' = DOMAIN access
        /\ \A p \in DOMAIN access : access'[p] = (access[p] \/ p[2] = i)
    BY <1>2 DEF GrantedAll
  <2>2. ASSUME NEW b \in DOMAIN boards
        PROVE  <<b, i>> \in DOMAIN access' /\ access'[<<b, i>>]
    <3>1. <<b, i>> \in DOMAIN access
      BY <1>2 DEF HasRows
    <3> QED
      BY <2>1, <3>1
  <2> QED
    BY <2>2 DEF HasRows
<1> QED
  BY <1>1, <1>2

LEMMA BootTables ==
  ASSUME OwnerInv, Boot
  PROVE  TablesAgree'
<1>1. UsersOK /\ BoardsOK /\ TablesAgree /\ BootInv
  BY TypeParts DEF OwnerInv, TypeInv
<1>2. CASE BootInsert
  <2>1. DOMAIN users \subseteq DOMAIN users' /\ UNCHANGED <<boards, access>>
    BY <1>2 DEF BootInsert, With
  <2> QED
    BY <1>1, <2>1 DEF TablesAgree, Owned, RowsStored
<1>3. CASE BootGrantMissing \/ BootGrantAll
  <2>1. PICK i \in Admins : access' = GrantedMissing(i) \/ access' = GrantedAll(i)
    BY <1>3 DEF BootGrantMissing, BootGrantAll
  <2>2. i \in DOMAIN users
    BY <1>1, AdminIsUser
  <2>3. UNCHANGED <<users, boards>>
    BY <1>3 DEF BootGrantMissing, BootGrantAll
  <2> QED
    BY <1>1, <2>1, <2>2, <2>3, RowsGranted
<1>4. CASE BootAssignOwners
  <2>1. PICK j \in Admins :
          /\ FirstAdmin(j)
          /\ boards' = [b \in DOMAIN boards |-> IF boards[b] = 0 THEN j ELSE boards[b]]
    BY <1>4 DEF BootAssignOwners
  <2>2. server = "assigning" /\ UNCHANGED <<users, access>>
    BY <1>4 DEF BootAssignOwners
  <2>3. ASSUME NEW b \in DOMAIN boards, boards[b] = 0
        PROVE  /\ j \in DOMAIN users
               /\ LegacyBoards => <<b, j>> \in DOMAIN access /\ access[<<b, j>>]
    <3>1. j \in DOMAIN users
      BY <1>1, AdminIsUser
    <3>2. ASSUME LegacyBoards
          PROVE  <<b, j>> \in DOMAIN access /\ access[<<b, j>>]
      <4>1. PICK i \in Users : Default(i) /\ HasRows(i, TRUE)
        BY <1>1, <2>2, <2>3, <3>2 DEF BootInv, BootGrants
      <4>2. i = j
        BY <1>1, <2>1, <4>1, DefaultIsFirst DEF BootInv
      <4> QED
        BY <4>1, <4>2 DEF HasRows
    <3> QED
      BY <3>1, <3>2
  <2>4. DOMAIN boards' = DOMAIN boards
        /\ \A b \in DOMAIN boards : boards'[b] = IF boards[b] = 0 THEN j ELSE boards[b]
    BY <2>1
  <2>5. ASSUME NEW b \in DOMAIN boards
        PROVE  /\ boards'[b] \in DOMAIN users
               /\ LegacyBoards => /\ <<b, boards'[b]>> \in DOMAIN access
                                  /\ access[<<b, boards'[b]>>]
    <3>1. CASE boards[b] = 0
      BY <2>3, <2>4, <3>1
    <3>2. CASE boards[b] # 0
      BY <1>1, <2>4, <3>2 DEF TablesAgree, Owned
    <3> QED
      BY <3>1, <3>2
  <2>6. Owned'
    BY <2>2, <2>4, <2>5 DEF Owned
  <2> QED
    BY <1>1, <2>2, <2>4, <2>6 DEF TablesAgree, RowsStored
<1>5. CASE BootFindAdmin \/ BootMark
  BY <1>1, <1>5 DEF BootFindAdmin, BootMark, store, TablesAgree, Owned, RowsStored
<1> QED
  BY <1>2, <1>3, <1>4, <1>5 DEF Boot

LEMMA BootKeepsNames ==
  ASSUME OwnerInv, Boot
  PROVE  NamesUnique'
<1>1. CASE BootInsert
  <2>1. DOMAIN users' = {1}
    BY <1>1 DEF BootInsert, With
  <2> QED
    BY <2>1 DEF NamesUnique
<1>2. CASE UNCHANGED users
  BY <1>2 DEF NamesUnique, OwnerInv, BootInv
<1> QED
  BY <1>1, <1>2 DEF Boot, BootFindAdmin, BootMark, BootGrantMissing, BootGrantAll,
     BootAssignOwners, store

LEMMA BootProgress ==
  ASSUME OwnerInv, Boot
  PROVE  BootGrants'
<1>1. UsersOK /\ BoardsOK /\ NamesUnique /\ BootGrants
  BY TypeParts DEF OwnerInv, TypeInv, BootInv
<1>2. CASE BootAssignOwners
  <2>1. PICK j \in Admins : boards' = [b \in DOMAIN boards |-> IF boards[b] = 0 THEN j ELSE boards[b]]
    BY <1>2 DEF BootAssignOwners
  <2>2. j # 0
    BY <1>1, AdminIsUser DEF Users
  <2>3. \A b \in DOMAIN boards' : boards'[b] # 0
    BY <2>1, <2>2
  <2> QED
    BY <2>3 DEF BootGrants
<1>3. CASE NoOrphans /\ ~BootAssignOwners
  <2>1. boards' = boards
    BY <1>3 DEF Boot, BootInsert, BootFindAdmin, BootMark, BootGrantMissing, BootGrantAll, store
  <2> QED
    BY <1>3, <2>1 DEF BootGrants, NoOrphans
<1>4. CASE BootInsert
  <2>1. /\ DOMAIN users' = {1} /\ users'[1].admin /\ users'[1].name = DefaultAdmin
        /\ server' = "marking"
    BY <1>4 DEF BootInsert, With
  <2>2. 1 \in Users
    BY ParametersAssumption DEF Users
  <2> QED
    BY <2>1, <2>2 DEF BootGrants, Default, Admins
<1>5. CASE ~LegacyBoards /\ ~NoOrphans /\ ~BootInsert /\ ~BootAssignOwners
  <2>1. server' # "up"
    BY <1>5 DEF Boot, BootFindAdmin, BootMark, BootGrantMissing, BootGrantAll
  <2> QED
    BY <1>5, <2>1 DEF BootGrants
<1>6. CASE LegacyBoards /\ ~NoOrphans /\ ~BootInsert /\ ~BootAssignOwners
  <2>1. /\ UNCHANGED <<users, boards>>
        /\ \/ server' = "marking" /\ Admins # {}
           \/ server = "marking"
           \/ server = "inserting" \/ server = "updating"
    BY <1>6 DEF Boot, BootFindAdmin, BootMark, BootGrantMissing, BootGrantAll, store
  <2>2. ~(server = "down" /\ DOMAIN users = {})
    BY <2>1 DEF Admins
  <2>3. PICK i \in Users : /\ Default(i)
                           /\ server = "updating" => HasRows(i, FALSE)
    BY <1>1, <1>6, <2>2 DEF BootGrants, NoOrphans
  <2>4. Default(i)'
    BY <2>1, <2>3 DEF Default, Admins
  <2>5. \A j : FirstAdmin(j) => j = i
    BY <1>1, <2>3, DefaultIsFirst
  <2>6. CASE BootFindAdmin
    BY <2>4, <2>6 DEF BootFindAdmin, BootGrants
  <2>7. CASE BootMark
    <3>1. server' = "inserting"
      BY <2>3, <2>5, <2>7 DEF BootMark, Default
    <3> QED
      BY <2>4, <3>1 DEF BootGrants
  <2>8. CASE BootGrantMissing
    <3>1. access' = GrantedMissing(i) /\ server' = "updating"
      BY <2>5, <2>8 DEF BootGrantMissing
    <3>2. HasRows(i, FALSE)'
      BY <1>1, <2>1, <3>1, GrantsGiveRows
    <3> QED
      BY <2>4, <3>1, <3>2 DEF BootGrants
  <2>9. CASE BootGrantAll
    <3>1. access' = GrantedAll(i) /\ server = "updating" /\ server' = "assigning"
      BY <2>5, <2>9 DEF BootGrantAll
    <3>2. HasRows(i, TRUE)'
      BY <1>1, <2>1, <2>3, <3>1, GrantsGiveRows
    <3> QED
      BY <2>4, <3>1, <3>2 DEF BootGrants
  <2> QED
    BY <1>6, <2>6, <2>7, <2>8, <2>9 DEF Boot
<1> QED
  BY <1>2, <1>3, <1>4, <1>5, <1>6

-----------------------------------------------------------------------------
(* The invariant *)

LEMMA OwnerInit ==
  ASSUME Init
  PROVE  OwnerInv
<1>1. PICK s \in InitialStores : users = s.users /\ boards = s.boards /\ access = s.access
  BY DEF Init
<1>2. WellFormed(s)
  BY StoresAssumption
<1>3. server = "down" /\ handler = [c \in Clients |-> Idle]
  BY DEF Init
<1>4. TypeInv /\ Asked
  BY <1>3, TypeInvInit DEF Asked
<1>5. TablesAgree
  BY <1>1, <1>2 DEF WellFormed, TablesAgree, Owned, RowsStored
<1>6. NamesUnique
  BY <1>1, <1>2 DEF WellFormed, NamesUnique
<1>7. BootGrants
  <2>1. UsersOK
    BY <1>4, TypeParts DEF TypeInv
  <2>2. LegacyBoards =>
        \/ \A b \in DOMAIN boards : boards[b] # 0
        \/ DOMAIN users = {}
        \/ \E i \in DOMAIN users : users[i].admin /\ users[i].name = DefaultAdmin
    BY <1>1 DEF LegacyBoards
  <2> QED
    BY <1>3, <2>1, <2>2 DEF BootGrants, Default, Admins, UsersOK, IsTable
<1>8. OnlyUpHandles /\ HandlersFind
  BY <1>3 DEF OnlyUpHandles, HandlersFind, UserFound, TargetFound, ShareVetted, At, Idle
<1> QED
  BY <1>4, <1>5, <1>6, <1>7, <1>8 DEF OwnerInv, BootInv

LEMMA OwnerNext ==
  ASSUME AccountsLast, OwnerInv, [Next]_vars
  PROVE  OwnerInv'
<1>1. TypeInv' /\ Asked'
  BY TypeInvNext, AskedNext DEF OwnerInv
<1>2. TypeInv /\ TablesAgree /\ NamesUnique /\ BootGrants /\ OnlyUpHandles /\ HandlersFind
  BY DEF OwnerInv, BootInv
<1>3. CASE Boot
  <2>1. server # "up" /\ handler' = handler
    BY <1>3 DEF Boot, BootInsert, BootFindAdmin, BootMark, BootGrantMissing, BootGrantAll,
       BootAssignOwners
  <2>2. \A c \in Clients : handler'[c] = Idle
    BY <1>2, <2>1 DEF OnlyUpHandles
  <2>3. HandlersFind'
    BY <2>2 DEF HandlersFind, UserFound, TargetFound, ShareVetted, At, Idle
  <2> QED
    BY <1>1, <1>3, <2>2, <2>3, BootTables, BootKeepsNames, BootProgress
    DEF OwnerInv, BootInv, OnlyUpHandles
<1>4. CASE Crash
  <2>1. /\ UNCHANGED <<users, boards, access>> /\ server' = "down"
        /\ \A c \in Clients : handler'[c] = Idle
    BY <1>4 DEF Crash, store
  <2>2. HandlersFind' /\ OnlyUpHandles'
    BY <2>1 DEF HandlersFind, UserFound, TargetFound, ShareVetted, At, Idle, OnlyUpHandles
  <2>3. TablesAgree' /\ NamesUnique'
    BY <1>2, <2>1 DEF TablesAgree, Owned, RowsStored, NamesUnique
  <2>4. BootGrants'
    BY <1>2, <2>1 DEF BootGrants, Default, Admins
  <2> QED
    BY <1>1, <2>2, <2>3, <2>4 DEF OwnerInv, BootInv
<1>5. ASSUME NEW c \in Clients, Handle(c)
      PROVE  OwnerInv'
  <2>1. server = "up" /\ server' = server
    BY <1>2, <1>5, HandledWhenUp, OthersWait
  <2>2. TablesAgree' /\ NoOrphans' /\ NamesUnique' /\ HandlersFind'
    BY <1>2, <1>5, TablesStep, NoOrphansStep, NamesStep, FindStep
  <2>3. BootGrants' /\ OnlyUpHandles'
    BY <2>1, <2>2 DEF NoOrphans, BootGrants, OnlyUpHandles
  <2> QED
    BY <1>1, <2>2, <2>3 DEF OwnerInv, BootInv
<1>6. CASE Expire \/ UNCHANGED vars
  <2>1. UNCHANGED <<users, boards, access, server, handler>>
    BY <1>6 DEF Expire, vars
  <2>2. TablesAgree' /\ NamesUnique' /\ OnlyUpHandles'
    BY <1>2, <2>1 DEF TablesAgree, Owned, RowsStored, NamesUnique, OnlyUpHandles
  <2>3. BootGrants'
    BY <1>2, <2>1 DEF BootGrants, Default, Admins, HasRows
  <2>4. HandlersFind'
    BY <1>2, <2>1 DEF HandlersFind, UserFound, TargetFound, ShareVetted, At, KeepsOwner
  <2> QED
    BY <1>1, <2>2, <2>3, <2>4 DEF OwnerInv, BootInv
<1> QED
  BY <1>3, <1>4, <1>5, <1>6 DEF Next

LEMMA OwnerInvariant ==
  ASSUME AccountsLast
  PROVE  Spec => []OwnerInv
<1>1. Init => OwnerInv
  BY OwnerInit
<1>2. OwnerInv /\ [Next]_vars => OwnerInv'
  BY OwnerNext
<1> QED
  BY <1>1, <1>2, PTL DEF Spec

(* The owner of a board is always let in: through the three steps of a     *)
(* change of access, the two of a change of role, grants that startup and  *)
(* the creation of accounts make in two statements, the transfer of boards *)
(* by a deletion, and crashes between all of them.  Deletions may not run  *)
(* next to other requests: access revoked for a plain user that inherits   *)
(* the board before the row is written would lock the new owner out.       *)
THEOREM OwnersAreLetIn ==
  ASSUME AccountsLast, LegacyBoards
  PROVE  Spec => []OwnerKeepsAccess
<1>1. OwnerInv => OwnerKeepsAccess
  <2> SUFFICES ASSUME OwnerInv, NEW b \in DOMAIN boards, boards[b] \in DOMAIN users
               PROVE  CanAccess(boards[b], b)
    BY DEF OwnerKeepsAccess
  <2>1. UsersOK /\ Owned
    BY TypeParts DEF OwnerInv, TypeInv, TablesAgree
  <2>2. boards[b] # 0
    BY <2>1 DEF UsersOK, IsTable, Users
  <2> QED
    BY <2>1, <2>2 DEF Owned, CanAccess
<1> QED
  BY <1>1, OwnerInvariant, PTL

(* Once the server listens every board is owned by a stored account, and   *)
(* no row of board_users is left of an account that is gone, from every    *)
(* older database: boards without an owner go to the first administrator,  *)
(* whatever the name of that account.                                      *)
THEOREM AccountsAreKept ==
  ASSUME AccountsLast
  PROVE  Spec => []AccountsStay
<1>1. OwnerInv => AccountsStay
  <2> SUFFICES ASSUME OwnerInv PROVE AccountsStay
    OBVIOUS
  <2>1. Owned /\ RowsStored /\ BootGrants
    BY DEF OwnerInv, TablesAgree, BootInv
  <2>2. OwnersExist
    BY <2>1 DEF Owned, BootGrants, OwnersExist
  <2>3. AccessRowsNameUsers
    BY <2>1 DEF RowsStored, AccessRowsNameUsers
  <2> QED
    BY <2>2, <2>3 DEF AccountsStay
<1> QED
  BY <1>1, OwnerInvariant, PTL
=============================================================================
