-------------------------- MODULE Accounts_proofs --------------------------
(***************************************************************************)
(* Proofs about Accounts, for any users, any concurrent requests and any   *)
(* number of tokens.  The locks come first: a request that holds the row   *)
(* of its user keeps what it read there, whatever the others do.           *)
(***************************************************************************)
EXTENDS Accounts, FiniteSetTheorems, TLAPS

TokenState == [state : {"ABSENT", "LIVE", "REVOKED"}, user : User \cup {NoOne},
               session : 0..MaxTokens]
AdminState == [pc : {"idle", "count", "recount", "commit"}, user : User \cup {NoOne},
               becomes : Row, end : {"keep", "revoke"}, seen : SUBSET User]
ClientState == [pc : {"idle", "checked", "verified", "rotate"}, user : User \cup {NoOne},
                address : Address \cup {NoOne}, token : 0..MaxTokens, session : 0..MaxTokens]

Typed ==
    /\ user \in [User -> Row] /\ token \in [Token -> TokenState]
    /\ admin \in [Admin -> AdminState] /\ client \in [Client -> ClientState]
    /\ userLock \in [User -> Admin \cup Client \cup {NoOne}]
    /\ roleLock \in Admin \cup {NoOne}
    /\ attempts \in [Subject -> Nat]

LEMMA TypedIsTypeOK == TypeOK <=> Typed
  BY DEF TypeOK, Typed, TokenState, AdminState, ClientState

LEMMA TypedIsTypeOKNext == TypeOK' <=> Typed'
  BY DEF TypeOK, Typed, TokenState, AdminState, ClientState

(* What AdminsHoldTheirRows says of one request and of one user.           *)
AdminOK(a) ==
    Managing(a) =>
        /\ admin[a].user \in User /\ userLock[admin[a].user] = a
        /\ admin[a].becomes.status # "ABSENT"
        /\ admin[a].end = "keep" => admin[a].becomes.status = "ACTIVE" /\ ~admin[a].becomes.deleted
        /\ admin[a].pc = "recount" => ~admin[a].becomes.admin
        /\ admin[a].pc = "commit" /\ admin[a].user \in ActiveAdmins
              /\ ~IsActiveAdmin(admin[a].becomes) =>
              roleLock = a /\ (admin[a].becomes.admin => Several(ActiveAdmins))
UserOK(u) == user[u].status = "ABSENT" => userLock[u] = NoOne /\ ~user[u].admin

LEMMA AdminsOK == AdminsHoldTheirRows <=> (\A a \in Admin : AdminOK(a)) /\ (\A u \in User : UserOK(u))
  BY DEF AdminsHoldTheirRows, AdminOK, UserOK

LEMMA AdminsOKNext ==
    AdminsHoldTheirRows' <=> (\A a \in Admin : AdminOK(a)') /\ (\A u \in User : UserOK(u)')
  BY DEF AdminsHoldTheirRows, AdminOK, UserOK

LEMMA InTurns == NoOne \notin Admin \cup Client \cup User /\ Admin \cap Client = {}
  BY AccountsAssumption

LEMMA Numbers ==
    /\ MaxTokens \in Nat /\ 0 \in 0..MaxTokens
    /\ \A t \in Token : t \in 1..MaxTokens /\ t \in 0..MaxTokens /\ t \in Nat
  BY AccountsAssumption DEF Token

LEMMA SubjectParts == \A s \in Subject : s[1] \in User /\ s[2] \in Address /\ s = <<s[1], s[2]>>
  BY AccountsAssumption

LEMMA ActiveMeans ==
    \A u \in User : u \in ActiveAdmins <=> IsActiveAdmin(user[u])
  BY DEF ActiveAdmins, CanAuthenticate, IsActiveAdmin

LEMMA ActiveMeansNext ==
    \A u \in User : u \in ActiveAdmins' <=> IsActiveAdmin(user'[u])
  BY DEF ActiveAdmins, CanAuthenticate, IsActiveAdmin

-----------------------------------------------------------------------------
(* What a step leaves alone.                                               *)

(* A request keeps what it relies on while its lock stays, its user does   *)
(* not become an administrator and, under its role lock, none is lost.     *)
LEMMA OtherAdmin ==
    ASSUME NEW b \in Admin, AdminOK(b), admin'[b] = admin[b],
           Managing(b) => userLock'[admin[b].user] = userLock[admin[b].user],
           Managing(b) /\ admin[b].user \in ActiveAdmins' => admin[b].user \in ActiveAdmins,
           roleLock = b => roleLock' = b /\ ActiveAdmins \subseteq ActiveAdmins'
    PROVE  AdminOK(b)'
  BY DEF AdminOK, Managing, Several

(* So does a rotation while its lock and its token stay.                   *)
RotationOK(c) ==
    /\ client[c].pc # "idle" => client[c].user \in User
    /\ client[c].pc = "rotate" =>
          /\ userLock[client[c].user] = c
          /\ client[c].token \in Token
          /\ token[client[c].token] = [state |-> "LIVE", user |-> client[c].user,
                                       session |-> client[c].session]

LEMMA RotationsOK == RotationsHoldTheirRows <=> \A c \in Client : RotationOK(c)
  BY DEF RotationsHoldTheirRows, RotationOK

LEMMA RotationsOKNext == RotationsHoldTheirRows' <=> \A c \in Client : RotationOK(c)'
  BY DEF RotationsHoldTheirRows, RotationOK

Tokens == TokensAreInOrder /\ SessionsAreOfActiveUsers /\ OneTokenPerSession

(* Tokens are only revoked, and users who could log in still can.          *)
LEMMA TokensRest ==
    ASSUME Typed, Tokens,
           \A t \in Token : token'[t] = token[t] \/ (token[t].state = "LIVE" /\ token'[t] = RevokedToken),
           \A t \in Token : token'[t].state = "LIVE" /\ CanAuthenticate(token[t].user) =>
               CanAuthenticate(token[t].user)'
    PROVE  Tokens'
<1>1. TokensAreInOrder'
  BY DEF Tokens, TokensAreInOrder, RevokedToken, AbsentToken
<1>2. SessionsAreOfActiveUsers'
  BY DEF Tokens, SessionsAreOfActiveUsers, RevokedToken, AbsentToken
<1>3. OneTokenPerSession'
  BY DEF Tokens, OneTokenPerSession, RevokedToken, AbsentToken
<1> QED BY <1>1, <1>2, <1>3 DEF Tokens

LEMMA RevokedTokenState == RevokedToken \in TokenState /\ RevokedToken.state = "REVOKED"
  BY Numbers DEF RevokedToken, AbsentToken, TokenState

-----------------------------------------------------------------------------

LEMMA InitIInv == Init => IInv
<1> SUFFICES ASSUME Init PROVE IInv
  OBVIOUS
<1>1. \A u \in User : user[u] \in Row /\ (user[u].status = "ABSENT" => ~user[u].admin)
  BY DEF Init, NewUser, AbsentUser, Row, UserStatus
<1>2. user \in [User -> Row]
  BY <1>1 DEF Init
<1>3. Typed
  BY <1>2, Numbers DEF Init, Typed, AbsentToken, TokenState, IdleAdmin, AdminState, AbsentUser, Row,
     IdleClient, ClientState
<1>4. AdminsHoldTheirRows
  BY <1>1 DEF Init, AdminsHoldTheirRows, Managing, IdleAdmin
<1>5. RotationsHoldTheirRows /\ TokensAreInOrder /\ SessionsAreOfActiveUsers /\ OneTokenPerSession
  BY DEF Init, RotationsHoldTheirRows, TokensAreInOrder, SessionsAreOfActiveUsers, OneTokenPerSession,
     IdleClient, AbsentToken
<1> QED BY <1>3, <1>4, <1>5, TypedIsTypeOK DEF IInv

(* A new account.                                                          *)
LEMMA CreateKeeps ==
    ASSUME IInv, NEW u \in User, NEW isAdmin \in BOOLEAN, CreateUser(u, isAdmin)
    PROVE  IInv'
<1>1. Typed /\ user[u].status = "ABSENT" /\ userLock[u] = NoOne
  BY TypedIsTypeOK DEF IInv, CreateUser, AdminsHoldTheirRows
<1>2. /\ user' \in [User -> Row] /\ user'[u] = NewUser(isAdmin)
      /\ \A v \in User : v # u => user'[v] = user[v]
  BY <1>1 DEF CreateUser, Typed, NewUser, Row, UserStatus
<1>3. UNCHANGED <<token, admin, client, userLock, roleLock, attempts>>
  BY DEF CreateUser
<1>4. ActiveAdmins \subseteq ActiveAdmins' /\ ActiveAdmins' \subseteq ActiveAdmins \cup {u}
  BY <1>1, <1>2 DEF ActiveAdmins, CanAuthenticate
<1>5. ASSUME NEW a \in Admin PROVE AdminOK(a)'
  <2>1. AdminOK(a) /\ (Managing(a) => admin[a].user # u)
    BY <1>1, AdminsOK, InTurns DEF IInv, AdminOK
  <2> QED BY <1>3, <1>4, <2>1, OtherAdmin
<1>6. \A v \in User : UserOK(v)'
  BY <1>2, <1>3, AdminsOK DEF IInv, UserOK, NewUser
<1>7. RotationsHoldTheirRows'
  BY <1>3 DEF IInv, RotationsHoldTheirRows
<1>8. Tokens'
  BY <1>1, <1>2, <1>3, TokensRest DEF IInv, Tokens, CanAuthenticate, SessionsAreOfActiveUsers, TokensAreInOrder
<1> QED BY <1>1, <1>2, <1>3, <1>5, <1>6, <1>7, <1>8, AdminsOKNext, TypedIsTypeOKNext DEF IInv, Typed, Tokens

LEMMA TokensStay ==
    ASSUME IInv, UNCHANGED <<user, token>>
    PROVE  Tokens'
  BY DEF IInv, Tokens, TokensAreInOrder, SessionsAreOfActiveUsers, OneTokenPerSession, CanAuthenticate

(* A request takes the row of its user.  What it will write is an          *)
(* account, and one that goes straight to its commit takes no active       *)
(* administrator away.                                                     *)
LEMMA LockKeeps ==
    ASSUME IInv, NEW a \in Admin, NEW u \in User, NEW pc \in {"count", "recount", "commit"},
           NEW becomes \in Row, NEW end \in {"keep", "revoke"}, NEW seen \in SUBSET User,
           becomes.status # "ABSENT",
           end = "keep" => becomes.status = "ACTIVE" /\ ~becomes.deleted,
           pc = "recount" => ~becomes.admin,
           pc = "commit" /\ u \in ActiveAdmins => IsActiveAdmin(becomes),
           LockUser(a, u, pc, becomes, end, seen)
    PROVE  IInv'
<1> DEFINE new == [pc |-> pc, user |-> u, becomes |-> becomes, end |-> end, seen |-> seen]
<1>1. Typed /\ userLock[u] = NoOne /\ user[u].status # "ABSENT" /\ new \in AdminState
  BY TypedIsTypeOK DEF IInv, LockUser, AdminState
<1>2. /\ admin' \in [Admin -> AdminState] /\ admin'[a] = new
      /\ \A b \in Admin : b # a => admin'[b] = admin[b]
      /\ userLock' \in [User -> Admin \cup Client \cup {NoOne}] /\ userLock'[u] = a
      /\ \A v \in User : v # u => userLock'[v] = userLock[v]
  BY <1>1 DEF LockUser, Typed
<1>3. UNCHANGED <<user, token, client, roleLock, attempts>>
  BY DEF LockUser
<1>4. ActiveAdmins' = ActiveAdmins
  BY <1>3 DEF ActiveAdmins, CanAuthenticate
<1>5. AdminOK(a)'
  BY <1>2, <1>4 DEF AdminOK
<1>6. ASSUME NEW b \in Admin, b # a PROVE AdminOK(b)'
  <2>1. AdminOK(b) /\ (Managing(b) => admin[b].user # u /\ admin[b].user \in User)
    BY <1>1, AdminsOK, InTurns DEF IInv, AdminOK
  <2> QED BY <1>2, <1>3, <1>4, <1>6, <2>1, OtherAdmin
<1>7. \A v \in User : UserOK(v)'
  BY <1>1, <1>2, <1>3, AdminsOK DEF IInv, UserOK
<1>8. ASSUME NEW c \in Client PROVE RotationOK(c)'
  BY <1>1, <1>2, <1>3, InTurns, RotationsOK DEF IInv, RotationOK
<1> QED BY <1>1, <1>2, <1>3, <1>5, <1>6, <1>7, <1>8, TokensStay, AdminsOKNext, RotationsOKNext,
        TypedIsTypeOKNext DEF IInv, Typed, Tokens

LEMMA UpdateKeeps ==
    ASSUME IInv, NEW a \in Admin, NEW u \in User, NEW status \in UserStatus, UpdateUser(a, u, status)
    PROVE  IInv'
<1> DEFINE becomes == [user[u] EXCEPT !.status = status]
<1>1. user[u] \in Row /\ becomes \in Row /\ becomes.status = status /\ status # "ABSENT"
      /\ becomes.deleted = user[u].deleted /\ becomes.admin = user[u].admin
  BY TypedIsTypeOK DEF IInv, Typed, Row, UserStatus
<1>2. ~user[u].deleted
  BY DEF UpdateUser, LockUser
<1>3. CASE status = "ACTIVE"
  <2>1. LockUser(a, u, "commit", becomes, "keep", {})
    BY <1>3 DEF UpdateUser
  <2>2. u \in ActiveAdmins => IsActiveAdmin(becomes)
    BY <1>1, <1>3, ActiveMeans DEF IsActiveAdmin
  <2> HIDE DEF becomes
  <2> QED BY <1>1, <1>2, <1>3, <2>1, <2>2, LockKeeps
<1>4. CASE status # "ACTIVE"
  <2>1. LockUser(a, u, "count", becomes, "revoke", {})
    BY <1>4 DEF UpdateUser
  <2> HIDE DEF becomes
  <2> QED BY <1>1, <2>1, LockKeeps
<1> QED BY <1>3, <1>4

LEMMA DeleteKeeps ==
    ASSUME IInv, NEW a \in Admin, NEW u \in User, DeleteUser(a, u)
    PROVE  IInv'
<1> DEFINE becomes == [user[u] EXCEPT !.status = "DISABLED", !.deleted = TRUE]
<1>1. user[u] \in Row /\ becomes \in Row /\ becomes.status # "ABSENT"
  BY TypedIsTypeOK DEF IInv, Typed, Row, UserStatus
<1>2. LockUser(a, u, "count", becomes, "revoke", {})
  BY DEF DeleteUser
<1> HIDE DEF becomes
<1> QED BY <1>1, <1>2, LockKeeps

LEMMA ResetKeeps ==
    ASSUME IInv, NEW a \in Admin, NEW u \in User, ResetPassword(a, u)
    PROVE  IInv'
<1>1. user[u] \in Row /\ user[u].status # "ABSENT"
  BY TypedIsTypeOK DEF IInv, Typed, ResetPassword, LockUser
<1>2. LockUser(a, u, "commit", user[u], "revoke", {})
  BY DEF ResetPassword
<1> QED BY <1>1, <1>2, ActiveMeans, LockKeeps

LEMMA ReplaceKeeps ==
    ASSUME IInv, NEW a \in Admin, NEW u \in User, NEW isAdmin \in BOOLEAN,
           ReplaceUserAccess(a, u, isAdmin)
    PROVE  IInv'
<1> DEFINE becomes == [user[u] EXCEPT !.admin = isAdmin]
<1>1. user[u] \in Row /\ becomes \in Row /\ becomes.status = user[u].status
      /\ becomes.deleted = user[u].deleted /\ becomes.admin = isAdmin
  BY TypedIsTypeOK DEF IInv, Typed, Row, UserStatus
<1>2. user[u].status # "ABSENT" /\ ActiveAdmins \in SUBSET User
  BY DEF ReplaceUserAccess, LockUser, ActiveAdmins
<1>3. CASE user[u].admin /\ ~isAdmin
  <2>1. LockUser(a, u, "recount", becomes, "revoke", ActiveAdmins)
    BY <1>3 DEF ReplaceUserAccess
  <2> HIDE DEF becomes
  <2> QED BY <1>1, <1>2, <1>3, <2>1, LockKeeps
<1>4. CASE ~(user[u].admin /\ ~isAdmin)
  <2>1. LockUser(a, u, "commit", becomes, "revoke", {})
    BY <1>4 DEF ReplaceUserAccess
  <2>2. u \in ActiveAdmins => IsActiveAdmin(becomes)
    BY <1>1, <1>4, ActiveMeans DEF IsActiveAdmin
  <2> HIDE DEF becomes
  <2> QED BY <1>1, <1>2, <2>1, <2>2, LockKeeps
<1> QED BY <1>3, <1>4

(* Under the lock of the role the administrators are counted.              *)
LEMMA ProtectKeeps ==
    ASSUME IInv, NEW a \in Admin, NEW admins, Managing(a),
           admin[a].becomes.admin /\ admin[a].user \in ActiveAdmins /\ Several(admins) =>
               Several(ActiveAdmins),
           ProtectLastPlatformAdmin(a, admins)
    PROVE  IInv'
<1>1. Typed /\ roleLock = NoOne /\ AdminOK(a)
  BY TypedIsTypeOK, AdminsOK DEF IInv, ProtectLastPlatformAdmin
<1>2. /\ admin' = [admin EXCEPT ![a].pc = "commit", ![a].seen = {}]
      /\ roleLock' = a
      /\ UNCHANGED <<user, token, client, userLock, attempts>>
  BY DEF ProtectLastPlatformAdmin
<1>3. /\ admin' \in [Admin -> AdminState]
      /\ admin'[a].pc = "commit" /\ admin'[a].user = admin[a].user
      /\ admin'[a].becomes = admin[a].becomes /\ admin'[a].end = admin[a].end
      /\ \A b \in Admin : b # a => admin'[b] = admin[b]
  BY ZenonT(60), <1>1, <1>2 DEF Typed, AdminState
<1>4. ActiveAdmins' = ActiveAdmins
  BY <1>2 DEF ActiveAdmins, CanAuthenticate
<1>5. AdminOK(a)'
  <2>1. admin[a].user \in ActiveAdmins => user[admin[a].user].admin
    BY DEF ActiveAdmins
  <2>2. admin[a].user \in ActiveAdmins => Several(admins)
    BY <2>1 DEF ProtectLastPlatformAdmin
  <2>3. Several(ActiveAdmins) => Several(ActiveAdmins)'
    BY <1>4 DEF Several
  <2> QED BY <1>1, <1>2, <1>3, <1>4, <2>2, <2>3 DEF AdminOK
<1>6. ASSUME NEW b \in Admin, b # a PROVE AdminOK(b)'
  BY <1>1, <1>2, <1>3, <1>4, <1>6, AdminsOK, InTurns, OtherAdmin DEF IInv
<1>7. \A v \in User : UserOK(v)'
  BY <1>2, AdminsOK DEF IInv, UserOK
<1>8. RotationsHoldTheirRows'
  BY <1>2 DEF IInv, RotationsHoldTheirRows
<1> QED BY <1>1, <1>2, <1>3, <1>5, <1>6, <1>7, <1>8, TokensStay, AdminsOKNext,
        TypedIsTypeOKNext DEF IInv, Typed, Tokens

LEMMA CountKeeps ==
    ASSUME IInv, NEW a \in Admin, CountAdmins(a)
    PROVE  IInv'
<1>1. AdminOK(a)
  BY AdminsOK DEF IInv
<1>2. CASE admin[a].pc = "count" /\ ProtectLastPlatformAdmin(a, ActiveAdmins)
  BY <1>2, ProtectKeeps DEF Managing
<1>3. CASE admin[a].pc = "recount" /\ ProtectLastPlatformAdmin(a, admin[a].seen)
  BY <1>1, <1>3, ProtectKeeps DEF Managing, AdminOK
<1> QED BY <1>2, <1>3 DEF CountAdmins

(* The end of a transaction gives up what it held.                         *)
LEMMA Releases ==
    ASSUME IInv, NEW a \in Admin, Managing(a), Release(a)
    PROVE  /\ admin' \in [Admin -> AdminState] /\ ~Managing(a)'
           /\ \A b \in Admin : b # a => admin'[b] = admin[b]
           /\ userLock' \in [User -> Admin \cup Client \cup {NoOne}]
           /\ userLock'[admin[a].user] = NoOne
           /\ \A v \in User : v # admin[a].user => userLock'[v] = userLock[v]
           /\ roleLock' \in Admin \cup {NoOne} /\ roleLock' # a
           /\ roleLock # a => roleLock' = roleLock
<1>1. Typed /\ IdleAdmin \in AdminState /\ IdleAdmin.pc = "idle" /\ admin[a].user \in User
  BY TypedIsTypeOK, AdminsOK DEF IInv, AdminOK, IdleAdmin, AdminState, AbsentUser, Row
<1> QED BY <1>1, InTurns DEF Release, Typed, Managing

LEMMA RollBackKeeps ==
    ASSUME IInv, NEW a \in Admin, RollBackUser(a)
    PROVE  IInv'
<1>1. Typed /\ Managing(a) /\ Release(a) /\ UNCHANGED <<user, token, client, attempts>>
  BY TypedIsTypeOK DEF IInv, RollBackUser, Managing
<1>2. admin[a].user \in User /\ userLock[admin[a].user] = a
  BY <1>1, AdminsOK DEF IInv, AdminOK
<1>3. ActiveAdmins' = ActiveAdmins
  BY <1>1 DEF ActiveAdmins, CanAuthenticate
<1>4. ASSUME NEW b \in Admin PROVE AdminOK(b)'
  <2>1. CASE b = a
    BY <1>1, <2>1, Releases DEF AdminOK
  <2>2. CASE b # a
    <3>1. AdminOK(b) /\ (Managing(b) => admin[b].user # admin[a].user /\ admin[b].user \in User)
      BY <1>2, <2>2, AdminsOK DEF IInv, AdminOK
    <3> QED BY <1>1, <1>3, <2>2, <3>1, Releases, OtherAdmin
  <2> QED BY <2>1, <2>2
<1>5. \A v \in User : UserOK(v)'
  BY <1>1, AdminsOK, Releases DEF IInv, UserOK
<1>6. ASSUME NEW c \in Client PROVE RotationOK(c)'
  BY <1>1, <1>2, InTurns, Releases, RotationsOK DEF IInv, RotationOK
<1> QED BY <1>1, <1>4, <1>5, <1>6, Releases, TokensStay, AdminsOKNext, RotationsOKNext,
        TypedIsTypeOKNext DEF IInv, Typed, Tokens

(* What is written takes away an active administrator only under the       *)
(* lock of the role, and the sessions of whoever cannot log in any more.   *)
LEMMA CommitKeeps ==
    ASSUME IInv, NEW a \in Admin, CommitUser(a)
    PROVE  IInv'
<1> DEFINE u == admin[a].user
           becomes == admin[a].becomes
<1>1. Typed /\ Managing(a) /\ Release(a) /\ UNCHANGED <<client, attempts>> /\ admin[a].pc = "commit"
  BY TypedIsTypeOK DEF IInv, CommitUser, Managing
<1>2. AdminOK(a) /\ u \in User /\ userLock[u] = a /\ becomes \in Row /\ becomes.status # "ABSENT"
  BY <1>1, AdminsOK DEF IInv, AdminOK, Typed, AdminState
<1>3. /\ user' \in [User -> Row] /\ user'[u] = becomes
      /\ \A v \in User : v # u => user'[v] = user[v]
  BY <1>1, <1>2 DEF CommitUser, Typed
<1>4. /\ token' \in [Token -> TokenState]
      /\ \A t \in Token :
            token'[t] = IF admin[a].end = "revoke" /\ token[t].user = u /\ token[t].state = "LIVE"
                        THEN RevokedToken ELSE token[t]
  BY <1>1, RevokedTokenState DEF CommitUser, Typed
<1>5. ASSUME NEW b \in Admin PROVE AdminOK(b)'
  <2>1. CASE b = a
    BY <1>1, <2>1, Releases DEF AdminOK
  <2>2. CASE b # a
    <3>1. AdminOK(b) /\ (Managing(b) => admin[b].user # u /\ admin[b].user \in User)
      BY <1>2, <2>2, AdminsOK DEF IInv, AdminOK
    <3>2. Managing(b) /\ admin[b].user \in ActiveAdmins' => admin[b].user \in ActiveAdmins
      BY <1>3, <3>1, ActiveMeans, ActiveMeansNext
    <3>3. roleLock = b => ActiveAdmins \subseteq ActiveAdmins'
      <4>1. SUFFICES ASSUME roleLock = b, NEW v \in ActiveAdmins PROVE v \in ActiveAdmins'
        OBVIOUS
      <4>2. v \in User
        BY DEF ActiveAdmins
      <4>3. v = u => IsActiveAdmin(becomes)
        BY <1>1, <1>2, <2>2, <4>1 DEF AdminOK
      <4> QED BY <1>3, <4>2, <4>3, ActiveMeans, ActiveMeansNext
    <3> QED BY <1>1, <2>2, <3>1, <3>2, <3>3, Releases, OtherAdmin
  <2> QED BY <2>1, <2>2
<1>6. \A v \in User : UserOK(v)'
  BY <1>1, <1>2, <1>3, AdminsOK, Releases DEF IInv, UserOK
<1>7. ASSUME NEW c \in Client PROVE RotationOK(c)'
  <2>1. RotationOK(c) /\ (client[c].pc = "rotate" => client[c].user # u)
    BY <1>2, InTurns, RotationsOK DEF IInv, RotationOK
  <2> QED BY <1>1, <1>4, <2>1, Releases DEF RotationOK
<1>8. Tokens'
  <2>1. \A t \in Token : token'[t].state = "LIVE" => token[t].state = "LIVE" /\ token[t].user \in User
                        /\ token'[t] = token[t] /\ (token[t].user = u => admin[a].end = "keep")
    BY <1>1, <1>2, <1>4, RevokedTokenState DEF IInv, TokensAreInOrder, Typed, AdminState
  <2>2. \A t \in Token : token'[t].state = "LIVE" /\ CanAuthenticate(token[t].user) =>
               CanAuthenticate(token[t].user)'
    BY <1>1, <1>2, <1>3, <2>1 DEF CanAuthenticate, AdminOK
  <2> QED BY <1>1, <1>4, <2>2, TokensRest DEF IInv, Tokens
<1> HIDE DEF u, becomes
<1> QED BY <1>1, <1>3, <1>4, <1>5, <1>6, <1>7, <1>8, Releases, AdminsOKNext, RotationsOKNext,
        TypedIsTypeOKNext DEF IInv, Typed, Tokens

-----------------------------------------------------------------------------
(* Logins, refreshes and logouts leave the accounts alone.                 *)

(* A login's steps before it stores its token.                             *)
LEMMA LoginKeeps ==
    ASSUME IInv, UNCHANGED <<user, token, admin, userLock, roleLock>>,
           client' \in [Client -> ClientState], attempts' \in [Subject -> Nat],
           \A c \in Client : client'[c] = client[c] \/ (client'[c].pc # "rotate" /\ RotationOK(c)')
    PROVE  IInv'
<1>1. Typed /\ AdminsHoldTheirRows'
  BY TypedIsTypeOK DEF IInv, AdminsHoldTheirRows, Managing, ActiveAdmins, CanAuthenticate
<1>2. \A c \in Client : RotationOK(c)'
  BY RotationsOK DEF IInv, RotationOK
<1> QED BY <1>1, <1>2, TokensStay, RotationsOKNext, TypedIsTypeOKNext DEF IInv, Typed, Tokens

LEMMA IdleClientState == IdleClient \in ClientState /\ IdleClient.pc = "idle"
  BY Numbers DEF IdleClient, ClientState

LEMMA CheckKeeps ==
    ASSUME IInv, NEW c \in Client, NEW s \in Subject, CheckLimit(c, s)
    PROVE  IInv'
<1> DEFINE begun == [IdleClient EXCEPT !.pc = "checked", !.user = s[1], !.address = s[2]]
<1>1. Typed /\ begun \in ClientState /\ begun.pc = "checked" /\ begun.user \in User
  BY TypedIsTypeOK, SubjectParts, Numbers DEF IInv, IdleClient, ClientState
<1>2. /\ client' \in [Client -> ClientState] /\ client'[c] = begun
      /\ \A d \in Client : d # c => client'[d] = client[d]
  BY <1>1 DEF CheckLimit, Typed
<1>3. RotationOK(c)'
  BY <1>1, <1>2 DEF RotationOK
<1> QED BY <1>1, <1>2, <1>3, LoginKeeps DEF CheckLimit, Typed

LEMMA FailureCounts ==
    ASSUME Typed, NEW c \in Client, client[c].user \in User, Fails(c)
    PROVE  /\ client' \in [Client -> ClientState] /\ attempts' \in [Subject -> Nat]
           /\ client'[c] = IdleClient /\ \A d \in Client : d # c => client'[d] = client[d]
<1> DEFINE mine == SubjectOf(c)
<1>1. attempts' = [attempts EXCEPT ![mine] = attempts[mine] + 1] /\ attempts \in [Subject -> Nat]
  BY DEF Typed, Fails
<1>2. attempts' \in [Subject -> Nat]
  <2>1. ASSUME NEW s \in Subject PROVE attempts'[s] \in Nat
    <3>1. CASE s = mine
      BY <1>1, <3>1, Numbers
    <3>2. CASE s # mine
      BY <1>1, <3>2
    <3> QED BY <3>1, <3>2
  <2> QED BY <1>1, <2>1
<1> QED BY <1>2, IdleClientState DEF Typed, Fails

LEMMA VerifyKeeps ==
    ASSUME IInv, NEW c \in Client, VerifyPassword(c)
    PROVE  IInv'
<1>1. Typed /\ RotationOK(c)
  BY TypedIsTypeOK, RotationsOK DEF IInv
<1>2. UNCHANGED <<user, token, admin, userLock, roleLock>>
  BY DEF VerifyPassword
<1>3. CASE client' = [client EXCEPT ![c].pc = "verified"] /\ UNCHANGED attempts
  <2>1. /\ client' \in [Client -> ClientState] /\ client'[c].pc = "verified"
        /\ client'[c].user = client[c].user
        /\ \A d \in Client : d # c => client'[d] = client[d]
    BY <1>1, <1>3 DEF Typed, ClientState
  <2>2. RotationOK(c)'
    BY <1>1, <2>1 DEF VerifyPassword, RotationOK
  <2> QED BY <1>1, <1>2, <1>3, <2>1, <2>2, LoginKeeps DEF Typed
<1>4. CASE Fails(c)
  <2>1. client[c].user \in User
    BY <1>1 DEF VerifyPassword, RotationOK
  <2>2. RotationOK(c)'
    BY <1>1, <1>4, <2>1, FailureCounts, IdleClientState DEF RotationOK
  <2> QED BY <1>1, <1>2, <1>4, <2>1, <2>2, FailureCounts, IdleClientState, LoginKeeps
<1> QED BY <1>3, <1>4 DEF VerifyPassword

LEMMA WindowKeeps ==
    ASSUME IInv, NEW s \in Subject, WindowEnds(s)
    PROVE  IInv'
<1>1. Typed /\ attempts' \in [Subject -> Nat]
  BY TypedIsTypeOK DEF IInv, Typed, WindowEnds
<1> QED BY <1>1, LoginKeeps DEF WindowEnds, Typed

(* A token takes the next number: that of its login is no older token's    *)
(* session, and that of its predecessor is given up.                       *)
LEMMA NewToken ==
    ASSUME IInv, NEW t \in Token, NextNo(t), NEW u \in User, CanAuthenticate(u),
           NEW session \in 0..t, UNCHANGED user,
           token'[t] = [state |-> "LIVE", user |-> u, session |-> session],
           \A s \in Token : s # t =>
               token'[s] = token[s] \/ (token[s].state = "LIVE" /\ token'[s] = RevokedToken),
           \A s \in Token : s # t /\ token'[s].state = "LIVE" => token[s].session # session
    PROVE  Tokens'
<1>1. \A s \in Token : s # t =>
          (token'[s].state = "LIVE" => token'[s] = token[s])
          /\ (token'[s].state = "ABSENT" <=> token[s].state = "ABSENT")
  BY RevokedTokenState DEF RevokedToken, AbsentToken
<1>2. token[t].state = "ABSENT" /\ \A s \in Token : s < t => token[s].state # "ABSENT"
  BY Numbers DEF NextNo, Token
<1>3. TokensAreInOrder'
  <2>1. \A s \in Token : token'[s].state = "LIVE" => token'[s].user \in User /\ token'[s].session <= s
    BY <1>1, Numbers DEF IInv, TokensAreInOrder
  <2>2. ASSUME NEW r \in Token, token'[r].state = "ABSENT", NEW s \in Token, s > r
        PROVE  token'[s].state = "ABSENT"
    BY <1>1, <1>2, <2>2, Numbers DEF IInv, TokensAreInOrder
  <2> QED BY <2>1, <2>2 DEF TokensAreInOrder
<1>4. SessionsAreOfActiveUsers'
  BY <1>1 DEF IInv, SessionsAreOfActiveUsers, CanAuthenticate
<1>5. OneTokenPerSession'
  BY <1>1 DEF IInv, OneTokenPerSession
<1> QED BY <1>3, <1>4, <1>5 DEF Tokens

LEMMA LoginCreates ==
    ASSUME IInv, NEW c \in Client, CreateRefreshToken(c)
    PROVE  IInv'
<1>1. Typed /\ RotationOK(c) /\ client[c].user \in User
      /\ UNCHANGED <<user, admin, userLock, roleLock>>
  BY TypedIsTypeOK, RotationsOK DEF IInv, CreateRefreshToken, RotationOK
<1>2. AdminsHoldTheirRows'
  BY <1>1 DEF IInv, AdminsHoldTheirRows, Managing, ActiveAdmins, CanAuthenticate
<1>3. CASE CanAuthenticate(client[c].user) /\ Created(c)
  <2> DEFINE new(t) == [state |-> "LIVE", user |-> client[c].user, session |-> t]
  <2>1. PICK t \in Token : NextNo(t) /\ token' = [token EXCEPT ![t] = new(t)]
    BY <1>3 DEF Created
  <2>2. new(t) \in TokenState
    BY <1>1, Numbers DEF TokenState
  <2>3. /\ token' \in [Token -> TokenState] /\ token'[t] = new(t)
        /\ \A s \in Token : s # t => token'[s] = token[s]
    BY <1>1, <2>1, <2>2 DEF Typed
  <2>4. ASSUME NEW s \in Token, s # t, token[s].state = "LIVE" PROVE token[s].session # t
    <3>1. ~(s > t) /\ token[s].session <= s /\ token[s].session \in Nat
      BY <1>1, <2>1, <2>4, Numbers DEF IInv, TokensAreInOrder, NextNo, Typed, TokenState
    <3> QED BY <2>4, <3>1, Numbers
  <2>5. t \in 0..t
    BY Numbers
  <2>6. Tokens'
    BY <1>1, <1>3, <2>1, <2>3, <2>4, <2>5, NewToken
  <2>7. /\ client' \in [Client -> ClientState] /\ client'[c] = IdleClient
        /\ \A d \in Client : d # c => client'[d] = client[d]
    BY <1>1, <1>3, IdleClientState DEF Created, Typed
  <2>9. attempts' \in [Subject -> Nat]
    <3>1. \A s \in Subject : attempts'[s] \in {attempts[s], 0}
      BY <1>1, <1>3 DEF Created, Typed
    <3>2. \A s \in Subject : attempts'[s] \in Nat
      BY <1>1, <3>1, Numbers DEF Typed
    <3>3. \E v \in Nat : attempts' = [attempts EXCEPT ![SubjectOf(c)] = v]
      BY <1>3 DEF Created
    <3> QED BY <1>1, <3>2, <3>3 DEF Typed
  <2>8. ASSUME NEW d \in Client PROVE RotationOK(d)'
    <3>1. RotationOK(d) /\ (client[d].pc = "rotate" => client[d].token # t)
      BY <2>1, RotationsOK DEF IInv, RotationOK, NextNo
    <3> QED BY <1>1, <2>3, <2>7, <3>1, IdleClientState DEF RotationOK
  <2> QED BY <1>1, <1>2, <2>3, <2>6, <2>7, <2>8, <2>9, RotationsOKNext, TypedIsTypeOKNext
    DEF IInv, Typed, Tokens
<1>4. CASE Fails(c) /\ UNCHANGED token
  <2>1. RotationOK(c)'
    BY <1>1, <1>4, FailureCounts, IdleClientState DEF RotationOK
  <2> QED BY <1>1, <1>4, <2>1, FailureCounts, IdleClientState, LoginKeeps
<1> QED BY <1>3, <1>4 DEF CreateRefreshToken

LEMMA LockTokenKeeps ==
    ASSUME IInv, NEW c \in Client, NEW t \in Token, LockToken(c, t)
    PROVE  IInv'
<1> DEFINE u == token[t].user
           new == [pc |-> "rotate", user |-> u, address |-> NoOne, token |-> t,
                   session |-> token[t].session]
<1>1. Typed /\ u \in User /\ userLock[u] = NoOne /\ token[t].state = "LIVE"
  BY TypedIsTypeOK DEF IInv, LockToken, TokensAreInOrder
<1>2. token[t] \in TokenState /\ token[t] = [state |-> "LIVE", user |-> u, session |-> token[t].session]
  BY <1>1 DEF Typed, TokenState
<1>3. new \in ClientState
  BY <1>1, <1>2, Numbers DEF ClientState, TokenState
<1>4. /\ client' \in [Client -> ClientState] /\ client'[c] = new
      /\ \A d \in Client : d # c => client'[d] = client[d]
      /\ userLock' \in [User -> Admin \cup Client \cup {NoOne}] /\ userLock'[u] = c
      /\ \A v \in User : v # u => userLock'[v] = userLock[v]
  BY <1>1, <1>3 DEF LockToken, IdleClient, Typed
<1>5. UNCHANGED <<user, token, admin, roleLock, attempts>>
  BY DEF LockToken
<1>6. ASSUME NEW b \in Admin PROVE AdminOK(b)'
  <2>1. AdminOK(b) /\ (Managing(b) => admin[b].user # u /\ admin[b].user \in User)
    BY <1>1, AdminsOK, InTurns DEF IInv, AdminOK
  <2>2. ActiveAdmins' = ActiveAdmins
    BY <1>5 DEF ActiveAdmins, CanAuthenticate
  <2> QED BY <1>4, <1>5, <2>1, <2>2, OtherAdmin
<1>7. \A v \in User : UserOK(v)'
  <2>1. user[u].status # "ABSENT"
    BY DEF LockToken, CanAuthenticate
  <2> QED BY <1>4, <1>5, <2>1, AdminsOK DEF IInv, UserOK
<1>8. ASSUME NEW d \in Client PROVE RotationOK(d)'
  <2>1. RotationOK(d) /\ (client[d].pc = "rotate" => client[d].user # u)
    BY <1>1, InTurns, RotationsOK DEF IInv, RotationOK
  <2>2. CASE d = c
    BY <1>1, <1>2, <1>4, <1>5, <2>2 DEF RotationOK
  <2>3. CASE d # c
    BY <1>4, <1>5, <2>1, <2>3 DEF RotationOK
  <2> QED BY <2>2, <2>3
<1> HIDE DEF u, new
<1> QED BY <1>1, <1>4, <1>5, <1>6, <1>7, <1>8, TokensStay, AdminsOKNext, RotationsOKNext,
        TypedIsTypeOKNext DEF IInv, Typed, Tokens

LEMMA RotateKeeps ==
    ASSUME IInv, NEW c \in Client, RotateRefreshToken(c)
    PROVE  IInv'
<1> DEFINE u == client[c].user
           old == client[c].token
           new == [state |-> "LIVE", user |-> u, session |-> client[c].session]
<1>1. Typed /\ RotationOK(c) /\ client[c].pc = "rotate"
  BY TypedIsTypeOK, RotationsOK DEF IInv, RotateRefreshToken
<1>2. u \in User /\ userLock[u] = c /\ old \in Token /\ token[old] = new
      /\ client[c].session \in 0..MaxTokens
  BY <1>1 DEF RotationOK, Typed, ClientState
<1>3. PICK t \in Token : NextNo(t) /\ token' = [token EXCEPT ![t] = new, ![old] = RevokedToken]
  BY DEF RotateRefreshToken
<1>4. new \in TokenState /\ t # old
  BY <1>2, <1>3 DEF TokenState, NextNo
<1>5. /\ token' \in [Token -> TokenState] /\ token'[t] = new /\ token'[old] = RevokedToken
      /\ \A s \in Token : s # t /\ s # old => token'[s] = token[s]
  BY <1>1, <1>2, <1>3, <1>4, RevokedTokenState DEF Typed
<1>6. UNCHANGED <<user, admin, roleLock, attempts>>
  BY DEF RotateRefreshToken
<1>7. /\ client' \in [Client -> ClientState] /\ client'[c] = IdleClient
      /\ \A d \in Client : d # c => client'[d] = client[d]
      /\ userLock' \in [User -> Admin \cup Client \cup {NoOne}] /\ userLock'[u] = NoOne
      /\ \A v \in User : v # u => userLock'[v] = userLock[v]
  BY <1>1, <1>2, IdleClientState DEF RotateRefreshToken, Typed
<1>8. Tokens'
  <2>1. ~(old > t) /\ client[c].session <= old /\ client[c].session \in 0..t
    BY <1>2, <1>3, Numbers DEF IInv, TokensAreInOrder, NextNo
  <2>2. CanAuthenticate(u)
    BY <1>2 DEF IInv, SessionsAreOfActiveUsers
  <2>3. ASSUME NEW s \in Token, s # t, token'[s].state = "LIVE" PROVE token[s].session # client[c].session
    BY <1>2, <1>5, <2>3, RevokedTokenState DEF IInv, OneTokenPerSession
  <2>4. \A s \in Token : s # t =>
            token'[s] = token[s] \/ (token[s].state = "LIVE" /\ token'[s] = RevokedToken)
    BY <1>2, <1>5
  <2> QED BY <1>2, <1>3, <1>5, <1>6, <2>1, <2>2, <2>3, <2>4, NewToken
<1>9. ASSUME NEW b \in Admin PROVE AdminOK(b)'
  <2>1. AdminOK(b) /\ (Managing(b) => admin[b].user # u /\ admin[b].user \in User)
    BY <1>2, AdminsOK, InTurns DEF IInv, AdminOK
  <2>2. ActiveAdmins' = ActiveAdmins
    BY <1>6 DEF ActiveAdmins, CanAuthenticate
  <2> QED BY <1>6, <1>7, <2>1, <2>2, OtherAdmin
<1>10. \A v \in User : UserOK(v)'
  BY <1>6, <1>7, AdminsOK DEF IInv, UserOK
<1>11. ASSUME NEW d \in Client PROVE RotationOK(d)'
  <2>1. CASE d = c
    BY <1>7, <2>1, IdleClientState DEF RotationOK
  <2>2. CASE d # c
    <3>1. RotationOK(d) /\ (client[d].pc = "rotate" =>
              client[d].user # u /\ client[d].token # t /\ client[d].token # old)
      BY <1>2, <1>3, <2>2, RotationsOK DEF IInv, RotationOK, NextNo
    <3> QED BY <1>5, <1>7, <2>2, <3>1 DEF RotationOK
  <2> QED BY <2>1, <2>2
<1> HIDE DEF u, old, new
<1> QED BY <1>1, <1>5, <1>6, <1>7, <1>8, <1>9, <1>10, <1>11, AdminsOKNext, RotationsOKNext,
        TypedIsTypeOKNext DEF IInv, Typed, Tokens

LEMMA LogoutKeeps ==
    ASSUME IInv, NEW t \in Token, Logout(t)
    PROVE  IInv'
<1>1. Typed /\ token[t].state = "LIVE" /\ userLock[token[t].user] = NoOne
  BY TypedIsTypeOK DEF IInv, Logout
<1>2. /\ token' \in [Token -> TokenState] /\ token'[t] = RevokedToken
      /\ \A s \in Token : s # t => token'[s] = token[s]
  BY <1>1, RevokedTokenState DEF Logout, Typed
<1>3. UNCHANGED <<user, admin, client, userLock, roleLock, attempts>>
  BY DEF Logout
<1>4. ASSUME NEW c \in Client PROVE RotationOK(c)'
  BY <1>1, <1>2, <1>3, InTurns, RotationsOK DEF IInv, RotationOK
<1>5. AdminsHoldTheirRows'
  BY <1>3 DEF IInv, AdminsHoldTheirRows, Managing, ActiveAdmins, CanAuthenticate
<1>6. Tokens'
  BY <1>1, <1>2, <1>3, RevokedTokenState, TokensRest DEF IInv, Tokens, CanAuthenticate
<1> QED BY <1>1, <1>2, <1>3, <1>4, <1>5, <1>6, RotationsOKNext, TypedIsTypeOKNext DEF IInv, Typed, Tokens

-----------------------------------------------------------------------------

LEMMA NextIInv == IInv /\ [Next]_vars => IInv'
<1> SUFFICES ASSUME IInv, [Next]_vars PROVE IInv'
  OBVIOUS
<1>1. ASSUME NEW u \in User, NEW isAdmin \in BOOLEAN, CreateUser(u, isAdmin) PROVE IInv'
  BY <1>1, CreateKeeps
<1>2. ASSUME NEW s \in Subject, WindowEnds(s) PROVE IInv'
  BY <1>2, WindowKeeps
<1>3. ASSUME NEW s \in Subject, NEW c \in Client, CheckLimit(c, s) PROVE IInv'
  BY <1>3, CheckKeeps
<1>4. ASSUME NEW u \in User, NEW a \in Admin, NEW status \in UserStatus, UpdateUser(a, u, status)
      PROVE  IInv'
  BY <1>4, UpdateKeeps
<1>5. ASSUME NEW u \in User, NEW a \in Admin, DeleteUser(a, u) \/ ResetPassword(a, u) PROVE IInv'
  BY <1>5, DeleteKeeps, ResetKeeps
<1>6. ASSUME NEW u \in User, NEW a \in Admin, NEW isAdmin \in BOOLEAN, ReplaceUserAccess(a, u, isAdmin)
      PROVE  IInv'
  BY <1>6, ReplaceKeeps
<1>7. ASSUME NEW a \in Admin, CountAdmins(a) \/ CommitUser(a) \/ RollBackUser(a) PROVE IInv'
  BY <1>7, CountKeeps, CommitKeeps, RollBackKeeps
<1>8. ASSUME NEW c \in Client, VerifyPassword(c) \/ CreateRefreshToken(c) \/ RotateRefreshToken(c)
      PROVE  IInv'
  BY <1>8, VerifyKeeps, LoginCreates, RotateKeeps
<1>9. ASSUME NEW c \in Client, NEW t \in Token, LockToken(c, t) PROVE IInv'
  BY <1>9, LockTokenKeeps
<1>10. ASSUME NEW t \in Token, Logout(t) PROVE IInv'
  BY <1>10, LogoutKeeps
<1>11. CASE UNCHANGED vars
  BY <1>11, LoginKeeps, TypedIsTypeOK DEF vars, IInv, Typed
<1> QED BY <1>1, <1>2, <1>3, <1>4, <1>5, <1>6, <1>7, <1>8, <1>9, <1>10, <1>11 DEF Next

(* Who changes an account or replaces a token holds the row of its user,   *)
(* who takes an active administrator away holds that of the role as well   *)
(* (_locked_user, _protect_last_platform_admin, rotate_refresh_token).     *)
THEOREM AccountsInvariance == Spec => []IInv
  BY InitIInv, NextIInv, PTL DEF Spec

(* No refresh token of an account that cannot log in works.                *)
THEOREM TokensOfActiveUsers == Spec => []SessionsAreOfActiveUsers
<1>1. IInv => SessionsAreOfActiveUsers
  BY DEF IInv
<1> QED BY <1>1, AccountsInvariance, PTL

(* Of the tokens of one login one works at most.                           *)
THEOREM TokensOfOneLogin == Spec => []OneTokenPerSession
<1>1. IInv => OneTokenPerSession
  BY DEF IInv
<1> QED BY <1>1, AccountsInvariance, PTL

(* Disabling and deleting accounts never takes the last administrator      *)
(* away: who counted several still has another under the role's lock.      *)
THEOREM AdminsAreKept == Spec => DisablingKeepsAnAdmin
<1> DEFINE Keeps == ActiveAdmins # {} /\ (\A u \in User : user[u].admin => user'[u].admin)
                    => ActiveAdmins' # {}
<1>1. ASSUME UNCHANGED user PROVE Keeps
  BY <1>1 DEF ActiveAdmins, CanAuthenticate
<1>2. ASSUME IInv, NEW u \in User, NEW isAdmin \in BOOLEAN, CreateUser(u, isAdmin) PROVE Keeps
  <2>1. user' = [user EXCEPT ![u] = NewUser(isAdmin)] /\ user[u].status = "ABSENT"
        /\ user \in [User -> Row]
    BY <1>2 DEF CreateUser, IInv, TypeOK
  <2>2. \A v \in ActiveAdmins : v \in ActiveAdmins'
    BY <2>1 DEF ActiveAdmins, CanAuthenticate
  <2> QED BY <2>2
<1>3. ASSUME IInv, NEW a \in Admin, CommitUser(a) PROVE Keeps
  <2> DEFINE u == admin[a].user
  <2>1. /\ u \in User /\ user \in [User -> Row] /\ AdminOK(a) /\ Managing(a)
        /\ admin[a].pc = "commit"
    BY <1>3, AdminsOK DEF CommitUser, IInv, TypeOK, AdminOK, Managing
  <2>2. user'[u] = admin[a].becomes /\ \A v \in User : v # u => user'[v] = user[v]
    BY <1>3, <2>1 DEF CommitUser
  <2>3. SUFFICES ASSUME ActiveAdmins # {}, \A v \in User : user[v].admin => user'[v].admin
                 PROVE  ActiveAdmins' # {}
    OBVIOUS
  <2>4. \A v \in ActiveAdmins : v # u => v \in ActiveAdmins'
    BY <2>2, ActiveMeans, ActiveMeansNext DEF ActiveAdmins
  <2>5. CASE u \in ActiveAdmins /\ ~IsActiveAdmin(admin[a].becomes)
    <3>1. admin[a].becomes.admin
      BY <2>1, <2>2, <2>3, <2>5 DEF ActiveAdmins
    <3>2. Several(ActiveAdmins)
      BY <2>1, <2>5, <3>1 DEF AdminOK
    <3> QED BY <2>4, <3>2 DEF Several
  <2>6. CASE u \in ActiveAdmins /\ IsActiveAdmin(admin[a].becomes)
    BY <2>1, <2>2, <2>6, ActiveMeansNext
  <2>7. CASE u \notin ActiveAdmins
    BY <2>3, <2>4, <2>7
  <2> QED BY <2>5, <2>6, <2>7
<1>4. ASSUME NEW a \in Admin, NEW u, NEW pc, NEW becomes, NEW end, NEW seen,
             LockUser(a, u, pc, becomes, end, seen)
      PROVE  UNCHANGED user
  BY <1>4 DEF LockUser
<1>5. IInv /\ [Next]_vars => Keeps
  <2> SUFFICES ASSUME IInv, [Next]_vars PROVE Keeps
    OBVIOUS
  <2> HIDE DEF Keeps
  <2>1. ASSUME NEW u \in User, NEW a \in Admin
        PROVE  /\ \A status \in UserStatus : UpdateUser(a, u, status) => UNCHANGED user
               /\ DeleteUser(a, u) \/ ResetPassword(a, u) => UNCHANGED user
               /\ \A isAdmin \in BOOLEAN : ReplaceUserAccess(a, u, isAdmin) => UNCHANGED user
    BY <1>4 DEF UpdateUser, DeleteUser, ResetPassword, ReplaceUserAccess
  <2>2. ASSUME NEW a \in Admin, CountAdmins(a) \/ RollBackUser(a) PROVE UNCHANGED user
    BY <2>2 DEF CountAdmins, ProtectLastPlatformAdmin, RollBackUser
  <2>3. ASSUME NEW c \in Client,
               \/ \E s \in Subject : CheckLimit(c, s)
               \/ VerifyPassword(c) \/ CreateRefreshToken(c) \/ RotateRefreshToken(c)
               \/ \E t \in Token : LockToken(c, t)
        PROVE  UNCHANGED user
    BY <2>3 DEF CheckLimit, VerifyPassword, CreateRefreshToken, RotateRefreshToken, LockToken
  <2>4. ASSUME (\E s \in Subject : WindowEnds(s)) \/ (\E t \in Token : Logout(t)) \/ UNCHANGED vars
        PROVE  UNCHANGED user
    BY <2>4 DEF WindowEnds, Logout, vars
  <2> QED BY <1>1, <1>2, <1>3, <2>1, <2>2, <2>3, <2>4 DEF Next
<1> QED BY <1>5, AccountsInvariance, PTL DEF Spec, DisablingKeepsAnAdmin

-----------------------------------------------------------------------------
(* The limiter.  A failure that is not recorded yet is a login between its *)
(* check and its end; the check lets one in below the limit only, and each *)
(* client is one of them at most.                                          *)

Unrecorded(s) == {c \in Client : client[c].pc \in {"checked", "verified"} /\ SubjectOf(c) = s}

RoomForAll ==
    \A s \in Subject : attempts[s] + Cardinality(Unrecorded(s)) < MaxAttempts + Cardinality(Client)

Limiter == IInv /\ RoomForAll

LEMMA Counts ==
    /\ IsFiniteSet(Client) /\ Cardinality(Client) \in Nat /\ MaxAttempts \in Nat \ {0}
    /\ \A s \in Subject : /\ IsFiniteSet(Unrecorded(s)) /\ Cardinality(Unrecorded(s)) \in Nat
                       /\ Cardinality(Unrecorded(s)) <= Cardinality(Client)
<1>1. IsFiniteSet(Client) /\ Cardinality(Client) \in Nat /\ MaxAttempts \in Nat \ {0}
  BY AccountsAssumption, FS_CardinalityType
<1>2. ASSUME NEW s \in Subject
      PROVE  /\ IsFiniteSet(Unrecorded(s)) /\ Cardinality(Unrecorded(s)) \in Nat
             /\ Cardinality(Unrecorded(s)) <= Cardinality(Client)
  <2>1. Unrecorded(s) \in SUBSET Client
    BY DEF Unrecorded
  <2> QED BY <1>1, <2>1, FS_Subset, FS_CardinalityType
<1> QED BY <1>1, <1>2

LEMMA CountsNext ==
    \A s \in Subject : /\ IsFiniteSet(Unrecorded(s)') /\ Cardinality(Unrecorded(s)') \in Nat
                   /\ Cardinality(Unrecorded(s)') <= Cardinality(Client)
<1> SUFFICES ASSUME NEW s \in Subject
             PROVE  /\ IsFiniteSet(Unrecorded(s)') /\ Cardinality(Unrecorded(s)') \in Nat
                    /\ Cardinality(Unrecorded(s)') <= Cardinality(Client)
  OBVIOUS
<1>1. Unrecorded(s)' \in SUBSET Client
  BY DEF Unrecorded
<1> QED BY <1>1, Counts, FS_Subset, FS_CardinalityType

(* Most steps count nothing and begin no login.                            *)
LEMMA NoMoreFailures ==
    ASSUME RoomForAll, TypeOK, TypeOK',
           \A s \in Subject : attempts'[s] <= attempts[s] /\ Unrecorded(s)' \subseteq Unrecorded(s)
    PROVE  RoomForAll'
<1> SUFFICES ASSUME NEW s \in Subject
             PROVE  attempts'[s] + Cardinality(Unrecorded(s)') < MaxAttempts + Cardinality(Client)
  BY DEF RoomForAll
<1>1. Cardinality(Unrecorded(s)') <= Cardinality(Unrecorded(s))
  BY Counts, FS_Subset
<1>2. attempts[s] \in Nat /\ attempts'[s] \in Nat
  BY DEF TypeOK
<1> QED BY <1>1, <1>2, Counts, CountsNext DEF RoomForAll

LEMMA CheckLeavesRoom ==
    ASSUME Limiter, IInv', NEW c \in Client, NEW s \in Subject, CheckLimit(c, s)
    PROVE  RoomForAll'
<1> SUFFICES ASSUME NEW v \in Subject
             PROVE  attempts'[v] + Cardinality(Unrecorded(v)') < MaxAttempts + Cardinality(Client)
  BY DEF RoomForAll
<1>1. attempts[v] \in Nat /\ attempts'[v] = attempts[v]
  BY DEF Limiter, IInv, TypeOK, CheckLimit
<1>2. CASE v = s
  <2>1. attempts[v] < MaxAttempts
    BY <1>1, <1>2, Counts DEF CheckLimit, Blocked
  <2> QED BY <1>1, <2>1, Counts, CountsNext
<1>3. CASE v # s
  <2>1. client[c].pc = "idle" /\ SubjectOf(c)' = s /\ \A d \in Client : d # c => client'[d] = client[d]
    BY SubjectParts DEF CheckLimit, SubjectOf, Limiter, IInv, TypeOK, IdleClient
  <2>2. Unrecorded(v)' = Unrecorded(v)
    BY <1>3, <2>1 DEF Unrecorded, SubjectOf
  <2> QED BY <1>1, <2>2 DEF Limiter, RoomForAll
<1> QED BY <1>2, <1>3

(* A failure is recorded where it was awaited.                             *)
LEMMA FailureTakesItsRoom ==
    ASSUME Limiter, IInv', NEW c \in Client, client[c].pc \in {"checked", "verified"}, Fails(c)
    PROVE  RoomForAll'
<1> SUFFICES ASSUME NEW v \in Subject
             PROVE  attempts'[v] + Cardinality(Unrecorded(v)') < MaxAttempts + Cardinality(Client)
  BY DEF RoomForAll
<1>1. /\ client'[c] = IdleClient /\ \A d \in Client : d # c => client'[d] = client[d]
      /\ attempts[v] \in Nat
  BY DEF Limiter, IInv, TypeOK, Fails
<1>2. CASE v = SubjectOf(c)
  <2>1. attempts'[v] = attempts[v] + 1
    BY <1>2 DEF Limiter, IInv, TypeOK, Fails
  <2>2. c \in Unrecorded(v) /\ Unrecorded(v)' = Unrecorded(v) \ {c}
    BY <1>1, <1>2 DEF Unrecorded, SubjectOf, IdleClient
  <2>3. Cardinality(Unrecorded(v)') = Cardinality(Unrecorded(v)) - 1
    BY <2>2, Counts, FS_RemoveElement
  <2> QED BY <1>1, <2>1, <2>3, Counts DEF Limiter, RoomForAll
<1>3. CASE v # SubjectOf(c)
  <2>1. attempts'[v] = attempts[v]
    BY <1>3 DEF Limiter, IInv, TypeOK, Fails
  <2>2. Unrecorded(v)' = Unrecorded(v)
    BY <1>1, <1>3 DEF Unrecorded, SubjectOf, IdleClient
  <2> QED BY <2>1, <2>2 DEF Limiter, RoomForAll
<1> QED BY <1>2, <1>3

LEMMA LimiterStep == Limiter /\ [Next]_vars => Limiter'
<1> SUFFICES ASSUME Limiter, [Next]_vars PROVE RoomForAll'
  BY NextIInv DEF Limiter
<1>1. IInv /\ IInv' /\ TypeOK /\ TypeOK' /\ RoomForAll
  BY NextIInv DEF Limiter, IInv
<1>2. \A s \in Subject : attempts[s] \in Nat
  BY <1>1 DEF TypeOK
<1>3. ASSUME UNCHANGED <<client, attempts>> PROVE RoomForAll'
  BY <1>1, <1>2, <1>3, NoMoreFailures DEF Unrecorded, SubjectOf
<1>4. ASSUME NEW s \in Subject, WindowEnds(s) PROVE RoomForAll'
  <2>1. \A v \in Subject : attempts'[v] <= attempts[v]
    BY <1>1, <1>2, <1>4 DEF WindowEnds, TypeOK
  <2>2. \A v \in Subject : Unrecorded(v)' = Unrecorded(v)
    BY <1>4 DEF WindowEnds, Unrecorded, SubjectOf
  <2> QED BY <1>1, <2>1, <2>2, NoMoreFailures
<1>5. ASSUME NEW c \in Client, client'[c] = IdleClient \/ client'[c].pc = "rotate",
             UNCHANGED attempts, \A d \in Client : d # c => client'[d] = client[d]
      PROVE  RoomForAll'
  <2>1. \A v \in Subject : Unrecorded(v)' \subseteq Unrecorded(v)
    BY <1>5 DEF Unrecorded, SubjectOf, IdleClient
  <2> QED BY <1>1, <1>2, <1>5, <2>1, NoMoreFailures
<1>6. ASSUME NEW c \in Client, (\E t \in Token : LockToken(c, t)) \/ RotateRefreshToken(c)
      PROVE  RoomForAll'
  <2>1. CASE RotateRefreshToken(c)
    BY <1>1, <2>1, <1>5 DEF RotateRefreshToken, TypeOK
  <2>2. ASSUME NEW t \in Token, LockToken(c, t) PROVE RoomForAll'
    <3>1. UNCHANGED attempts /\ \A d \in Client : d # c => client'[d] = client[d]
      BY <1>1, <2>2 DEF LockToken, TypeOK
    <3>2. client'[c].pc = "rotate"
      BY <1>1, <2>2 DEF LockToken, TypeOK, IdleClient
    <3> QED BY <1>5, <3>1, <3>2
  <2> QED BY <1>6, <2>1, <2>2
<1>7. ASSUME NEW c \in Client, VerifyPassword(c) PROVE RoomForAll'
  <2>1. CASE Fails(c)
    BY <1>1, <1>7, <2>1, FailureTakesItsRoom DEF VerifyPassword, Limiter
  <2>2. CASE client' = [client EXCEPT ![c].pc = "verified"] /\ UNCHANGED attempts
    <3>1. \A v \in Subject : Unrecorded(v)' = Unrecorded(v)
      BY <1>1, <1>7, <2>2 DEF VerifyPassword, Unrecorded, SubjectOf, TypeOK
    <3> QED BY <1>1, <1>2, <2>2, <3>1, NoMoreFailures
  <2> QED BY <1>7, <2>1, <2>2 DEF VerifyPassword
<1>8. ASSUME NEW c \in Client, CreateRefreshToken(c) PROVE RoomForAll'
  <2>1. CASE Fails(c)
    BY <1>1, <1>8, <2>1, FailureTakesItsRoom DEF CreateRefreshToken, Limiter
  <2>2. CASE Created(c)
    <3>1. /\ client'[c] = IdleClient /\ \A d \in Client : d # c => client'[d] = client[d]
          /\ attempts' = [attempts EXCEPT ![SubjectOf(c)] = 0]
      BY <1>1, <2>2 DEF Created, TypeOK
    <3>2. \A v \in Subject : attempts'[v] <= attempts[v]
      BY <1>1, <1>2, <3>1 DEF TypeOK
    <3>3. \A v \in Subject : Unrecorded(v)' \subseteq Unrecorded(v)
      BY <3>1 DEF Unrecorded, SubjectOf, IdleClient
    <3> QED BY <1>1, <3>2, <3>3, NoMoreFailures
  <2> QED BY <1>8, <2>1, <2>2 DEF CreateRefreshToken
<1>9. ASSUME NEW s \in Subject, NEW c \in Client, CheckLimit(c, s) PROVE RoomForAll'
  BY <1>1, <1>9, CheckLeavesRoom DEF Limiter
<1>10. ASSUME NEW a \in Admin, NEW u, NEW pc, NEW becomes, NEW end, NEW seen,
              LockUser(a, u, pc, becomes, end, seen)
       PROVE  RoomForAll'
  BY <1>3, <1>10 DEF LockUser
<1>11. ASSUME NEW u \in User, NEW a \in Admin
       PROVE  /\ \A status \in UserStatus : UpdateUser(a, u, status) => RoomForAll'
              /\ DeleteUser(a, u) \/ ResetPassword(a, u) => RoomForAll'
              /\ \A isAdmin \in BOOLEAN : ReplaceUserAccess(a, u, isAdmin) => RoomForAll'
  BY <1>10 DEF UpdateUser, DeleteUser, ResetPassword, ReplaceUserAccess
<1>12. ASSUME NEW a \in Admin, CountAdmins(a) \/ CommitUser(a) \/ RollBackUser(a)
       PROVE  RoomForAll'
  BY <1>3, <1>12 DEF CountAdmins, ProtectLastPlatformAdmin, CommitUser, RollBackUser
<1>13. ASSUME \/ \E u \in User, isAdmin \in BOOLEAN : CreateUser(u, isAdmin)
              \/ \E t \in Token : Logout(t)
              \/ UNCHANGED vars
       PROVE  RoomForAll'
  BY <1>3, <1>13 DEF CreateUser, Logout, vars
<1> QED BY <1>4, <1>6, <1>7, <1>8, <1>9, <1>11, <1>12, <1>13 DEF Next

(* However many logins pass the check before any of them fails, the        *)
(* failures of a username from an address stay below the limit and the     *)
(* number of clients (login_rate_limit_subject, status, record_failure).   *)
THEOREM FailuresStayBounded == Spec => []FailuresAreBounded
<1>1. Init => Limiter
  <2> SUFFICES ASSUME Init PROVE RoomForAll
    BY InitIInv DEF Limiter
  <2>1. \A s \in Subject : attempts[s] = 0 /\ Unrecorded(s) = {}
    BY DEF Init, Unrecorded, IdleClient
  <2> QED BY <2>1, Counts, FS_EmptySet DEF RoomForAll
<1>2. Limiter => FailuresAreBounded
  BY Counts DEF Limiter, IInv, TypeOK, RoomForAll, FailuresAreBounded
<1> QED BY <1>1, <1>2, LimiterStep, PTL DEF Spec

-----------------------------------------------------------------------------
(* Sessions.  Each step of Accounts is one of a session, or none.          *)

Enabled == {u \in User : CanAuthenticate(u)}
Used == {t \in Token : token[t].state # "ABSENT"}
Pair(t) == <<token[t].session, token[t].user>>
Open == {Pair(t) : t \in Live}

LEMMA SessionsAre ==
    /\ Sessions!vars = <<Enabled, Used, Open>>
    /\ Sessions!vars' = <<Enabled', Used', Open'>>
  BY DEF Sessions!vars, Enabled, Used, Open, Pair

(* The actions of SessionLifecycle in terms of Accounts.                   *)
LEMMA SessionActions ==
    /\ \A u : Sessions!Admit(u) <=>
           Enabled' = Enabled \cup {u} /\ Used' = Used /\ Open' = Open
    /\ \A u : Sessions!EndAll(u) <=>
           /\ Open' = {x \in Open : x[2] # u}
           /\ Enabled' \in {Enabled, Enabled \cup {u}, Enabled \ {u}}
           /\ Used' = Used
    /\ \A x : Sessions!End(x) <=> Open' = Open \ {x} /\ Enabled' = Enabled /\ Used' = Used
    /\ \A t : Sessions!Refresh(t) <=>
           t \notin Used /\ Used' = Used \cup {t} /\ Enabled' = Enabled /\ Open' = Open
    /\ \A t, u : Sessions!Begin(t, u) <=>
           /\ t \notin Used /\ Used' = Used \cup {t}
           /\ u \in Enabled /\ Open' = Open \cup {<<t, u>>}
           /\ Enabled' = Enabled
  BY DEF Sessions!Admit, Sessions!EndAll, Sessions!End, Sessions!Refresh, Sessions!Begin,
         Enabled, Used, Open, Pair

LEMMA EnabledStay == UNCHANGED user => Enabled' = Enabled
  BY DEF Enabled, CanAuthenticate

LEMMA SessionsStay == UNCHANGED token => Used' = Used /\ Open' = Open
  BY DEF Used, Open, Pair, Live

LEMMA CreateAdmits ==
    ASSUME IInv, NEW u \in User, NEW isAdmin \in BOOLEAN, CreateUser(u, isAdmin)
    PROVE  Sessions!Admit(u)
<1>1. /\ user'[u] = NewUser(isAdmin) /\ \A v \in User : v # u => user'[v] = user[v]
      /\ UNCHANGED token
  BY DEF CreateUser, IInv, TypeOK
<1>2. Enabled' = Enabled \cup {u}
  BY <1>1 DEF Enabled, CanAuthenticate, NewUser
<1> QED BY <1>1, <1>2, SessionsStay, SessionActions

(* A commit bars nobody whose sessions it does not end.                    *)
LEMMA CommitEnds ==
    ASSUME IInv, NEW a \in Admin, CommitUser(a)
    PROVE  \E u \in User : Sessions!Admit(u) \/ Sessions!EndAll(u)
<1> DEFINE u == admin[a].user
<1>1. Typed /\ u \in User /\ admin[a] \in AdminState /\ AdminOK(a) /\ Managing(a)
  BY TypedIsTypeOK, AdminsOK DEF IInv, CommitUser, Managing, AdminOK, Typed
<1>2. /\ user'[u] = admin[a].becomes /\ \A v \in User : v # u => user'[v] = user[v]
  BY <1>1 DEF CommitUser, Typed
<1>3. \A t \in Token : token'[t] = IF admin[a].end = "revoke" /\ token[t].user = u
                                      /\ token[t].state = "LIVE" THEN RevokedToken ELSE token[t]
  BY DEF CommitUser
<1>4. Enabled' \in {Enabled, Enabled \cup {u}, Enabled \ {u}}
  <2>1. \A v \in User : v # u => (v \in Enabled' <=> v \in Enabled)
    BY <1>2 DEF Enabled, CanAuthenticate
  <2>2. Enabled' \subseteq User /\ Enabled \subseteq User
    BY DEF Enabled
  <2>3. CASE u \in Enabled'
    BY <1>1, <2>1, <2>2, <2>3
  <2>4. CASE u \notin Enabled'
    BY <1>1, <2>1, <2>2, <2>4
  <2> QED BY <2>3, <2>4
<1>5. CASE admin[a].end = "keep"
  <2>1. u \in Enabled'
    BY <1>1, <1>2, <1>5 DEF AdminOK, Enabled, CanAuthenticate
  <2>2. Enabled' = Enabled \cup {u}
    BY <1>4, <2>1
  <2>3. \A t \in Token : token'[t] = token[t]
    BY <1>3, <1>5
  <2>4. Used' = Used /\ Open' = Open
    BY <2>3 DEF Used, Open, Pair, Live
  <2> QED BY <1>1, <2>2, <2>4, SessionActions
<1>6. CASE admin[a].end = "revoke"
  <2>1. \A t \in Token : token'[t].state # "ABSENT" <=> token[t].state # "ABSENT"
    BY <1>3 DEF RevokedToken, AbsentToken
  <2>2. Used' = Used
    BY <2>1 DEF Used
  <2>3. /\ Live' = {t \in Live : token[t].user # u}
        /\ \A t \in Live' : token'[t] = token[t]
    BY <1>3, <1>6 DEF Live, RevokedToken, AbsentToken
  <2>4. Open' = {Pair(t) : t \in Live'}
    BY <2>3 DEF Open, Pair
  <2>5. \A t : Pair(t)[2] = token[t].user
    BY DEF Pair
  <2>6. Open' = {x \in Open : x[2] # u}
    <3>1. ASSUME NEW x \in Open' PROVE x \in Open /\ x[2] # u
      <4>1. PICK t \in Live : token[t].user # u /\ x = Pair(t)
        BY <2>3, <2>4
      <4> QED BY <4>1, <2>5 DEF Open
    <3>2. ASSUME NEW x \in Open, x[2] # u PROVE x \in Open'
      <4>1. PICK t \in Live : x = Pair(t)
        BY DEF Open
      <4>2. t \in Live'
        BY <2>3, <2>5, <3>2, <4>1
      <4> QED BY <2>4, <4>1, <4>2
    <3> QED BY <3>1, <3>2
  <2> QED BY <1>1, <1>4, <2>2, <2>6, SessionActions
<1> QED BY <1>1, <1>5, <1>6 DEF AdminState

LEMMA LogoutEnds ==
    ASSUME IInv, NEW t \in Token, Logout(t)
    PROVE  \E x \in Open : Sessions!End(x)
<1>1. /\ t \in Live /\ token'[t] = RevokedToken
      /\ \A s \in Token : s # t => token'[s] = token[s]
  BY DEF Logout, IInv, TypeOK, Live
<1>2. UNCHANGED user
  BY DEF Logout
<1>3. Live' = Live \ {t} /\ \A s \in Live' : token'[s] = token[s]
  BY <1>1 DEF Live, RevokedToken, AbsentToken
<1>4. Open' = {Pair(s) : s \in Live'}
  BY <1>3 DEF Open, Pair
<1>5. \A s \in Live : Pair(s) = Pair(t) => s = t
  BY <1>1 DEF Pair, Live, IInv, OneTokenPerSession
<1>6. Pair(t) \in Open /\ Open' = Open \ {Pair(t)}
  BY <1>1, <1>3, <1>4, <1>5 DEF Open
<1>7. Used' = Used
  BY <1>1 DEF Used, Live, RevokedToken, AbsentToken
<1> QED BY <1>2, <1>6, <1>7, EnabledStay, SessionActions

LEMMA NextNumber ==
    ASSUME NEW t \in Token, NextNo(t)
    PROVE  t \notin Used /\ t \notin Live /\ token[t].state = "ABSENT"
  BY DEF NextNo, Used, Live

LEMMA LoginBegins ==
    ASSUME IInv, NEW c \in Client, client[c].pc = "verified", CanAuthenticate(client[c].user),
           Created(c), UNCHANGED user
    PROVE  \E t \in Token, u \in User : Sessions!Begin(t, u)
<1> DEFINE u == client[c].user
<1>1. u \in User /\ u \in Enabled
  BY DEF IInv, RotationsHoldTheirRows, Enabled
<1>2. PICK t \in Token :
        /\ NextNo(t)
        /\ token' = [token EXCEPT ![t] = [state |-> "LIVE", user |-> u, session |-> t]]
  BY DEF Created
<1>3. /\ token'[t] = [state |-> "LIVE", user |-> u, session |-> t]
      /\ \A s \in Token : s # t => token'[s] = token[s]
  BY <1>2 DEF IInv, TypeOK
<1>4. t \notin Used /\ t \notin Live
  BY <1>2, NextNumber
<1>5. Used' = Used \cup {t}
  BY <1>3 DEF Used
<1>6. Live' = Live \cup {t} /\ \A s \in Live : token'[s] = token[s]
  BY <1>3, <1>4 DEF Live
<1>7. Open' = Open \cup {<<t, u>>}
  <2>1. Pair(t)' = <<t, u>> /\ \A s \in Live : Pair(s)' = Pair(s)
    BY <1>3, <1>6 DEF Pair
  <2> QED BY <1>6, <2>1 DEF Open, Pair
<1> QED BY <1>1, <1>4, <1>5, <1>7, EnabledStay, SessionActions

LEMMA RotationRefreshes ==
    ASSUME IInv, NEW c \in Client, RotateRefreshToken(c)
    PROVE  \E t \in Token : Sessions!Refresh(t)
<1> DEFINE old == client[c].token
<1>1. /\ old \in Token
      /\ token[old] = [state |-> "LIVE", user |-> client[c].user, session |-> client[c].session]
  BY DEF IInv, RotationsHoldTheirRows, RotateRefreshToken
<1>2. PICK t \in Token :
        /\ NextNo(t)
        /\ token' = [token EXCEPT ![t] = [state |-> "LIVE", user |-> client[c].user,
                                            session |-> client[c].session],
                                  ![old] = RevokedToken]
  BY DEF RotateRefreshToken
<1>3. t \notin Used /\ t \notin Live /\ token[t].state = "ABSENT" /\ t # old /\ old \in Live
  BY <1>1, <1>2, NextNumber DEF Live
<1>4. /\ token'[t] = [state |-> "LIVE", user |-> client[c].user, session |-> client[c].session]
      /\ token'[old] = RevokedToken
      /\ \A s \in Token : s # t /\ s # old => token'[s] = token[s]
  BY <1>1, <1>2, <1>3 DEF IInv, TypeOK
<1>5. token'[t] = token[old]
  BY <1>1, <1>4
<1>6. Used' = Used \cup {t}
  BY <1>1, <1>4 DEF Used, RevokedToken, AbsentToken
<1>7. Live' = (Live \ {old}) \cup {t}
  BY <1>3, <1>4 DEF Live, RevokedToken, AbsentToken
<1>8. Open' = Open
  <2>1. Pair(t)' = Pair(old) /\ \A s \in Live \ {old} : Pair(s)' = Pair(s)
    BY <1>3, <1>4, <1>5 DEF Pair, Live
  <2> QED BY <1>3, <1>7, <2>1 DEF Open, Pair
<1>9. UNCHANGED user
  BY DEF RotateRefreshToken
<1> QED BY <1>3, <1>6, <1>8, <1>9, EnabledStay, SessionActions

LEMMA NextIsOfSessions ==
    ASSUME IInv, [Next]_vars
    PROVE  [Sessions!Next]_(Sessions!vars)
<1>1. ASSUME UNCHANGED <<user, token>> PROVE UNCHANGED Sessions!vars
  BY <1>1, EnabledStay, SessionsStay, SessionsAre
<1>2. ASSUME NEW u \in User, NEW isAdmin \in BOOLEAN, CreateUser(u, isAdmin) PROVE Sessions!Next
  BY <1>2, CreateAdmits DEF Sessions!Next
<1>3. ASSUME NEW s \in Subject, WindowEnds(s) \/ \E c \in Client : CheckLimit(c, s)
      PROVE  UNCHANGED Sessions!vars
  BY <1>1, <1>3 DEF WindowEnds, CheckLimit
<1>4. ASSUME NEW u \in User, NEW a \in Admin,
             \/ \E status \in UserStatus : UpdateUser(a, u, status)
             \/ DeleteUser(a, u) \/ ResetPassword(a, u)
             \/ \E isAdmin \in BOOLEAN : ReplaceUserAccess(a, u, isAdmin)
      PROVE  UNCHANGED Sessions!vars
  BY <1>1, <1>4 DEF UpdateUser, DeleteUser, ResetPassword, ReplaceUserAccess, LockUser
<1>5. ASSUME NEW a \in Admin, CountAdmins(a) \/ RollBackUser(a) PROVE UNCHANGED Sessions!vars
  BY <1>1, <1>5 DEF CountAdmins, ProtectLastPlatformAdmin, RollBackUser
<1>6. ASSUME NEW a \in Admin, CommitUser(a) PROVE Sessions!Next
  BY <1>6, CommitEnds DEF Sessions!Next
<1>7. ASSUME NEW c \in Client, VerifyPassword(c) \/ \E t \in Token : LockToken(c, t)
      PROVE  UNCHANGED Sessions!vars
  BY <1>1, <1>7 DEF VerifyPassword, LockToken
<1>8. ASSUME NEW c \in Client, CreateRefreshToken(c)
      PROVE  Sessions!Next \/ UNCHANGED Sessions!vars
  <2>1. CASE CanAuthenticate(client[c].user)
    <3>1. \E t \in Token, u \in User : Sessions!Begin(t, u)
      BY <1>8, <2>1, LoginBegins DEF CreateRefreshToken
    <3> QED BY <3>1 DEF Sessions!Next
  <2>2. CASE ~CanAuthenticate(client[c].user)
    BY <1>1, <1>8, <2>2 DEF CreateRefreshToken
  <2> QED BY <2>1, <2>2
<1>9. ASSUME NEW c \in Client, RotateRefreshToken(c) PROVE Sessions!Next
  BY <1>9, RotationRefreshes DEF Sessions!Next
<1>10. ASSUME NEW t \in Token, Logout(t) PROVE Sessions!Next
  BY <1>10, LogoutEnds DEF Sessions!Next, Open, Pair
<1>11. ASSUME UNCHANGED vars PROVE UNCHANGED Sessions!vars
  BY <1>1, <1>11 DEF vars
<1> QED BY <1>2, <1>3, <1>4, <1>5, <1>6, <1>7, <1>8, <1>9, <1>10, <1>11 DEF Next

(* Sessions are opened once, by users who may log in, and end at the       *)
(* latest when their user is barred, whatever logins, refreshes and        *)
(* managing requests overlap (create_refresh_token, rotate_refresh_token,  *)
(* _revoke_sessions).                                                      *)
THEOREM SessionsAreImplemented == Spec => ImplementsSessions
<1>1. Init => Sessions!Init
  BY DEF Init, Sessions!Init, AbsentToken, Live
<1>2. IInv /\ [Next]_vars => [Sessions!Next]_(Sessions!vars)
  BY NextIsOfSessions
<1> QED BY <1>1, <1>2, AccountsInvariance, PTL DEF Spec, ImplementsSessions, Sessions!Spec

(* A session that a logout, a refresh used twice or a managing request has *)
(* ended is not opened again, by whatever runs next to it                  *)
(* (rotate_refresh_token, _revoke_sessions).                               *)
THEOREM SessionsAreNotRevived == Spec => Sessions!NeverRevived
<1> DEFINE Ended == \A s \in Used : \A u \in User : <<s, u>> \notin Open => <<s, u>> \notin Open'
<1>1. IInv /\ [Next]_vars => Ended \/ UNCHANGED Sessions!vars
  <2> SUFFICES ASSUME [Sessions!Next]_(Sessions!vars), ~UNCHANGED Sessions!vars,
                      NEW s \in Used, NEW u \in User, <<s, u>> \notin Open
               PROVE  <<s, u>> \notin Open'
    BY NextIsOfSessions
  <2>1. Sessions!Next
    OBVIOUS
  <2>2. Open' \subseteq Open \/ \E t, v : t \notin Used /\ Open' = Open \cup {<<t, v>>}
    BY <2>1, SessionActions DEF Sessions!Next, Open
  <2>3. ASSUME NEW t, NEW v, t \notin Used, Open' = Open \cup {<<t, v>>} PROVE <<s, u>> \notin Open'
    BY <2>3
  <2> QED BY <2>2, <2>3
<1>2. IInv /\ [Next]_vars
      => [\A s \in Used : \A u \in User : <<s, u>> \notin Open => <<s, u>> \notin Open']_(Sessions!vars)
  BY <1>1
<1> QED BY <1>2, AccountsInvariance, PTL DEF Spec, Sessions!NeverRevived, Used, Open, Pair
=============================================================================
