------------------------------ MODULE Accounts ------------------------------
(***************************************************************************)
(* Accounts of users, their platform administrators, their refresh tokens  *)
(* and the counter of failed logins (repositories/identity_management.py,  *)
(* repositories/auth.py, application/auth.py, api/auth.py,                 *)
(* cache/login_rate_limit.py).                                             *)
(*                                                                         *)
(* A transaction locks the row of its user first and holds it to the end.  *)
(* Reads that lock see what is committed; plain reads see the snapshot     *)
(* that the first plain read of their transaction fixed (InnoDB,           *)
(* REPEATABLE READ).  Tokens are numbered as they are issued.              *)
(***************************************************************************)
EXTENDS Naturals, FiniteSets

CONSTANTS
    User,
    Admin,        \* concurrent requests that manage accounts
    Client,       \* concurrent logins, refreshes and logouts
    Address,      \* IP addresses that logins come from
    Subject,      \* bound: which users' logins come from which addresses
    NoOne,
    MaxAttempts,  \* login_rate_limit_attempts
    MaxTokens     \* bound: refresh tokens

ASSUME AccountsAssumption ==
    /\ NoOne \notin User \cup Admin \cup Client
    /\ Admin \cap Client = {}
    /\ IsFiniteSet(Client)
    /\ Subject \subseteq User \X Address   \* login_rate_limit_subject
    /\ MaxAttempts \in Nat \ {0} /\ MaxTokens \in Nat

Token == 1..MaxTokens

VARIABLES
    user,       \* users, and whether PLATFORM_ADMIN is among their roles
    token,      \* refresh_tokens; a login and its refreshes are one session
    admin,      \* the transaction of each managing request
    client,     \* how far each login or refresh is
    userLock, roleLock,   \* row locks; the role is PLATFORM_ADMIN
    attempts    \* failed logins of each subject in its window

vars == <<user, token, admin, client, userLock, roleLock, attempts>>

(* LOCKED is a third status, and everywhere treated as DISABLED is.        *)
UserStatus == {"ACTIVE", "DISABLED"}
AbsentUser == [status |-> "ABSENT", deleted |-> FALSE, admin |-> FALSE]
NewUser(isAdmin) == [status |-> "ACTIVE", deleted |-> FALSE, admin |-> isAdmin]
AbsentToken == [state |-> "ABSENT", user |-> NoOne, session |-> 0]
RevokedToken == [AbsentToken EXCEPT !.state = "REVOKED"]
IdleAdmin == [pc |-> "idle", user |-> NoOne, becomes |-> AbsentUser, end |-> "keep",
              seen |-> {}]
IdleClient == [pc |-> "idle", user |-> NoOne, address |-> NoOne, token |-> 0, session |-> 0]

Row == [status : UserStatus \cup {"ABSENT"}, deleted : BOOLEAN, admin : BOOLEAN]

TypeOK ==
    /\ user \in [User -> Row]
    /\ token \in [Token -> [state : {"ABSENT", "LIVE", "REVOKED"}, user : User \cup {NoOne},
                            session : 0..MaxTokens]]
    /\ admin \in [Admin -> [pc : {"idle", "count", "recount", "commit"}, user : User \cup {NoOne},
                            becomes : Row, end : {"keep", "revoke"}, seen : SUBSET User]]
    /\ client \in [Client -> [pc : {"idle", "checked", "verified", "rotate"},
                              user : User \cup {NoOne}, address : Address \cup {NoOne},
                              token : 0..MaxTokens, session : 0..MaxTokens]]
    /\ userLock \in [User -> Admin \cup Client \cup {NoOne}]
    /\ roleLock \in Admin \cup {NoOne}
    /\ attempts \in [Subject -> Nat]

CanAuthenticate(u) == user[u].status = "ACTIVE" /\ ~user[u].deleted
ActiveAdmins == {u \in User : CanAuthenticate(u) /\ user[u].admin}

Init ==
    /\ \E founders \in SUBSET User \ {{}} :
          user = [u \in User |-> IF u \in founders THEN NewUser(TRUE) ELSE AbsentUser]
    /\ token = [t \in Token |-> AbsentToken]
    /\ admin = [a \in Admin |-> IdleAdmin]
    /\ client = [c \in Client |-> IdleClient]
    /\ userLock = [u \in User |-> NoOne] /\ roleLock = NoOne
    /\ attempts = [s \in Subject |-> 0]

-----------------------------------------------------------------------------
(* Managing accounts.                                                      *)

CreateUser(u, isAdmin) ==
    /\ user[u].status = "ABSENT"
    /\ user' = [user EXCEPT ![u] = NewUser(isAdmin)]
    /\ UNCHANGED <<token, admin, client, userLock, roleLock, attempts>>

(* _locked_user.  becomes is the row that the call will write, and end     *)
(* says whether it revokes the sessions; seen is the snapshot of a call    *)
(* whose first plain read comes before it counts.                          *)
LockUser(a, u, pc, becomes, end, seen) ==
    /\ admin[a].pc = "idle"
    /\ user[u].status # "ABSENT" /\ ~user[u].deleted
    /\ userLock[u] = NoOne /\ userLock' = [userLock EXCEPT ![u] = a]
    /\ admin' = [admin EXCEPT ![a] = [pc |-> pc, user |-> u, becomes |-> becomes, end |-> end,
                                     seen |-> seen]]
    /\ UNCHANGED <<user, token, client, roleLock, attempts>>

UpdateUser(a, u, status) ==
    LET becomes == [user[u] EXCEPT !.status = status]
    IN IF status = "ACTIVE" THEN LockUser(a, u, "commit", becomes, "keep", {})
                            ELSE LockUser(a, u, "count", becomes, "revoke", {})

DeleteUser(a, u) ==
    LockUser(a, u, "count", [user[u] EXCEPT !.status = "DISABLED", !.deleted = TRUE], "revoke", {})

ResetPassword(a, u) == LockUser(a, u, "commit", user[u], "revoke", {})

(* replace_user_access reads the roles, without a lock, before it asks     *)
(* whether the last administrator is concerned: it will count the          *)
(* administrators of that snapshot.                                        *)
ReplaceUserAccess(a, u, isAdmin) ==
    LET becomes == [user[u] EXCEPT !.admin = isAdmin]
    IN IF user[u].admin /\ ~isAdmin
       THEN LockUser(a, u, "recount", becomes, "revoke", ActiveAdmins)
       ELSE LockUser(a, u, "commit", becomes, "revoke", {})

Several(users) == \E u, v \in users : u # v

(* Variant: the role row is not locked.                                    *)
ProtectUnlocked(a, admins) ==
    /\ user[admin[a].user].admin => Several(admins)
    /\ admin' = [admin EXCEPT ![a].pc = "commit", ![a].seen = {}]
    /\ UNCHANGED <<user, token, client, userLock, roleLock, attempts>>

(* _protect_last_platform_admin                                            *)
ProtectLastPlatformAdmin(a, admins) ==
    /\ roleLock = NoOne
    /\ user[admin[a].user].admin => Several(admins)
    /\ roleLock' = a
    /\ admin' = [admin EXCEPT ![a].pc = "commit", ![a].seen = {}]
    /\ UNCHANGED <<user, token, client, userLock, attempts>>

(* The count is the first plain read of update_user and delete_user.       *)
CountAdmins(a) ==
    \/ admin[a].pc = "count" /\ ProtectLastPlatformAdmin(a, ActiveAdmins)
    \/ admin[a].pc = "recount" /\ ProtectLastPlatformAdmin(a, admin[a].seen)

Release(a) ==
    /\ userLock' = [userLock EXCEPT ![admin[a].user] = NoOne]
    /\ roleLock' = IF roleLock = a THEN NoOne ELSE roleLock
    /\ admin' = [admin EXCEPT ![a] = IdleAdmin]

(* Refused, a lost race for a lock, or a failing process.                  *)
RollBackUser(a) ==
    /\ admin[a].pc # "idle"
    /\ Release(a)
    /\ UNCHANGED <<user, token, client, attempts>>

CommitUser(a) ==
    /\ admin[a].pc = "commit"
    /\ user' = [user EXCEPT ![admin[a].user] = admin[a].becomes]
    /\ token' = [t \in Token |-> IF admin[a].end = "revoke" /\ token[t].user = admin[a].user
                                   /\ token[t].state = "LIVE"
                                THEN RevokedToken ELSE token[t]]
    /\ Release(a)
    /\ UNCHANGED <<client, attempts>>

-----------------------------------------------------------------------------
(* Logins.                                                                 *)

(* Variant: nobody is turned away.                                         *)
NeverBlocked(subject) == FALSE

(* status *)
Blocked(subject) == attempts[subject] >= MaxAttempts

CheckLimit(c, subject) ==
    /\ client[c].pc = "idle"
    /\ ~Blocked(subject)
    /\ client' = [client EXCEPT ![c] = [IdleClient EXCEPT !.pc = "checked", !.user = subject[1],
                                                           !.address = subject[2]]]
    /\ UNCHANGED <<user, token, admin, userLock, roleLock, attempts>>

SubjectOf(c) == <<client[c].user, client[c].address>>

Fails(c) ==
    /\ attempts' = [attempts EXCEPT ![SubjectOf(c)] = @ + 1]
    /\ client' = [client EXCEPT ![c] = IdleClient]

(* AuthService.login: the password is right or wrong; record_failure.      *)
VerifyPassword(c) ==
    /\ client[c].pc = "checked"
    /\ \/ CanAuthenticate(client[c].user)
          /\ client' = [client EXCEPT ![c].pc = "verified"]
          /\ UNCHANGED attempts
       \/ Fails(c)
    /\ UNCHANGED <<user, token, admin, userLock, roleLock>>

NextNo(t) == token[t].state = "ABSENT" /\ \A s \in 1..(t - 1) : token[s].state # "ABSENT"

(* The next token; a login is answered and the counter reset.              *)
Created(c) ==
    \E t \in Token :
        /\ NextNo(t)
        /\ token' = [token EXCEPT ![t] = [state |-> "LIVE", user |-> client[c].user, session |-> t]]
        /\ attempts' = [attempts EXCEPT ![SubjectOf(c)] = 0]
        /\ client' = [client EXCEPT ![c] = IdleClient]

(* Variant: the user's row is not looked at again.                         *)
CreateAnyway(c) ==
    /\ client[c].pc = "verified"
    /\ Created(c)
    /\ UNCHANGED <<user, admin, userLock, roleLock>>

(* create_refresh_token, one transaction; reset, or record_failure.        *)
CreateRefreshToken(c) ==
    /\ client[c].pc = "verified" /\ userLock[client[c].user] = NoOne
    /\ IF CanAuthenticate(client[c].user) THEN Created(c) ELSE Fails(c) /\ UNCHANGED token
    /\ UNCHANGED <<user, admin, userLock, roleLock>>

(* The counter's key expires.                                              *)
WindowEnds(subject) ==
    /\ attempts[subject] > 0
    /\ attempts' = [attempts EXCEPT ![subject] = 0]
    /\ UNCHANGED <<user, token, admin, client, userLock, roleLock>>

-----------------------------------------------------------------------------
(* Refreshes and logouts.                                                  *)

(* Variant: the rows are read without a lock.                              *)
ReadToken(c, t) ==
    /\ client[c].pc = "idle"
    /\ token[t].state = "LIVE" /\ CanAuthenticate(token[t].user)
    /\ client' = [client EXCEPT ![c] = [IdleClient EXCEPT !.pc = "rotate", !.user = token[t].user,
                                                           !.token = t,
                                                           !.session = token[t].session]]
    /\ UNCHANGED <<user, token, admin, userLock, roleLock, attempts>>

(* rotate_refresh_token: the token and its user are locked and looked at.  *)
LockToken(c, t) ==
    /\ client[c].pc = "idle"
    /\ token[t].state = "LIVE" /\ CanAuthenticate(token[t].user)
    /\ userLock[token[t].user] = NoOne
    /\ userLock' = [userLock EXCEPT ![token[t].user] = c]
    /\ client' = [client EXCEPT ![c] = [IdleClient EXCEPT !.pc = "rotate", !.user = token[t].user,
                                                           !.token = t,
                                                           !.session = token[t].session]]
    /\ UNCHANGED <<user, token, admin, roleLock, attempts>>

RotateRefreshToken(c) ==
    /\ client[c].pc = "rotate"
    /\ \E t \in Token :
          /\ NextNo(t)
          /\ token' = [token EXCEPT ![t] = [state |-> "LIVE", user |-> client[c].user,
                                              session |-> client[c].session],
                                    ![client[c].token] = RevokedToken]
    /\ userLock' = [userLock EXCEPT ![client[c].user] = NoOne]
    /\ client' = [client EXCEPT ![c] = IdleClient]
    /\ UNCHANGED <<user, admin, roleLock, attempts>>

(* revoke_refresh_token *)
Logout(t) ==
    /\ token[t].state = "LIVE" /\ userLock[token[t].user] = NoOne
    /\ token' = [token EXCEPT ![t] = RevokedToken]
    /\ UNCHANGED <<user, admin, client, userLock, roleLock, attempts>>

-----------------------------------------------------------------------------

Next ==
    \/ \E u \in User :
          \/ \E isAdmin \in BOOLEAN : CreateUser(u, isAdmin)
          \/ \E a \in Admin :
                \/ \E status \in UserStatus : UpdateUser(a, u, status)
                \/ DeleteUser(a, u) \/ ResetPassword(a, u)
                \/ \E isAdmin \in BOOLEAN : ReplaceUserAccess(a, u, isAdmin)
    \/ \E a \in Admin : CountAdmins(a) \/ CommitUser(a) \/ RollBackUser(a)
    \/ \E c \in Client :
          \/ VerifyPassword(c) \/ CreateRefreshToken(c)
          \/ \E t \in Token : LockToken(c, t)
          \/ RotateRefreshToken(c)
    \/ \E t \in Token : Logout(t)
    \/ \E subject \in Subject : WindowEnds(subject) \/ \E c \in Client : CheckLimit(c, subject)

Spec == Init /\ [][Next]_vars

-----------------------------------------------------------------------------
(* Properties.                                                             *)

(* "The system forbids to delete, disable or remove the last platform      *)
(* administrator" (_protect_last_platform_admin).                          *)
AnAdminStays == ActiveAdmins # {}

(* What is left of it: disabling and deleting accounts never takes the     *)
(* last administrator away, however many requests do it at the same time;  *)
(* only taking the role from one, on a snapshot, can.                      *)
DisablingKeepsAnAdmin ==
    [][ActiveAdmins # {} /\ (\A u \in User : user[u].admin => user'[u].admin)
       => ActiveAdmins' # {}]_vars

(* "After an account is disabled, locked or deleted ... its sessions are   *)
(* revoked", also against a login or a refresh that saw it active: no      *)
(* refresh token of such an account works (_revoke_sessions,               *)
(* create_refresh_token, rotate_refresh_token).                            *)
SessionsAreOfActiveUsers ==
    \A t \in Token : token[t].state = "LIVE" => CanAuthenticate(token[t].user)

(* "The old refresh token is void at once": of the tokens of one login one *)
(* works at most, also when it is refreshed twice at the same time         *)
(* (rotate_refresh_token).                                                 *)
OneTokenPerSession ==
    \A s, t \in Token :
        token[s].state = "LIVE" /\ token[t].state = "LIVE" /\ token[s].session = token[t].session
        => s = t

(* The sessions implement the life cycle of a session: opened once, for a  *)
(* user who may log in, his until they end, ended in the step that bars    *)
(* him, never revived.  A session works while one of its tokens does       *)
(* (create_refresh_token, rotate_refresh_token, _revoke_sessions).         *)
Live == {t \in Token : token[t].state = "LIVE"}

Sessions == INSTANCE SessionLifecycle
    WITH Session <- Token,
         enabled <- {u \in User : CanAuthenticate(u)},
         used <- {t \in Token : token[t].state # "ABSENT"},
         open <- {<<token[t].session, token[t].user>> : t \in Live}

ImplementsSessions == Sessions!Spec

(* The check and the count are two calls, so logins that began together    *)
(* all get through; but no more than those, for one account from one       *)
(* address (login_rate_limit_subject, status, record_failure).             *)
FailuresAreBounded ==
    \A subject \in Subject : attempts[subject] < MaxAttempts + Cardinality(Client)

(* Why the two properties of tokens and the one of administrators hold:    *)
(* who changes a user or replaces a token holds the user's row, and who    *)
(* takes an active administrator away holds the role's row as well.        *)
Managing(a) == admin[a].pc # "idle"
IsActiveAdmin(row) == row.status = "ACTIVE" /\ ~row.deleted /\ row.admin

AdminsHoldTheirRows ==
    /\ \A a \in Admin : Managing(a) =>
          /\ admin[a].user \in User /\ userLock[admin[a].user] = a
          /\ admin[a].becomes.status # "ABSENT"
          /\ admin[a].end = "keep" =>
                admin[a].becomes.status = "ACTIVE" /\ ~admin[a].becomes.deleted
          /\ admin[a].pc = "recount" => ~admin[a].becomes.admin
          /\ admin[a].pc = "commit" /\ admin[a].user \in ActiveAdmins
                /\ ~IsActiveAdmin(admin[a].becomes) =>
                roleLock = a /\ (admin[a].becomes.admin => Several(ActiveAdmins))
    /\ \A u \in User : user[u].status = "ABSENT" => userLock[u] = NoOne /\ ~user[u].admin

RotationsHoldTheirRows ==
    \A c \in Client :
        /\ client[c].pc # "idle" => client[c].user \in User
        /\ client[c].pc = "rotate" =>
              /\ userLock[client[c].user] = c
              /\ client[c].token \in Token
              /\ token[client[c].token] = [state |-> "LIVE", user |-> client[c].user,
                                           session |-> client[c].session]

TokensAreInOrder ==
    \A t \in Token :
        /\ token[t].state = "ABSENT" => \A s \in Token : s > t => token[s].state = "ABSENT"
        /\ token[t].state = "LIVE" => token[t].user \in User /\ token[t].session <= t

IInv ==
    /\ TypeOK
    /\ AdminsHoldTheirRows /\ RotationsHoldTheirRows /\ TokensAreInOrder
    /\ SessionsAreOfActiveUsers /\ OneTokenPerSession
=============================================================================
