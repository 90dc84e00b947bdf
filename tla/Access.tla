------------------------------- MODULE Access -------------------------------
(***************************************************************************)
(* Accounts, sessions and password recovery: AccessService, UserService    *)
(* and the guards in front of every route.                                 *)
(*                                                                         *)
(* A handler that runs in accountTransaction is one step (module           *)
(* Transactions shows what the step stands for).  What the code reads      *)
(* outside a transaction and uses later is a step of its own: the          *)
(* credentials a login or a password change was checked against, and the   *)
(* account requireAuth has resolved.  Requests of several browsers, the    *)
(* clock and lost answers come in between.                                 *)
(***************************************************************************)
EXTENDS Naturals, FiniteSets

CONSTANTS
    Users,        \* usernames accounts may be created for
    Browsers,     \* cookie jars; each carries one request at a time
    Tokens,       \* random session tokens, each issued once
    Recoveries,   \* identities of recovery requests
    SessionTTL,   \* SESSION_TTL_MS, in steps of the clock
    RecoveryTTL,  \* RECOVERY_REQUEST_TTL_MS
    MaxTime,      \* bound on the clock
    MaxHash       \* bound on the passwords ever set

ASSUME AccessAssumption ==
    /\ SessionTTL \in Nat \ {0}
    /\ RecoveryTTL \in Nat \ {0}
    /\ MaxTime \in Nat
    /\ MaxHash \in Nat
    /\ "nobody" \notin Users \cup Tokens \cup Recoveries

Nobody == "nobody"

Roles == {"ADMINISTRATOR", "SELLER"}

Statuses == {"NONE", "PENDING", "APPROVED", "REJECTED", "EXPIRED", "CANCELLED"}

\* The rows of the tables and what a request carries.
UserRow == [exists : BOOLEAN, active : BOOLEAN, role : Roles, hash : 0 .. MaxHash,
            mustChange : BOOLEAN]
SessionRow == [user : Users \cup {Nobody}, expiresAt : 0 .. MaxTime + SessionTTL,
               cred : 0 .. MaxHash]
RecoveryRow == [user : Users \cup {Nobody}, status : Statuses,
                expiresAt : 0 .. MaxTime + RecoveryTTL, cred : 0 .. MaxHash]
RequestRow == [step : {"none", "login", "session", "authenticated", "profile"},
               user : Users \cup {Nobody}, token : Tokens \cup {Nobody},
               hash : 0 .. MaxHash, admin : BOOLEAN, restricted : BOOLEAN]

VARIABLES
    users,       \* table "User"; a password is known by the number of its hash
    sessions,    \* table "Session"
    recoveries,  \* table "PasswordRecoveryRequest"
    told,        \* what the events of table "HistoryEvent" say of accounts and recoveries
    cookie,      \* the sid each browser holds
    request,     \* what the request of each browser has read so far
    lastHash,    \* the last password hash computed
    now

accessVars == <<users, sessions, recoveries, told, cookie, request, lastHash, now>>

NoUser == [exists |-> FALSE, active |-> FALSE, role |-> "SELLER", hash |-> 0,
           mustChange |-> FALSE]
NoSession == [user |-> Nobody, expiresAt |-> 0, cred |-> 0]
NoRecovery == [user |-> Nobody, status |-> "NONE", expiresAt |-> 0, cred |-> 0]
NoRequest == [step |-> "none", user |-> Nobody, token |-> Nobody, hash |-> 0,
              admin |-> FALSE, restricted |-> FALSE]

AccessInit ==
    /\ users = [u \in Users |-> NoUser]
    /\ sessions = [t \in Tokens |-> NoSession]
    /\ recoveries = [r \in Recoveries |-> NoRecovery]
    /\ told = [account |-> [u \in Users |-> [role |-> "SELLER", active |-> FALSE]],
               recovery |-> [r \in Recoveries |-> "NONE"]]
    /\ cookie = [b \in Browsers |-> Nobody]
    /\ request = [b \in Browsers |-> NoRequest]
    /\ lastHash = 0
    /\ now = 0

-----------------------------------------------------------------------------
(* Rules *)

\* assertAdministrator, on the row read inside the transaction.
Administrator(u) ==
    /\ u \in Users
    /\ users[u].active
    /\ ~users[u].mustChange
    /\ users[u].role = "ADMINISTRATOR"

ActiveAdministrators == {u \in Users : users[u].active /\ users[u].role = "ADMINISTRATOR"}

Pending(r) == recoveries[r].status = "PENDING"

\* The session table without the sessions of u.
RevokeAll(u) ==
    [t \in Tokens |-> IF sessions[t].user = u THEN NoSession ELSE sessions[t]]

Revoke(token) == [t \in Tokens |-> IF t = token THEN NoSession ELSE sessions[t]]

\* Every recovery of the set R moves to a status, and an event says so.
Settle(R, status) ==
    [r \in Recoveries |->
        IF r \in R THEN [user |-> recoveries[r].user, status |-> status,
                        expiresAt |-> recoveries[r].expiresAt, cred |-> recoveries[r].cred]
                   ELSE recoveries[r]]

TellSettled(R, status) ==
    [r \in Recoveries |-> IF r \in R THEN status ELSE told.recovery[r]]

PendingOf(u) == {r \in Recoveries : Pending(r) /\ recoveries[r].user = u}

\* The pending requests past their time, of u.
Overdue(u) == {r \in PendingOf(u) : recoveries[r].expiresAt <= now}

\* appendProfileChange and the events of update: only what really changed is told.
TellAccount(u, role, active) == [told.account EXCEPT ![u] = [role |-> role, active |-> active]]

\* The row of an account with another password.
WithPassword(row, hash, mustChange) ==
    [exists |-> row.exists, active |-> row.active, role |-> row.role,
     hash |-> hash, mustChange |-> mustChange]

\* What a request has read: of its cookie, of its account and, later, of the password.
Reading(step, u, token, hash) ==
    [step |-> step, user |-> u, token |-> token, hash |-> hash,
     admin |-> FALSE, restricted |-> FALSE]

\* The request of b ends.
Done(b) == request' = [request EXCEPT ![b] = NoRequest]

\* The answer sets the cookie of b, unless it is lost on the way.
SetCookie(b, value) ==
    \E delivered \in BOOLEAN : cookie' = IF delivered THEN [cookie EXCEPT ![b] = value] ELSE cookie

-----------------------------------------------------------------------------
(* Accounts come into being *)

\* bootstrapAdministrator: on an empty table only, from the command line.
Bootstrap(u) ==
    /\ \A v \in Users : ~users[v].exists
    /\ lastHash < MaxHash
    /\ lastHash' = lastHash + 1
    /\ users' = [users EXCEPT ![u] = [exists |-> TRUE, active |-> TRUE,
                    role |-> "ADMINISTRATOR", hash |-> lastHash + 1, mustChange |-> FALSE]]
    /\ told' = [account |-> TellAccount(u, "ADMINISTRATOR", TRUE), recovery |-> told.recovery]
    /\ UNCHANGED <<sessions, recoveries, cookie, request, now>>

-----------------------------------------------------------------------------
(* Login and logout *)

\* login reads the account and verifies the password outside any transaction.
LoginRead(b, u) ==
    /\ request[b].step = "none"
    /\ users[u].exists
    /\ users[u].active
    /\ request' = [request EXCEPT ![b] = Reading("login", u, cookie[b], users[u].hash)]
    /\ UNCHANGED <<users, sessions, recoveries, told, cookie, lastHash, now>>

\* What a transaction reads again of the account a request was verified against.
StillVerified(b) ==
    LET u == request[b].user IN users[u].active /\ users[u].hash = request[b].hash

\* rotateSession: the previous sid goes, a new one is issued.
LoginCommit(b) ==
    /\ request[b].step = "login"
    /\ StillVerified(b)
    /\ \E t \in {x \in Tokens : \A c \in Browsers : cookie[c] # x /\ request[c].token # x} :
         /\ sessions[t] = NoSession
         /\ sessions' = [Revoke(request[b].token) EXCEPT
                           ![t] = [user |-> request[b].user, expiresAt |-> now + SessionTTL,
                                   cred |-> request[b].hash]]
         /\ SetCookie(b, t)
    /\ Done(b)
    /\ UNCHANGED <<users, recoveries, told, lastHash, now>>

\* The transaction finds the account changed; or the process dies under any request.
Abandoned(b) ==
    /\ request[b].step # "none"
    /\ Done(b)
    /\ UNCHANGED <<users, sessions, recoveries, told, cookie, lastHash, now>>

\* logout needs no session: it deletes the row of its cookie, if it is there.
Logout(b) ==
    /\ request[b].step = "none"
    /\ cookie[b] # Nobody
    /\ sessions' = Revoke(cookie[b])
    /\ SetCookie(b, Nobody)
    /\ UNCHANGED <<users, recoveries, told, request, lastHash, now>>

-----------------------------------------------------------------------------
(* requireAuth *)

\* The session is read by its token.
ResolveSession(b) ==
    /\ request[b].step = "none"
    /\ cookie[b] # Nobody
    /\ sessions[cookie[b]] # NoSession
    /\ sessions[cookie[b]].expiresAt > now
    /\ request' = [request EXCEPT ![b] =
                     Reading("session", sessions[cookie[b]].user, cookie[b], 0)]
    /\ UNCHANGED <<users, sessions, recoveries, told, cookie, lastHash, now>>

\* Then its account: an inactive one loses the session, an active one becomes req.auth.
ResolveUser(b) ==
    /\ request[b].step = "session"
    /\ LET u == users[request[b].user] IN
         \/ /\ ~u.active
            /\ sessions' = Revoke(request[b].token)
            /\ Done(b)
         \/ /\ u.active
            /\ request' = [request EXCEPT ![b] = 
                   [step |-> "authenticated", user |-> @.user, token |-> @.token, hash |-> 0,
                    admin |-> u.role = "ADMINISTRATOR", restricted |-> u.mustChange]]
            /\ UNCHANGED sessions
    /\ UNCHANGED <<users, recoveries, told, cookie, lastHash, now>>

\* requireAuth and requireAdministrator have let the request of b through.
AtAdminRoute(b) ==
    /\ request[b].step = "authenticated"
    /\ request[b].admin
    /\ ~request[b].restricted

-----------------------------------------------------------------------------
(* Administration: the rules are read again inside the transaction *)

CreateUser(b, u, role) ==
    /\ AtAdminRoute(b)
    /\ Administrator(request[b].user)
    /\ ~users[u].exists                     \* username is unique
    /\ lastHash < MaxHash
    /\ lastHash' = lastHash + 1
    /\ users' = [users EXCEPT ![u] = [exists |-> TRUE, active |-> TRUE, role |-> role,
                                      hash |-> lastHash + 1, mustChange |-> TRUE]]
    /\ told' = [account |-> TellAccount(u, role, TRUE), recovery |-> told.recovery]
    /\ Done(b)
    /\ UNCHANGED <<sessions, recoveries, cookie, now>>

\* The rules are those of the moment the request was let through: the actor is not read
\* again, and the administrators are not counted.
MayUpdateAsLetThrough(actor, u, active, role) ==
    ~(u = actor /\ (~active \/ role # "ADMINISTRATOR"))

\* Only the count is taken inside the transaction.
MayUpdateByCount(actor, u, active, role) ==
    LET removes == ~active \/ role # "ADMINISTRATOR" IN
    /\ ~(u = actor /\ removes)
    /\ ~(u \in ActiveAdministrators /\ removes /\ Cardinality(ActiveAdministrators) <= 1)

\* Whether the actor may take the target's administration away.
MayUpdate(actor, u, active, role) ==
    LET removes == ~active \/ role # "ADMINISTRATOR" IN
    /\ Administrator(actor)
    /\ ~(u = actor /\ removes)
    /\ ~(u \in ActiveAdministrators /\ removes /\ Cardinality(ActiveAdministrators) <= 1)

\* update, with the role and the activity the row will have; an account that is sent
\* active = false is cut off whether or not it was active.
UpdateUser(b, u, active, role) ==
    /\ AtAdminRoute(b)
    /\ users[u].exists
    /\ MayUpdate(request[b].user, u, active, role)
    /\ users' = [users EXCEPT ![u] = [exists |-> TRUE, active |-> active, role |-> role,
                                      hash |-> @.hash, mustChange |-> @.mustChange]]
    /\ IF active
       THEN /\ UNCHANGED <<sessions, recoveries>>
            /\ told' = [account |-> TellAccount(u, role, active), recovery |-> told.recovery]
       ELSE /\ sessions' = RevokeAll(u)
            /\ recoveries' = Settle(PendingOf(u), "CANCELLED")
            /\ told' = [account |-> TellAccount(u, role, active),
                        recovery |-> TellSettled(PendingOf(u), "CANCELLED")]
    /\ Done(b)
    /\ UNCHANGED <<cookie, lastHash, now>>

-----------------------------------------------------------------------------
(* Password recovery *)

\* requestRecovery: anonymous, answered the same whatever it finds.
RequestRecovery(u) ==
    /\ users[u].active
    /\ LET overdue == Overdue(u) IN
       \E r \in {x \in Recoveries : recoveries[x] = NoRecovery} \cup {Nobody} :
         /\ (r = Nobody) = (PendingOf(u) \ overdue # {})
         /\ recoveries' = [x \in Recoveries |->
              IF x = r THEN [user |-> u, status |-> "PENDING",
                             expiresAt |-> now + RecoveryTTL, cred |-> users[u].hash]
                       ELSE Settle(overdue, "EXPIRED")[x]]
         /\ told' = [account |-> told.account,
                     recovery |-> [x \in Recoveries |->
                        IF x = r THEN "PENDING" ELSE TellSettled(overdue, "EXPIRED")[x]]]
    /\ UNCHANGED <<users, sessions, cookie, request, lastHash, now>>

\* listRecoveries expires whatever is overdue, of anyone.
ListRecoveries(b) ==
    /\ AtAdminRoute(b)
    /\ Administrator(request[b].user)
    /\ LET overdue == UNION {Overdue(u) : u \in Users} IN
         /\ recoveries' = Settle(overdue, "EXPIRED")
         /\ told' = [account |-> told.account, recovery |-> TellSettled(overdue, "EXPIRED")]
    /\ Done(b)
    /\ UNCHANGED <<users, sessions, cookie, lastHash, now>>

\* What resolveRecovery requires of the request and its owner.
MayResolve(actor, r) ==
    /\ Administrator(actor)
    /\ recoveries[r] # NoRecovery
    /\ recoveries[r].user # actor
    /\ Pending(r)
    /\ recoveries[r].expiresAt > now
    /\ users[recoveries[r].user].active

ApproveRecovery(b, r) ==
    LET u == recoveries[r].user IN
    /\ AtAdminRoute(b)
    /\ MayResolve(request[b].user, r)
    /\ lastHash < MaxHash
    /\ lastHash' = lastHash + 1
    /\ users' = [users EXCEPT ![u] = WithPassword(@, lastHash + 1, TRUE)]
    /\ sessions' = RevokeAll(u)
    /\ recoveries' = Settle({r}, "APPROVED")
    /\ told' = [account |-> told.account, recovery |-> TellSettled({r}, "APPROVED")]
    /\ Done(b)
    /\ UNCHANGED <<cookie, now>>

RejectRecovery(b, r) ==
    /\ AtAdminRoute(b)
    /\ MayResolve(request[b].user, r)
    /\ recoveries' = Settle({r}, "REJECTED")
    /\ told' = [account |-> told.account, recovery |-> TellSettled({r}, "REJECTED")]
    /\ Done(b)
    /\ UNCHANGED <<users, sessions, cookie, lastHash, now>>

-----------------------------------------------------------------------------
(* The own password *)

\* updateOwnProfile reads the account and verifies the current password first.
ProfileRead(b) ==
    /\ request[b].step = "authenticated"
    /\ users[request[b].user].active
    /\ request' = [request EXCEPT ![b] = 
         [step |-> "profile", user |-> @.user, token |-> @.token,
          hash |-> users[@.user].hash, admin |-> @.admin, restricted |-> @.restricted]]
    /\ UNCHANGED <<users, sessions, recoveries, told, cookie, lastHash, now>>

\* A new password leaves the recovery requests of the account alone.
ChangePasswordOnly(b) ==
    LET u == request[b].user IN
    /\ request[b].step = "profile"
    /\ StillVerified(b)
    /\ lastHash < MaxHash
    /\ lastHash' = lastHash + 1
    /\ users' = [users EXCEPT ![u] = WithPassword(@, lastHash + 1, FALSE)]
    /\ sessions' = RevokeAll(u)
    /\ SetCookie(b, Nobody)
    /\ Done(b)
    /\ UNCHANGED <<recoveries, told, now>>

\* Then everything at once: the password, the flag, the sessions, the requests.
ChangePassword(b) ==
    LET u == request[b].user IN
    /\ request[b].step = "profile"
    /\ StillVerified(b)
    /\ lastHash < MaxHash
    /\ lastHash' = lastHash + 1
    /\ users' = [users EXCEPT ![u] = WithPassword(@, lastHash + 1, FALSE)]
    /\ sessions' = RevokeAll(u)
    /\ recoveries' = Settle(PendingOf(u), "CANCELLED")
    /\ told' = [account |-> told.account, recovery |-> TellSettled(PendingOf(u), "CANCELLED")]
    /\ SetCookie(b, Nobody)
    /\ Done(b)
    /\ UNCHANGED now

Tick ==
    /\ now < MaxTime
    /\ now' = now + 1
    /\ UNCHANGED <<users, sessions, recoveries, told, cookie, request, lastHash>>

Administration(b) ==
    \/ \E u \in Users, role \in Roles : CreateUser(b, u, role)
    \/ \E u \in Users, active \in BOOLEAN, role \in Roles : UpdateUser(b, u, active, role)
    \/ ListRecoveries(b)
    \/ \E r \in Recoveries : ApproveRecovery(b, r) \/ RejectRecovery(b, r)

AccessNext ==
    \/ \E u \in Users : Bootstrap(u) \/ RequestRecovery(u)
    \/ \E b \in Browsers, u \in Users : LoginRead(b, u)
    \/ \E b \in Browsers :
         \/ LoginCommit(b) \/ Abandoned(b) \/ Logout(b)
         \/ ResolveSession(b) \/ ResolveUser(b)
         \/ ProfileRead(b) \/ ChangePassword(b)
         \/ Administration(b)
    \/ Tick

AccessSpec == AccessInit /\ [][AccessNext]_accessVars

-----------------------------------------------------------------------------
(* Properties *)

\* Every variable has the type of its table.
AccessTypeOK ==
    /\ users \in [Users -> UserRow]
    /\ sessions \in [Tokens -> SessionRow]
    /\ recoveries \in [Recoveries -> RecoveryRow]
    /\ told \in [account : [Users -> [role : Roles, active : BOOLEAN]],
                recovery : [Recoveries -> Statuses]]
    /\ cookie \in [Browsers -> Tokens \cup {Nobody}]
    /\ request \in [Browsers -> RequestRow]
    /\ lastHash \in 0 .. MaxHash
    /\ now \in 0 .. MaxTime

\* A session in the table opens the account it was issued for only under the password
\* that is in force: no login that was checked against an older password, or before a
\* deactivation, leaves a session behind, and no change of password or deactivation
\* leaves one standing.
SessionsOfCurrentCredentials ==
    \A t \in Tokens : sessions[t] # NoSession =>
        LET u == users[sessions[t].user] IN u.active /\ sessions[t].cred = u.hash

\* Once there are accounts, one active administrator is left, however administrators
\* deactivate and demote each other with requests let through before.
AnAdministratorRemains ==
    (\E u \in Users : users[u].exists) => ActiveAdministrators # {}

\* A pending recovery is the only one of its account, which is active and still has the
\* password it was asked for: approving it can neither reopen a deactivated account nor
\* overwrite a password chosen since.
PendingRecoveryIsCurrent ==
    \A r \in Recoveries : Pending(r) =>
        LET u == recoveries[r].user IN
        /\ PendingOf(u) = {r}
        /\ users[u].active
        /\ recoveries[r].cred = users[u].hash

\* The role and the activity of an existing account change only by a request of another
\* account that is active, unrestricted and administrator at that very moment; having
\* been one when the request was let through is not enough.
AuthorityIsCurrentAndAnothers ==
    [][\A u \in Users :
         (users[u].exists /\ <<users'[u].role, users'[u].active>> # <<users[u].role, users[u].active>>)
           => \E b \in Browsers : /\ request[b].step = "authenticated"
                                  /\ request'[b] = NoRequest
                                  /\ request[b].user # u
                                  /\ Administrator(request[b].user)]_accessVars

\* A temporary password is got rid of only by its owner, with a session opened under it,
\* and everything opened under it goes with it; a recovery that was settled stays so.
RestrictionAndRecoveryFinal ==
    [][/\ \A u \in Users : (users[u].mustChange /\ ~users'[u].mustChange) =>
            /\ \E b \in Browsers : request[b].user = u /\ request[b].hash = users[u].hash
            /\ \A t \in Tokens : sessions'[t].user # u
       /\ \A r \in Recoveries : recoveries[r].status \notin {"NONE", "PENDING"} =>
            recoveries'[r] = recoveries[r]]_accessVars

\* The events, replayed, give the role, the activity and the recoveries the tables have
\* (docs/FEATURES/01_ACCESS_AND_USERS.md:63: all events append inside the transaction).
HistoryTellsTheAccounts ==
    /\ \A u \in Users : users[u].exists =>
         told.account[u] = [role |-> users[u].role, active |-> users[u].active]
    /\ \A r \in Recoveries : told.recovery[r] = recoveries[r].status

\* Everything that opens an account, a session or a recovery, is of the password and the
\* activity it has now.
CredentialsAreCurrent == AccessTypeOK /\ SessionsOfCurrentCredentials /\ PendingRecoveryIsCurrent

\* An account changes only by who may change it at that moment, for good, and on record.
AccountsChangeByRight ==
    AuthorityIsCurrentAndAnothers /\ RestrictionAndRecoveryFinal /\ []HistoryTellsTheAccounts
=============================================================================
