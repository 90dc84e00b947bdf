---------------------------- MODULE AccessProofs ----------------------------
(***************************************************************************)
(* Theorems about Access, for every set of accounts, browsers, tokens and  *)
(* recovery requests, every time to live and every bound on the clock and  *)
(* on the passwords.                                                       *)
(*                                                                         *)
(* The properties need each other: that a session is of the password in    *)
(* force rests on the account behind it being there, which rests on what   *)
(* the requests under way carry.  They are proved as one invariant, with   *)
(* one step per handler; the first part gathers what the steps have in     *)
(* common: rows of the right type, tables cut by an account or a token.    *)
(*                                                                         *)
(* The last part is about Transactions, on whose wrapper the handlers of   *)
(* Access and of every other module rely: its steps (transaction.ts)       *)
(* amount to one atomic step of AtomicRequests, and the rule that protects *)
(* the last administrator survives any interleaving.                       *)
(***************************************************************************)
EXTENDS Access, Transactions, TLAPS

\* Rows that are in use belong to accounts, and an account that is not there is blank.
RowsHaveOwners ==
    /\ \A u \in Users : ~users[u].exists => users[u] = NoUser
    /\ \A t \in Tokens : sessions[t] # NoSession => sessions[t].user \in Users
    /\ \A r \in Recoveries : recoveries[r].status # "NONE" => recoveries[r].user \in Users
    /\ \A b \in Browsers : request[b].step # "none" => request[b].user \in Users

AccessInv ==
    /\ AccessTypeOK
    /\ RowsHaveOwners
    /\ SessionsOfCurrentCredentials
    /\ PendingRecoveryIsCurrent
    /\ AnAdministratorRemains
    /\ HistoryTellsTheAccounts

-----------------------------------------------------------------------------
(* Tables *)

\* A session table cut by an account or by a token is a session table.
LEMMA RevokeType ==
    ASSUME AccessTypeOK, NEW x
    PROVE  /\ RevokeAll(x) \in [Tokens -> SessionRow]
           /\ Revoke(x) \in [Tokens -> SessionRow]
<1>1. NoSession \in SessionRow
  BY AccessAssumption DEF NoSession, SessionRow
<1>2. sessions \in [Tokens -> SessionRow]
  BY DEF AccessTypeOK
<1> QED
  BY <1>1, <1>2 DEF RevokeAll, Revoke

\* Settling recoveries changes their status and nothing else (Settle, TellSettled).
LEMMA SettleType ==
    ASSUME AccessTypeOK, NEW R, NEW status \in Statuses
    PROVE  /\ Settle(R, status) \in [Recoveries -> RecoveryRow]
           /\ TellSettled(R, status) \in [Recoveries -> Statuses]
           /\ \A r \in Recoveries : r \notin R =>
                /\ Settle(R, status)[r] = recoveries[r]
                /\ TellSettled(R, status)[r] = told.recovery[r]
           /\ \A r \in Recoveries : r \in R =>
                /\ Settle(R, status)[r].status = status
                /\ Settle(R, status)[r].user = recoveries[r].user
                /\ Settle(R, status)[r].cred = recoveries[r].cred
                /\ TellSettled(R, status)[r] = status
<1>1. /\ recoveries \in [Recoveries -> RecoveryRow]
      /\ told.recovery \in [Recoveries -> Statuses]
  BY DEF AccessTypeOK
<1> DEFINE settled(r) == [user |-> recoveries[r].user, status |-> status,
                          expiresAt |-> recoveries[r].expiresAt, cred |-> recoveries[r].cred]
<1>2. ASSUME NEW r \in Recoveries
      PROVE  /\ settled(r) \in RecoveryRow
             /\ settled(r).status = status
             /\ settled(r).user = recoveries[r].user
             /\ settled(r).cred = recoveries[r].cred
  BY <1>1 DEF RecoveryRow
<1>3. Settle(R, status) = [r \in Recoveries |-> IF r \in R THEN settled(r) ELSE recoveries[r]]
  BY DEF Settle
<1> HIDE DEF settled
<1>4. Settle(R, status) \in [Recoveries -> RecoveryRow]
  BY <1>1, <1>2, <1>3
<1>5. TellSettled(R, status) \in [Recoveries -> Statuses]
  BY <1>1 DEF TellSettled
<1>6. \A r \in Recoveries : r \notin R =>
        /\ Settle(R, status)[r] = recoveries[r]
        /\ TellSettled(R, status)[r] = told.recovery[r]
  BY <1>3 DEF TellSettled
<1>7. \A r \in Recoveries : r \in R =>
        /\ Settle(R, status)[r] = settled(r)
        /\ TellSettled(R, status)[r] = status
  BY <1>3 DEF TellSettled
<1> QED
  BY <1>2, <1>4, <1>5, <1>6, <1>7

\* The request of a browser ends (Done), or carries on with another row.
LEMMA RequestType ==
    ASSUME AccessTypeOK, RowsHaveOwners, NEW b \in Browsers, NEW e \in RequestRow,
           e.step # "none" => e.user \in Users,
           request' = [request EXCEPT ![b] = e]
    PROVE  /\ request' \in [Browsers -> RequestRow]
           /\ \A c \in Browsers : request'[c].step # "none" => request'[c].user \in Users
<1>1. request \in [Browsers -> RequestRow]
  BY DEF AccessTypeOK
<1>2. \A c \in Browsers : request[c].step # "none" => request[c].user \in Users
  BY DEF RowsHaveOwners
<1> QED
  BY <1>1, <1>2

\* The request of a browser is answered.
LEMMA DoneType ==
    ASSUME AccessTypeOK, RowsHaveOwners, NEW b \in Browsers, Done(b)
    PROVE  /\ request' \in [Browsers -> RequestRow]
           /\ \A c \in Browsers : request'[c].step # "none" => request'[c].user \in Users
<1>1. NoRequest \in RequestRow /\ NoRequest.step = "none"
  BY AccessAssumption DEF NoRequest, RequestRow
<1> QED
  BY <1>1, RequestType DEF Done

\* A cookie is a token or none (SetCookie).
LEMMA CookieType ==
    ASSUME AccessTypeOK, NEW b \in Browsers, NEW t \in Tokens \cup {Nobody}, SetCookie(b, t)
    PROVE  cookie' \in [Browsers -> Tokens \cup {Nobody}]
BY DEF AccessTypeOK, SetCookie

\* A row of an account in use, written whole.
LEMMA UserType ==
    ASSUME AccessTypeOK, NEW u \in Users, NEW row \in UserRow, users' = [users EXCEPT ![u] = row]
    PROVE  /\ users' \in [Users -> UserRow]
           /\ users'[u] = row
           /\ \A v \in Users : v # u => users'[v] = users[v]
BY DEF AccessTypeOK

\* An event about an account keeps the others (TellAccount).
LEMMA TellType ==
    ASSUME AccessTypeOK, NEW u \in Users, NEW role \in Roles, NEW active \in BOOLEAN
    PROVE  /\ TellAccount(u, role, active) \in [Users -> [role : Roles, active : BOOLEAN]]
           /\ TellAccount(u, role, active)[u] = [role |-> role, active |-> active]
           /\ \A v \in Users : v # u => TellAccount(u, role, active)[v] = told.account[v]
<1>1. told.account \in [Users -> [role : Roles, active : BOOLEAN]]
  BY DEF AccessTypeOK
<1>2. [role |-> role, active |-> active] \in [role : Roles, active : BOOLEAN]
  OBVIOUS
<1> QED
  BY <1>1, <1>2 DEF TellAccount

-----------------------------------------------------------------------------
(* The five things a handler does to the tables *)

\* A request goes on or ends, sessions may go: nothing that is left is less current.
LEMMA SessionsCut ==
    ASSUME AccessInv, AccessTypeOK', UNCHANGED <<users, recoveries, told>>,
           \A b \in Browsers : request'[b].step # "none" => request'[b].user \in Users,
           \A t \in Tokens : sessions'[t] \in {sessions[t], NoSession}
    PROVE  AccessInv'
<1>1. RowsHaveOwners'
  BY DEF AccessInv, RowsHaveOwners
<1>2. SessionsOfCurrentCredentials'
  <2> SUFFICES ASSUME NEW t \in Tokens, sessions'[t] # NoSession
               PROVE  /\ users'[sessions'[t].user].active
                      /\ sessions'[t].cred = users'[sessions'[t].user].hash
    BY DEF SessionsOfCurrentCredentials
  <2>1. sessions'[t] = sessions[t] /\ users' = users
    OBVIOUS
  <2> QED
    BY <2>1 DEF AccessInv, SessionsOfCurrentCredentials
<1>3. PendingRecoveryIsCurrent'
  BY DEF AccessInv, PendingRecoveryIsCurrent, Pending, PendingOf
<1>4. AnAdministratorRemains' /\ HistoryTellsTheAccounts'
  BY DEF AccessInv, AnAdministratorRemains, ActiveAdministrators, HistoryTellsTheAccounts
<1> QED
  BY <1>1, <1>2, <1>3, <1>4 DEF AccessInv

\* The recoveries of R are settled and the events say so.
Settles(R, status) ==
    /\ recoveries' = Settle(R, status)
    /\ told' = [account |-> told.account, recovery |-> TellSettled(R, status)]

\* Settled recoveries are still owned, and the events agree with them.
LEMMA SettledAreOwned ==
    ASSUME AccessInv, NEW R \in SUBSET Recoveries, NEW status \in Statuses,
           \A r \in R : recoveries[r].status # "NONE"
    PROVE  \A r \in Recoveries :
             /\ Settle(R, status)[r].status # "NONE" => Settle(R, status)[r].user \in Users
             /\ TellSettled(R, status)[r] = Settle(R, status)[r].status
<1> SUFFICES ASSUME NEW r \in Recoveries
             PROVE  /\ Settle(R, status)[r].status # "NONE" => Settle(R, status)[r].user \in Users
                    /\ TellSettled(R, status)[r] = Settle(R, status)[r].status
  OBVIOUS
<1>0. AccessTypeOK /\ RowsHaveOwners /\ HistoryTellsTheAccounts
  BY DEF AccessInv
<1>1. CASE r \in R
  <2>1. /\ Settle(R, status)[r].status = status
        /\ Settle(R, status)[r].user = recoveries[r].user
        /\ TellSettled(R, status)[r] = status
    BY <1>0, <1>1, SettleType
  <2>2. recoveries[r].user \in Users
    BY <1>0, <1>1 DEF RowsHaveOwners
  <2> QED
    BY <2>1, <2>2
<1>2. CASE r \notin R
  <2>1. Settle(R, status)[r] = recoveries[r] /\ TellSettled(R, status)[r] = told.recovery[r]
    BY <1>0, <1>2, SettleType
  <2> QED
    BY <1>0, <2>1 DEF RowsHaveOwners, HistoryTellsTheAccounts
<1> QED
  BY <1>1, <1>2

\* Settling recoveries leaves the pending ones it does not touch alone.
LEMMA RecoveriesSettled ==
    ASSUME AccessInv, AccessTypeOK', UNCHANGED <<users, sessions>>,
           NEW R \in SUBSET Recoveries, NEW status \in Statuses \ {"NONE", "PENDING"},
           \A r \in R : recoveries[r].status # "NONE",
           \A b \in Browsers : request'[b].step # "none" => request'[b].user \in Users,
           Settles(R, status)
    PROVE  AccessInv'
<1>0. AccessTypeOK /\ RowsHaveOwners /\ SessionsOfCurrentCredentials /\ PendingRecoveryIsCurrent
      /\ AnAdministratorRemains /\ HistoryTellsTheAccounts
  BY DEF AccessInv
<1>1. /\ recoveries' = Settle(R, status)
      /\ told'.account = told.account
      /\ told'.recovery = TellSettled(R, status)
  BY DEF Settles
<1>2. \A r \in Recoveries :
        /\ recoveries'[r].status # "NONE" => recoveries'[r].user \in Users
        /\ told'.recovery[r] = recoveries'[r].status
  BY <1>1, SettledAreOwned
<1>3. RowsHaveOwners'
  BY <1>0, <1>2 DEF RowsHaveOwners
<1>4. \A r \in Recoveries : recoveries'[r].status = "PENDING"
        => recoveries'[r] = recoveries[r] /\ r \notin R
  BY <1>0, <1>1, SettleType
<1>5. PendingRecoveryIsCurrent'
  <2> SUFFICES ASSUME NEW r \in Recoveries, recoveries'[r].status = "PENDING"
               PROVE  /\ PendingOf(recoveries[r].user)' = {r}
                      /\ users'[recoveries'[r].user].active
                      /\ recoveries'[r].cred = users'[recoveries'[r].user].hash
    BY DEF PendingRecoveryIsCurrent, Pending
  <2>1. recoveries'[r] = recoveries[r] /\ recoveries[r].status = "PENDING"
    BY <1>4
  <2>2. /\ PendingOf(recoveries[r].user) = {r}
        /\ users[recoveries[r].user].active
        /\ recoveries[r].cred = users[recoveries[r].user].hash
    BY <1>0, <2>1 DEF PendingRecoveryIsCurrent, Pending
  <2>3. PendingOf(recoveries[r].user)' = {r}
    <3>1. ASSUME NEW x \in Recoveries, recoveries'[x].status = "PENDING",
                 recoveries'[x].user = recoveries[r].user
          PROVE  x = r
      BY <1>4, <2>2, <3>1 DEF PendingOf, Pending
    <3> QED
      BY <2>1, <3>1 DEF PendingOf, Pending
  <2> QED
    BY <2>1, <2>2, <2>3
<1>6. HistoryTellsTheAccounts'
  BY <1>0, <1>1, <1>2 DEF HistoryTellsTheAccounts
<1>7. SessionsOfCurrentCredentials' /\ AnAdministratorRemains'
  BY <1>0 DEF SessionsOfCurrentCredentials, AnAdministratorRemains, ActiveAdministrators
<1> QED
  BY <1>3, <1>5, <1>6, <1>7 DEF AccessInv

\* An account that comes into being disturbs nothing: nobody has a session or a pending
\* recovery of an account that is not there.
LEMMA AccountCreated ==
    ASSUME AccessInv, AccessTypeOK', UNCHANGED <<sessions, recoveries>>,
           NEW u \in Users, NEW role \in Roles, NEW mustChange \in BOOLEAN,
           ~users[u].exists, lastHash < MaxHash,
           users' = [users EXCEPT ![u] = [exists |-> TRUE, active |-> TRUE, role |-> role,
                                          hash |-> lastHash + 1, mustChange |-> mustChange]],
           told' = [account |-> TellAccount(u, role, TRUE), recovery |-> told.recovery],
           role = "ADMINISTRATOR" \/ ActiveAdministrators # {},
           \A b \in Browsers : request'[b].step # "none" => request'[b].user \in Users
    PROVE  AccessInv'
<1> DEFINE row == [exists |-> TRUE, active |-> TRUE, role |-> role,
                   hash |-> lastHash + 1, mustChange |-> mustChange]
<1>0. AccessTypeOK /\ RowsHaveOwners /\ SessionsOfCurrentCredentials /\ PendingRecoveryIsCurrent
      /\ AnAdministratorRemains /\ HistoryTellsTheAccounts
  BY DEF AccessInv
<1>1. row \in UserRow
  BY <1>0, AccessAssumption DEF UserRow, AccessTypeOK
<1>2. /\ users'[u] = row
      /\ \A v \in Users : v # u => users'[v] = users[v]
  <2> HIDE DEF row
  <2>1. users' = [users EXCEPT ![u] = row]
    BY DEF row
  <2> QED
    BY <1>0, <1>1, <2>1, UserType
<1>3. row.exists /\ row.active /\ row.role = role
  OBVIOUS
<1>4. ~users[u].active
  BY <1>0 DEF RowsHaveOwners, NoUser
<1>5. /\ told'.account = TellAccount(u, role, TRUE)
      /\ told'.recovery = told.recovery
  OBVIOUS
<1>6. /\ told'.account[u] = [role |-> role, active |-> TRUE]
      /\ \A v \in Users : v # u => told'.account[v] = told.account[v]
  BY <1>0, <1>5, TellType
<1> HIDE DEF row
<1>7. RowsHaveOwners'
  BY <1>0, <1>2, <1>3 DEF RowsHaveOwners
<1>8. SessionsOfCurrentCredentials'
  <2> SUFFICES ASSUME NEW t \in Tokens, sessions[t] # NoSession
               PROVE  /\ users'[sessions[t].user].active
                      /\ sessions[t].cred = users'[sessions[t].user].hash
    BY DEF SessionsOfCurrentCredentials
  <2>1. /\ sessions[t].user \in Users
        /\ users[sessions[t].user].active
        /\ sessions[t].cred = users[sessions[t].user].hash
    BY <1>0 DEF RowsHaveOwners, SessionsOfCurrentCredentials
  <2> QED
    BY <1>2, <1>4, <2>1
<1>9. PendingRecoveryIsCurrent'
  <2> SUFFICES ASSUME NEW r \in Recoveries, recoveries[r].status = "PENDING"
               PROVE  /\ PendingOf(recoveries[r].user)' = {r}
                      /\ users'[recoveries[r].user].active
                      /\ recoveries[r].cred = users'[recoveries[r].user].hash
    BY DEF PendingRecoveryIsCurrent, Pending
  <2>1. /\ recoveries[r].user \in Users
        /\ PendingOf(recoveries[r].user) = {r}
        /\ users[recoveries[r].user].active
        /\ recoveries[r].cred = users[recoveries[r].user].hash
    BY <1>0 DEF RowsHaveOwners, PendingRecoveryIsCurrent, Pending
  <2>2. PendingOf(recoveries[r].user)' = PendingOf(recoveries[r].user)
    BY DEF PendingOf, Pending
  <2> QED
    BY <1>2, <1>4, <2>1, <2>2
<1>10. AnAdministratorRemains'
  <2>1. CASE role = "ADMINISTRATOR"
    BY <1>2, <1>3, <2>1 DEF AnAdministratorRemains, ActiveAdministrators
  <2>2. ASSUME NEW v \in ActiveAdministrators
        PROVE  v \in ActiveAdministrators'
    BY <1>2, <1>4, <2>2 DEF ActiveAdministrators
  <2> QED
    BY <2>1, <2>2 DEF AnAdministratorRemains
<1>11. HistoryTellsTheAccounts'
  <2>1. ASSUME NEW v \in Users, users'[v].exists
        PROVE  told'.account[v] = [role |-> users'[v].role, active |-> users'[v].active]
    <3>1. CASE v = u
      BY <1>2, <1>3, <1>6, <3>1
    <3>2. CASE v # u
      BY <1>0, <1>2, <1>6, <2>1, <3>2 DEF HistoryTellsTheAccounts
    <3> QED
      BY <3>1, <3>2
  <2>2. ASSUME NEW r \in Recoveries PROVE told'.recovery[r] = recoveries'[r].status
    BY <1>0, <1>5 DEF HistoryTellsTheAccounts
  <2> QED
    BY <2>1, <2>2 DEF HistoryTellsTheAccounts
<1> QED
  BY <1>7, <1>8, <1>9, <1>10, <1>11 DEF AccessInv

\* A new password takes every session of the account with it, and its pending recovery:
\* what is left is of other accounts.
LEMMA PasswordChanged ==
    ASSUME AccessInv, AccessTypeOK',
           NEW u \in Users, NEW mustChange \in BOOLEAN, users[u].exists, lastHash < MaxHash,
           users' = [users EXCEPT ![u] = WithPassword(@, lastHash + 1, mustChange)],
           sessions' = RevokeAll(u),
           NEW R \in SUBSET Recoveries, NEW status \in Statuses \ {"NONE", "PENDING"},
           \A r \in R : recoveries[r].status # "NONE",
           PendingOf(u) \subseteq R,
           Settles(R, status),
           \A b \in Browsers : request'[b].step # "none" => request'[b].user \in Users
    PROVE  AccessInv'
<1> DEFINE row == WithPassword(users[u], lastHash + 1, mustChange)
<1>0. AccessTypeOK /\ RowsHaveOwners /\ SessionsOfCurrentCredentials /\ PendingRecoveryIsCurrent
      /\ AnAdministratorRemains /\ HistoryTellsTheAccounts
  BY DEF AccessInv
<1>1. /\ row \in UserRow
      /\ row.exists = users[u].exists /\ row.active = users[u].active /\ row.role = users[u].role
  <2>1. users[u] \in UserRow /\ lastHash + 1 \in 0 .. MaxHash
    BY <1>0, AccessAssumption DEF AccessTypeOK
  <2> QED
    BY <2>1 DEF UserRow, WithPassword
<1> HIDE DEF row
<1>2. /\ users'[u] = row
      /\ \A v \in Users : v # u => users'[v] = users[v]
  <2>1. users' = [users EXCEPT ![u] = row]
    BY DEF row
  <2> QED
    BY <1>0, <1>1, <2>1, UserType
<1>3. /\ recoveries' = Settle(R, status)
      /\ told'.account = told.account
      /\ told'.recovery = TellSettled(R, status)
  BY DEF Settles
<1>4. \A r \in Recoveries :
        /\ recoveries'[r].status # "NONE" => recoveries'[r].user \in Users
        /\ told'.recovery[r] = recoveries'[r].status
  BY <1>3, SettledAreOwned
<1>5. \A t \in Tokens : sessions'[t] # NoSession
        => sessions'[t] = sessions[t] /\ sessions[t].user # u
  BY DEF RevokeAll
<1>6. RowsHaveOwners'
  BY <1>0, <1>1, <1>2, <1>4, <1>5 DEF RowsHaveOwners
<1>7. SessionsOfCurrentCredentials'
  <2> SUFFICES ASSUME NEW t \in Tokens, sessions'[t] # NoSession
               PROVE  /\ users'[sessions'[t].user].active
                      /\ sessions'[t].cred = users'[sessions'[t].user].hash
    BY DEF SessionsOfCurrentCredentials
  <2>1. sessions'[t] = sessions[t] /\ sessions[t].user # u
    BY <1>5
  <2>2. /\ sessions[t].user \in Users
        /\ users[sessions[t].user].active
        /\ sessions[t].cred = users[sessions[t].user].hash
    BY <1>0, <2>1 DEF RowsHaveOwners, SessionsOfCurrentCredentials
  <2> QED
    BY <1>2, <2>1, <2>2
<1>8. \A r \in Recoveries : recoveries'[r].status = "PENDING"
        => recoveries'[r] = recoveries[r] /\ r \notin R
  BY <1>0, <1>3, SettleType
<1>9. PendingRecoveryIsCurrent'
  <2> SUFFICES ASSUME NEW r \in Recoveries, recoveries'[r].status = "PENDING"
               PROVE  /\ PendingOf(recoveries[r].user)' = {r}
                      /\ users'[recoveries'[r].user].active
                      /\ recoveries'[r].cred = users'[recoveries'[r].user].hash
    BY DEF PendingRecoveryIsCurrent, Pending
  <2>1. recoveries'[r] = recoveries[r] /\ recoveries[r].status = "PENDING" /\ r \notin R
    BY <1>8
  <2>2. /\ recoveries[r].user \in Users
        /\ PendingOf(recoveries[r].user) = {r}
        /\ users[recoveries[r].user].active
        /\ recoveries[r].cred = users[recoveries[r].user].hash
    BY <1>0, <2>1 DEF RowsHaveOwners, PendingRecoveryIsCurrent, Pending
  <2>3. recoveries[r].user # u
    BY <2>1 DEF PendingOf, Pending
  <2>4. PendingOf(recoveries[r].user)' = {r}
    <3>1. ASSUME NEW x \in Recoveries, recoveries'[x].status = "PENDING",
                 recoveries'[x].user = recoveries[r].user
          PROVE  x = r
      BY <1>8, <2>2, <3>1 DEF PendingOf, Pending
    <3> QED
      BY <2>1, <3>1 DEF PendingOf, Pending
  <2> QED
    BY <1>2, <2>1, <2>2, <2>3, <2>4
<1>10. AnAdministratorRemains'
  <2>1. ActiveAdministrators # {}
    BY <1>0 DEF AnAdministratorRemains
  <2>2. ASSUME NEW v \in ActiveAdministrators
        PROVE  v \in ActiveAdministrators'
    BY <1>1, <1>2, <2>2 DEF ActiveAdministrators
  <2> QED
    BY <2>1, <2>2 DEF AnAdministratorRemains
<1>11. HistoryTellsTheAccounts'
  BY <1>0, <1>1, <1>2, <1>3, <1>4 DEF HistoryTellsTheAccounts
<1> QED
  BY <1>6, <1>7, <1>9, <1>10, <1>11 DEF AccessInv

-----------------------------------------------------------------------------
(* One step for each handler *)

LEMMA AccessInitHolds == AccessInit => AccessInv
<1> SUFFICES ASSUME AccessInit PROVE AccessInv
  OBVIOUS
<1>1. /\ NoUser \in UserRow /\ NoSession \in SessionRow /\ NoRecovery \in RecoveryRow
      /\ NoRequest \in RequestRow
      /\ ~NoUser.exists /\ NoRecovery.status = "NONE" /\ NoRequest.step = "none"
  BY AccessAssumption DEF NoUser, NoSession, NoRecovery, NoRequest, UserRow, SessionRow,
       RecoveryRow, RequestRow, Roles, Statuses
<1>2. /\ told.account = [u \in Users |-> [role |-> "SELLER", active |-> FALSE]]
      /\ told.recovery = [r \in Recoveries |-> "NONE"]
      /\ told = [account |-> told.account, recovery |-> told.recovery]
  BY DEF AccessInit
<1>3. told \in [account : [Users -> [role : Roles, active : BOOLEAN]],
               recovery : [Recoveries -> Statuses]]
  <2>1. told.account \in [Users -> [role : Roles, active : BOOLEAN]]
    BY <1>2 DEF Roles
  <2>2. told.recovery \in [Recoveries -> Statuses]
    BY <1>2 DEF Statuses
  <2> QED
    BY <1>2, <2>1, <2>2
<1>4. AccessTypeOK
  BY <1>1, <1>3, AccessAssumption DEF AccessInit, AccessTypeOK
<1>5. RowsHaveOwners
  BY <1>1 DEF AccessInit, RowsHaveOwners
<1>6. SessionsOfCurrentCredentials /\ PendingRecoveryIsCurrent
  BY <1>1 DEF AccessInit, SessionsOfCurrentCredentials, PendingRecoveryIsCurrent, Pending
<1>7. AnAdministratorRemains /\ HistoryTellsTheAccounts
  BY <1>1, <1>2 DEF AccessInit, AnAdministratorRemains, HistoryTellsTheAccounts
<1> QED
  BY <1>4, <1>5, <1>6, <1>7 DEF AccessInv

LEMMA BootstrapStep ==
    ASSUME AccessInv, NEW u \in Users, Bootstrap(u)
    PROVE  AccessInv'
<1>0. AccessTypeOK /\ RowsHaveOwners
  BY DEF AccessInv
<1> DEFINE row == [exists |-> TRUE, active |-> TRUE, role |-> "ADMINISTRATOR",
                   hash |-> lastHash + 1, mustChange |-> FALSE]
<1>1. /\ ~users[u].exists /\ lastHash < MaxHash
      /\ lastHash' = lastHash + 1
      /\ users' = [users EXCEPT ![u] = row]
      /\ told' = [account |-> TellAccount(u, "ADMINISTRATOR", TRUE), recovery |-> told.recovery]
      /\ UNCHANGED <<sessions, recoveries, cookie, request, now>>
  BY DEF Bootstrap
<1>2. lastHash + 1 \in 0 .. MaxHash
  BY <1>0, <1>1, AccessAssumption DEF AccessTypeOK
<1>3. row \in UserRow
  BY <1>2 DEF UserRow, Roles
<1>4. users' \in [Users -> UserRow]
  <2> HIDE DEF row
  <2> QED
    BY <1>0, <1>1, <1>3, UserType
<1>5. told' \in [account : [Users -> [role : Roles, active : BOOLEAN]],
                recovery : [Recoveries -> Statuses]]
  <2>1. TellAccount(u, "ADMINISTRATOR", TRUE) \in [Users -> [role : Roles, active : BOOLEAN]]
    BY <1>0, TellType DEF Roles
  <2>2. told.recovery \in [Recoveries -> Statuses]
    BY <1>0 DEF AccessTypeOK
  <2> QED
    BY <1>1, <2>1, <2>2
<1>6. AccessTypeOK'
  BY <1>0, <1>1, <1>2, <1>4, <1>5 DEF AccessTypeOK
<1>7. \A b \in Browsers : request'[b].step # "none" => request'[b].user \in Users
  BY <1>0, <1>1 DEF RowsHaveOwners
<1> QED
  BY <1>1, <1>6, <1>7, AccountCreated DEF Roles

\* The handlers that read: their request takes the next step, the tables stay.
LEMMA RequestGoesOn ==
    ASSUME AccessInv, NEW b \in Browsers, NEW e \in RequestRow, e.step # "none" => e.user \in Users,
           request' = [request EXCEPT ![b] = e],
           UNCHANGED <<users, sessions, recoveries, told, cookie, lastHash, now>>
    PROVE  AccessInv'
<1>0. AccessTypeOK /\ RowsHaveOwners
  BY DEF AccessInv
<1>1. /\ request' \in [Browsers -> RequestRow]
      /\ \A c \in Browsers : request'[c].step # "none" => request'[c].user \in Users
  BY <1>0, RequestType
<1>2. AccessTypeOK'
  BY <1>0, <1>1 DEF AccessTypeOK
<1> QED
  BY <1>1, <1>2, SessionsCut

LEMMA LoginReadStep ==
    ASSUME AccessInv, NEW b \in Browsers, NEW u \in Users, LoginRead(b, u)
    PROVE  AccessInv'
<1> DEFINE e == Reading("login", u, cookie[b], users[u].hash)
<1>1. cookie[b] \in Tokens \cup {Nobody} /\ users[u].hash \in 0 .. MaxHash
  BY DEF AccessInv, AccessTypeOK, UserRow
<1>2. e \in RequestRow /\ e.user = u
  BY <1>1 DEF Reading, RequestRow
<1> HIDE DEF e
<1>3. request' = [request EXCEPT ![b] = e]
  BY DEF LoginRead, e
<1>4. UNCHANGED <<users, sessions, recoveries, told, cookie, lastHash, now>>
  BY DEF LoginRead
<1> QED
  BY <1>2, <1>3, <1>4, RequestGoesOn

LEMMA AbandonedStep ==
    ASSUME AccessInv, NEW b \in Browsers, Abandoned(b)
    PROVE  AccessInv'
<1>1. NoRequest \in RequestRow /\ NoRequest.step = "none"
  BY AccessAssumption DEF NoRequest, RequestRow
<1>2. /\ request' = [request EXCEPT ![b] = NoRequest]
      /\ UNCHANGED <<users, sessions, recoveries, told, cookie, lastHash, now>>
  BY DEF Abandoned, Done
<1> QED
  BY <1>1, <1>2, RequestGoesOn

LEMMA ResolveSessionStep ==
    ASSUME AccessInv, NEW b \in Browsers, ResolveSession(b)
    PROVE  AccessInv'
<1> DEFINE e == Reading("session", sessions[cookie[b]].user, cookie[b], 0)
<1>1. cookie[b] \in Tokens /\ sessions[cookie[b]] # NoSession
  BY DEF ResolveSession, AccessInv, AccessTypeOK
<1>2. sessions[cookie[b]].user \in Users
  BY <1>1 DEF AccessInv, RowsHaveOwners
<1>3. e \in RequestRow /\ e.user \in Users
  BY <1>1, <1>2, AccessAssumption DEF Reading, RequestRow
<1> HIDE DEF e
<1>4. /\ request' = [request EXCEPT ![b] = e]
      /\ UNCHANGED <<users, sessions, recoveries, told, cookie, lastHash, now>>
  BY DEF ResolveSession, e
<1> QED
  BY <1>3, <1>4, RequestGoesOn

\* What leaves the tables of accounts and recoveries alone and cuts sessions.
LEMMA SessionsGo ==
    ASSUME AccessInv, NEW b \in Browsers, NEW x,
           Done(b) \/ UNCHANGED request,
           sessions' = Revoke(x),
           SetCookie(b, Nobody) \/ UNCHANGED cookie,
           UNCHANGED <<users, recoveries, told, lastHash, now>>
    PROVE  AccessInv'
<1>0. AccessTypeOK /\ RowsHaveOwners
  BY DEF AccessInv
<1>1. /\ request' \in [Browsers -> RequestRow]
      /\ \A c \in Browsers : request'[c].step # "none" => request'[c].user \in Users
  BY <1>0, DoneType DEF AccessTypeOK, RowsHaveOwners
<1>2. cookie' \in [Browsers -> Tokens \cup {Nobody}]
  BY <1>0, CookieType DEF AccessTypeOK
<1>3. sessions' \in [Tokens -> SessionRow]
  BY <1>0, RevokeType
<1>4. \A t \in Tokens : sessions'[t] \in {sessions[t], NoSession}
  BY DEF Revoke
<1>5. AccessTypeOK'
  BY <1>0, <1>1, <1>2, <1>3 DEF AccessTypeOK
<1> QED
  BY <1>1, <1>4, <1>5, SessionsCut

LEMMA LogoutStep ==
    ASSUME AccessInv, NEW b \in Browsers, Logout(b)
    PROVE  AccessInv'
BY SessionsGo DEF Logout

LEMMA ResolveUserStep ==
    ASSUME AccessInv, NEW b \in Browsers, ResolveUser(b)
    PROVE  AccessInv'
<1> DEFINE u == users[request[b].user]
           e == [step |-> "authenticated", user |-> request[b].user, token |-> request[b].token,
                 hash |-> 0, admin |-> u.role = "ADMINISTRATOR", restricted |-> u.mustChange]
<1>0. AccessTypeOK /\ RowsHaveOwners
  BY DEF AccessInv
<1>1. request[b].user \in Users /\ request[b] \in RequestRow
  BY <1>0 DEF ResolveUser, AccessTypeOK, RowsHaveOwners
<1>2. u \in UserRow
  BY <1>0, <1>1 DEF AccessTypeOK
<1>3. e \in RequestRow /\ e.user \in Users
  BY <1>1, <1>2, AccessAssumption DEF RequestRow, UserRow
<1>4. \/ sessions' = Revoke(request[b].token) /\ Done(b)
      \/ request' = [request EXCEPT ![b] = e] /\ UNCHANGED sessions
  BY DEF ResolveUser
<1>5. UNCHANGED <<users, recoveries, told, cookie, lastHash, now>>
  BY DEF ResolveUser
<1> HIDE DEF e
<1>6. CASE sessions' = Revoke(request[b].token) /\ Done(b)
  BY <1>5, <1>6, SessionsGo
<1>7. CASE request' = [request EXCEPT ![b] = e] /\ UNCHANGED sessions
  BY <1>3, <1>5, <1>7, RequestGoesOn
<1> QED
  BY <1>4, <1>6, <1>7

LEMMA ProfileReadStep ==
    ASSUME AccessInv, NEW b \in Browsers, ProfileRead(b)
    PROVE  AccessInv'
<1> DEFINE q == request[b]
           e == [step |-> "profile", user |-> q.user, token |-> q.token,
                 hash |-> users[q.user].hash, admin |-> q.admin, restricted |-> q.restricted]
<1>0. AccessTypeOK /\ RowsHaveOwners
  BY DEF AccessInv
<1>1. q.user \in Users /\ q \in RequestRow
  BY <1>0 DEF ProfileRead, AccessTypeOK, RowsHaveOwners
<1>2. users[q.user].hash \in 0 .. MaxHash
  BY <1>0, <1>1 DEF AccessTypeOK, UserRow
<1>3. e \in RequestRow /\ e.user \in Users
  BY <1>1, <1>2 DEF RequestRow
<1>4. /\ request' = [request EXCEPT ![b] = e]
      /\ UNCHANGED <<users, sessions, recoveries, told, cookie, lastHash, now>>
  BY DEF ProfileRead
<1> HIDE DEF e
<1> QED
  BY <1>3, <1>4, RequestGoesOn

LEMMA TickStep == ASSUME AccessInv, Tick PROVE AccessInv'
<1>1. now + 1 \in 0 .. MaxTime
  BY AccessAssumption DEF AccessInv, AccessTypeOK, Tick
<1>2. AccessTypeOK'
  BY <1>1 DEF AccessInv, AccessTypeOK, Tick
<1> QED
  BY <1>2, SessionsCut DEF AccessInv, RowsHaveOwners, Tick

\* The session a login leaves is of the account and the password the transaction has
\* just read again.
LEMMA LoginCommitStep ==
    ASSUME AccessInv, NEW b \in Browsers, LoginCommit(b)
    PROVE  AccessInv'
<1>0. AccessTypeOK /\ RowsHaveOwners /\ SessionsOfCurrentCredentials
  BY DEF AccessInv
<1> DEFINE u == request[b].user
<1>1. PICK t \in Tokens :
        /\ sessions' = [Revoke(request[b].token) EXCEPT
              ![t] = [user |-> u, expiresAt |-> now + SessionTTL, cred |-> request[b].hash]]
        /\ SetCookie(b, t)
  BY DEF LoginCommit
<1>2. /\ request[b].step = "login" /\ users[u].active /\ users[u].hash = request[b].hash
      /\ Done(b)
      /\ UNCHANGED <<users, recoveries, told, lastHash, now>>
  BY DEF LoginCommit, StillVerified
<1>3. u \in Users
  BY <1>0, <1>2 DEF RowsHaveOwners
<1> DEFINE new == [user |-> u, expiresAt |-> now + SessionTTL, cred |-> request[b].hash]
<1>4. new \in SessionRow /\ new.user = u /\ new.cred = users[u].hash
  <2>1. request[b].hash \in 0 .. MaxHash /\ now \in 0 .. MaxTime
    BY <1>0 DEF AccessTypeOK, RequestRow
  <2>2. now + SessionTTL \in 0 .. MaxTime + SessionTTL
    BY <2>1, AccessAssumption
  <2> QED
    BY <1>2, <1>3, <2>1, <2>2 DEF SessionRow
<1> HIDE DEF new
<1>5. /\ sessions' \in [Tokens -> SessionRow]
      /\ sessions'[t] = new
      /\ \A x \in Tokens : x # t => sessions'[x] \in {sessions[x], NoSession}
  <2>1. sessions' = [Revoke(request[b].token) EXCEPT ![t] = new]
    BY <1>1 DEF new
  <2>2. Revoke(request[b].token) \in [Tokens -> SessionRow]
    BY <1>0, RevokeType
  <2>3. \A x \in Tokens : Revoke(request[b].token)[x] \in {sessions[x], NoSession}
    BY DEF Revoke
  <2> QED
    BY <1>4, <2>1, <2>2, <2>3
<1>6. /\ request' \in [Browsers -> RequestRow]
      /\ \A c \in Browsers : request'[c].step # "none" => request'[c].user \in Users
  BY <1>0, <1>2, DoneType
<1>7. cookie' \in [Browsers -> Tokens \cup {Nobody}]
  BY <1>0, <1>1, CookieType
<1>8. AccessTypeOK'
  BY <1>0, <1>2, <1>5, <1>6, <1>7 DEF AccessTypeOK
<1>9. RowsHaveOwners'
  BY <1>0, <1>2, <1>3, <1>4, <1>5, <1>6 DEF RowsHaveOwners
<1>10. SessionsOfCurrentCredentials'
  <2> SUFFICES ASSUME NEW x \in Tokens, sessions'[x] # NoSession
               PROVE  /\ users'[sessions'[x].user].active
                      /\ sessions'[x].cred = users'[sessions'[x].user].hash
    BY DEF SessionsOfCurrentCredentials
  <2>1. CASE x = t
    BY <1>2, <1>4, <1>5, <2>1
  <2>2. CASE x # t
    BY <1>0, <1>2, <1>5, <2>2 DEF SessionsOfCurrentCredentials
  <2> QED
    BY <2>1, <2>2
<1>11. PendingRecoveryIsCurrent' /\ AnAdministratorRemains' /\ HistoryTellsTheAccounts'
  BY <1>2 DEF AccessInv, PendingRecoveryIsCurrent, Pending, PendingOf, AnAdministratorRemains,
       ActiveAdministrators, HistoryTellsTheAccounts
<1> QED
  BY <1>8, <1>9, <1>10, <1>11 DEF AccessInv

\* The events of a settling keep their type.
LEMMA SettlesType ==
    ASSUME AccessTypeOK, NEW R \in SUBSET Recoveries, NEW status \in Statuses, Settles(R, status)
    PROVE  /\ recoveries' \in [Recoveries -> RecoveryRow]
           /\ told' \in [account : [Users -> [role : Roles, active : BOOLEAN]],
                        recovery : [Recoveries -> Statuses]]
<1>1. /\ Settle(R, status) \in [Recoveries -> RecoveryRow]
      /\ TellSettled(R, status) \in [Recoveries -> Statuses]
  BY SettleType
<1>2. told.account \in [Users -> [role : Roles, active : BOOLEAN]]
  BY DEF AccessTypeOK
<1> QED
  BY <1>1, <1>2 DEF Settles

\* What the two handlers that set a password have in common.
LEMMA PasswordSet ==
    ASSUME AccessInv, NEW b \in Browsers, NEW u \in Users, NEW mustChange \in BOOLEAN,
           users[u].exists, lastHash < MaxHash, lastHash' = lastHash + 1,
           users' = [users EXCEPT ![u] = WithPassword(@, lastHash + 1, mustChange)],
           sessions' = RevokeAll(u),
           NEW R \in SUBSET Recoveries, NEW status \in Statuses \ {"NONE", "PENDING"},
           \A r \in R : recoveries[r].status # "NONE",
           PendingOf(u) \subseteq R,
           Settles(R, status),
           Done(b), SetCookie(b, Nobody) \/ UNCHANGED cookie, UNCHANGED now
    PROVE  AccessInv'
<1>0. AccessTypeOK /\ RowsHaveOwners
  BY DEF AccessInv
<1>1. lastHash + 1 \in 0 .. MaxHash /\ users[u] \in UserRow
  BY <1>0, AccessAssumption DEF AccessTypeOK
<1>2. WithPassword(users[u], lastHash + 1, mustChange) \in UserRow
  BY <1>1 DEF WithPassword, UserRow
<1>3. users' \in [Users -> UserRow]
  BY <1>0, <1>2, UserType
<1>4. /\ request' \in [Browsers -> RequestRow]
      /\ \A c \in Browsers : request'[c].step # "none" => request'[c].user \in Users
  BY <1>0, DoneType
<1>5. /\ cookie' \in [Browsers -> Tokens \cup {Nobody}]
      /\ sessions' \in [Tokens -> SessionRow]
  BY <1>0, CookieType, RevokeType DEF AccessTypeOK
<1>6. AccessTypeOK'
  BY <1>0, <1>1, <1>3, <1>4, <1>5, SettlesType DEF AccessTypeOK
<1> QED
  BY <1>4, <1>6, PasswordChanged

LEMMA ChangePasswordStep ==
    ASSUME AccessInv, NEW b \in Browsers, ChangePassword(b)
    PROVE  AccessInv'
<1> DEFINE u == request[b].user
<1>1. u \in Users /\ users[u].exists
  <2>1. u \in Users /\ users[u].active
    BY DEF AccessInv, RowsHaveOwners, ChangePassword, StillVerified
  <2> QED
    BY <2>1 DEF AccessInv, RowsHaveOwners, NoUser
<1>2. PendingOf(u) \in SUBSET Recoveries /\ \A r \in PendingOf(u) : recoveries[r].status # "NONE"
  BY DEF PendingOf, Pending
<1>3. "CANCELLED" \in Statuses \ {"NONE", "PENDING"}
  BY DEF Statuses
<1>4. /\ lastHash < MaxHash /\ lastHash' = lastHash + 1
      /\ users' = [users EXCEPT ![u] = WithPassword(@, lastHash + 1, FALSE)]
      /\ sessions' = RevokeAll(u)
      /\ Settles(PendingOf(u), "CANCELLED")
      /\ Done(b) /\ SetCookie(b, Nobody) /\ UNCHANGED now
  BY DEF ChangePassword, Settles
<1> HIDE DEF u
<1> QED
  BY <1>1, <1>2, <1>3, <1>4, PasswordSet

\* Resolving requires a pending request of an account in use (MayResolve).
LEMMA ResolvableRecovery ==
    ASSUME AccessInv, NEW actor, NEW r \in Recoveries, MayResolve(actor, r)
    PROVE  /\ recoveries[r].status = "PENDING"
           /\ recoveries[r].user \in Users
           /\ users[recoveries[r].user].exists
           /\ PendingOf(recoveries[r].user) = {r}
<1>1. recoveries[r].status = "PENDING" /\ users[recoveries[r].user].active
  BY DEF MayResolve, Pending
<1>2. recoveries[r].user \in Users
  BY <1>1 DEF AccessInv, RowsHaveOwners
<1>3. users[recoveries[r].user].exists
  BY <1>1, <1>2 DEF AccessInv, RowsHaveOwners, NoUser
<1> QED
  BY <1>1, <1>2, <1>3 DEF AccessInv, PendingRecoveryIsCurrent, Pending

LEMMA ApproveRecoveryStep ==
    ASSUME AccessInv, NEW b \in Browsers, NEW r \in Recoveries, ApproveRecovery(b, r)
    PROVE  AccessInv'
<1> DEFINE u == recoveries[r].user
<1>1. /\ MayResolve(request[b].user, r)
      /\ lastHash < MaxHash /\ lastHash' = lastHash + 1
      /\ users' = [users EXCEPT ![u] = WithPassword(@, lastHash + 1, TRUE)]
      /\ sessions' = RevokeAll(u)
      /\ Settles({r}, "APPROVED")
      /\ Done(b) /\ UNCHANGED <<cookie, now>>
  BY DEF ApproveRecovery, Settles
<1>2. /\ u \in Users /\ users[u].exists
      /\ \A x \in {r} : recoveries[x].status # "NONE"
      /\ PendingOf(u) \subseteq {r}
  BY <1>1, ResolvableRecovery
<1>3. "APPROVED" \in Statuses \ {"NONE", "PENDING"} /\ {r} \in SUBSET Recoveries
  BY DEF Statuses
<1> HIDE DEF u
<1> QED
  BY <1>1, <1>2, <1>3, PasswordSet

\* What the two handlers that settle recoveries and nothing else have in common.
LEMMA OnlySettles ==
    ASSUME AccessInv, NEW b \in Browsers, NEW R \in SUBSET Recoveries,
           NEW status \in Statuses \ {"NONE", "PENDING"},
           \A r \in R : recoveries[r].status # "NONE",
           Settles(R, status), Done(b), UNCHANGED <<users, sessions, cookie, lastHash, now>>
    PROVE  AccessInv'
<1>0. AccessTypeOK /\ RowsHaveOwners
  BY DEF AccessInv
<1>1. /\ request' \in [Browsers -> RequestRow]
      /\ \A c \in Browsers : request'[c].step # "none" => request'[c].user \in Users
  BY <1>0, DoneType
<1>2. AccessTypeOK'
  BY <1>0, <1>1, SettlesType DEF AccessTypeOK
<1> QED
  BY <1>1, <1>2, RecoveriesSettled

LEMMA RejectRecoveryStep ==
    ASSUME AccessInv, NEW b \in Browsers, NEW r \in Recoveries, RejectRecovery(b, r)
    PROVE  AccessInv'
<1>1. /\ MayResolve(request[b].user, r)
      /\ Settles({r}, "REJECTED")
      /\ Done(b) /\ UNCHANGED <<users, sessions, cookie, lastHash, now>>
  BY DEF RejectRecovery, Settles
<1>2. \A x \in {r} : recoveries[x].status # "NONE"
  BY <1>1, ResolvableRecovery
<1>3. "REJECTED" \in Statuses \ {"NONE", "PENDING"} /\ {r} \in SUBSET Recoveries
  BY DEF Statuses
<1> QED
  BY <1>1, <1>2, <1>3, OnlySettles

LEMMA ListRecoveriesStep ==
    ASSUME AccessInv, NEW b \in Browsers, ListRecoveries(b)
    PROVE  AccessInv'
<1> DEFINE overdue == UNION {Overdue(u) : u \in Users}
<1>1. /\ Settles(overdue, "EXPIRED")
      /\ Done(b) /\ UNCHANGED <<users, sessions, cookie, lastHash, now>>
  BY DEF ListRecoveries, Settles
<1>2. /\ overdue \in SUBSET Recoveries
      /\ \A r \in overdue : recoveries[r].status # "NONE"
  BY DEF Overdue, PendingOf, Pending
<1>3. "EXPIRED" \in Statuses \ {"NONE", "PENDING"}
  BY DEF Statuses
<1> HIDE DEF overdue
<1> QED
  BY <1>1, <1>2, <1>3, OnlySettles

LEMMA CreateUserStep ==
    ASSUME AccessInv, NEW b \in Browsers, NEW u \in Users, NEW role \in Roles, CreateUser(b, u, role)
    PROVE  AccessInv'
<1>0. AccessTypeOK /\ RowsHaveOwners
  BY DEF AccessInv
<1> DEFINE row == [exists |-> TRUE, active |-> TRUE, role |-> role,
                   hash |-> lastHash + 1, mustChange |-> TRUE]
<1>1. /\ ~users[u].exists /\ lastHash < MaxHash
      /\ lastHash' = lastHash + 1
      /\ users' = [users EXCEPT ![u] = row]
      /\ told' = [account |-> TellAccount(u, role, TRUE), recovery |-> told.recovery]
      /\ UNCHANGED <<sessions, recoveries, cookie, now>>
      /\ Done(b)
  BY DEF CreateUser
<1>2. lastHash + 1 \in 0 .. MaxHash
  BY <1>0, <1>1, AccessAssumption DEF AccessTypeOK
<1>3. row \in UserRow
  BY <1>2 DEF UserRow
<1>4. users' \in [Users -> UserRow]
  <2> HIDE DEF row
  <2> QED
    BY <1>0, <1>1, <1>3, UserType
<1>5. told' \in [account : [Users -> [role : Roles, active : BOOLEAN]],
                recovery : [Recoveries -> Statuses]]
  <2>1. TellAccount(u, role, TRUE) \in [Users -> [role : Roles, active : BOOLEAN]]
    BY <1>0, TellType
  <2>2. told.recovery \in [Recoveries -> Statuses]
    BY <1>0 DEF AccessTypeOK
  <2> QED
    BY <1>1, <2>1, <2>2
<1>6. /\ request' \in [Browsers -> RequestRow]
      /\ \A c \in Browsers : request'[c].step # "none" => request'[c].user \in Users
  BY <1>0, <1>1, DoneType
<1>7. AccessTypeOK'
  BY <1>0, <1>1, <1>2, <1>4, <1>5, <1>6 DEF AccessTypeOK
<1>8. request[b].user \in ActiveAdministrators
  BY DEF CreateUser, Administrator, ActiveAdministrators
<1> QED
  BY <1>1, <1>6, <1>7, <1>8, AccountCreated

\* An account changes its role and activity; one that is cut off loses what it has open.
LEMMA UpdateUserStep ==
    ASSUME AccessInv, NEW b \in Browsers, NEW u \in Users, NEW active \in BOOLEAN,
           NEW role \in Roles, UpdateUser(b, u, active, role)
    PROVE  AccessInv'
<1>0. AccessTypeOK /\ RowsHaveOwners /\ SessionsOfCurrentCredentials /\ PendingRecoveryIsCurrent
      /\ HistoryTellsTheAccounts
  BY DEF AccessInv
<1> DEFINE actor == request[b].user
           row == [exists |-> TRUE, active |-> active, role |-> role,
                   hash |-> users[u].hash, mustChange |-> users[u].mustChange]
<1>1. /\ users[u].exists
      /\ MayUpdate(actor, u, active, role)
      /\ users' = [users EXCEPT ![u] = row]
      /\ Done(b) /\ UNCHANGED <<cookie, lastHash, now>>
  BY DEF UpdateUser
<1>2. row \in UserRow /\ row.exists /\ row.active = active /\ row.role = role /\ row.hash = users[u].hash
  BY <1>0 DEF AccessTypeOK, UserRow
<1> HIDE DEF row
<1>3. /\ users' \in [Users -> UserRow]
      /\ users'[u] = row
      /\ \A v \in Users : v # u => users'[v] = users[v]
  BY <1>0, <1>1, <1>2, UserType
<1>4. /\ request' \in [Browsers -> RequestRow]
      /\ \A c \in Browsers : request'[c].step # "none" => request'[c].user \in Users
  BY <1>0, <1>1, DoneType
<1>5. /\ TellAccount(u, role, active) \in [Users -> [role : Roles, active : BOOLEAN]]
      /\ TellAccount(u, role, active)[u] = [role |-> role, active |-> active]
      /\ \A v \in Users : v # u => TellAccount(u, role, active)[v] = told.account[v]
      /\ told.recovery \in [Recoveries -> Statuses]
  BY <1>0, TellType DEF AccessTypeOK
<1>6. AnAdministratorRemains'
  <2>1. /\ actor \in ActiveAdministrators
        /\ u = actor => active /\ role = "ADMINISTRATOR"
    BY <1>1 DEF MayUpdate, Administrator, ActiveAdministrators
  <2>2. actor \in Users /\ users'[actor].active /\ users'[actor].role = "ADMINISTRATOR"
    BY <1>2, <1>3, <2>1 DEF ActiveAdministrators
  <2>3. actor \in ActiveAdministrators'
    BY <2>2 DEF ActiveAdministrators
  <2> QED
    BY <2>3 DEF AnAdministratorRemains
<1>7. CASE active
  <2>1. /\ UNCHANGED <<sessions, recoveries>>
        /\ told' = [account |-> TellAccount(u, role, active), recovery |-> told.recovery]
    BY <1>7 DEF UpdateUser
  <2>2. AccessTypeOK'
    <3>1. told' \in [account : [Users -> [role : Roles, active : BOOLEAN]],
                    recovery : [Recoveries -> Statuses]]
      BY <1>5, <2>1
    <3> QED
      BY <1>0, <1>1, <1>3, <1>4, <2>1, <3>1 DEF AccessTypeOK
  <2>3. RowsHaveOwners'
    BY <1>0, <1>2, <1>3, <1>4, <2>1 DEF RowsHaveOwners
  <2>4. ASSUME NEW v \in Users, users[v].active
        PROVE  users'[v].active /\ users'[v].hash = users[v].hash
    BY <1>2, <1>3, <1>7, <2>4
  <2>5. SessionsOfCurrentCredentials'
    <3> SUFFICES ASSUME NEW t \in Tokens, sessions[t] # NoSession
                 PROVE  /\ users'[sessions[t].user].active
                        /\ sessions[t].cred = users'[sessions[t].user].hash
      BY <2>1 DEF SessionsOfCurrentCredentials
    <3>1. /\ sessions[t].user \in Users
          /\ users[sessions[t].user].active
          /\ sessions[t].cred = users[sessions[t].user].hash
      BY <1>0 DEF RowsHaveOwners, SessionsOfCurrentCredentials
    <3> QED
      BY <2>4, <3>1
  <2>6. PendingRecoveryIsCurrent'
    <3> SUFFICES ASSUME NEW r \in Recoveries, recoveries[r].status = "PENDING"
                 PROVE  /\ PendingOf(recoveries[r].user)' = {r}
                        /\ users'[recoveries[r].user].active
                        /\ recoveries[r].cred = users'[recoveries[r].user].hash
      BY <2>1 DEF PendingRecoveryIsCurrent, Pending
    <3>1. /\ recoveries[r].user \in Users
          /\ PendingOf(recoveries[r].user) = {r}
          /\ users[recoveries[r].user].active
          /\ recoveries[r].cred = users[recoveries[r].user].hash
      BY <1>0 DEF RowsHaveOwners, PendingRecoveryIsCurrent, Pending
    <3>2. PendingOf(recoveries[r].user)' = PendingOf(recoveries[r].user)
      BY <2>1 DEF PendingOf, Pending
    <3> QED
      BY <2>4, <3>1, <3>2
  <2>7. HistoryTellsTheAccounts'
    <3>1. /\ told'.account = TellAccount(u, role, active)
          /\ told'.recovery = told.recovery
      BY <2>1
    <3>2. ASSUME NEW v \in Users, users'[v].exists
          PROVE  told'.account[v] = [role |-> users'[v].role, active |-> users'[v].active]
      <4>1. CASE v = u
        BY <1>2, <1>3, <1>5, <3>1, <4>1
      <4>2. CASE v # u
        BY <1>0, <1>3, <1>5, <3>1, <3>2, <4>2 DEF HistoryTellsTheAccounts
      <4> QED
        BY <4>1, <4>2
    <3>3. ASSUME NEW r \in Recoveries PROVE told'.recovery[r] = recoveries'[r].status
      BY <1>0, <2>1, <3>1 DEF HistoryTellsTheAccounts
    <3> QED
      BY <3>2, <3>3 DEF HistoryTellsTheAccounts
  <2> QED
    BY <1>6, <2>2, <2>3, <2>5, <2>6, <2>7 DEF AccessInv
<1>8. CASE ~active
  <2> DEFINE R == PendingOf(u)
  <2>1. /\ sessions' = RevokeAll(u)
        /\ recoveries' = Settle(R, "CANCELLED")
        /\ told' = [account |-> TellAccount(u, role, active), recovery |-> TellSettled(R, "CANCELLED")]
    BY <1>8 DEF UpdateUser
  <2>2. /\ R \in SUBSET Recoveries
        /\ \A r \in R : recoveries[r].status # "NONE"
        /\ \A r \in Recoveries : r \notin R => recoveries[r].user # u \/ recoveries[r].status # "PENDING"
        /\ "CANCELLED" \in Statuses
    BY DEF PendingOf, Pending, Statuses
  <2> HIDE DEF R
  <2>3. \A r \in Recoveries :
          /\ recoveries'[r].status # "NONE" => recoveries'[r].user \in Users
          /\ TellSettled(R, "CANCELLED")[r] = recoveries'[r].status
    BY <2>1, <2>2, SettledAreOwned
  <2>4. \A r \in Recoveries : recoveries'[r].status = "PENDING"
          => recoveries'[r] = recoveries[r] /\ r \notin R
    BY <1>0, <2>1, <2>2, SettleType
  <2>5. AccessTypeOK'
    <3>1. told' \in [account : [Users -> [role : Roles, active : BOOLEAN]],
                    recovery : [Recoveries -> Statuses]]
      BY <1>0, <1>5, <2>1, <2>2, SettleType
    <3>2. recoveries' \in [Recoveries -> RecoveryRow] /\ sessions' \in [Tokens -> SessionRow]
      BY <1>0, <2>1, <2>2, SettleType, RevokeType
    <3> QED
      BY <1>0, <1>1, <1>3, <1>4, <3>1, <3>2 DEF AccessTypeOK
  <2>6. \A t \in Tokens : sessions'[t] # NoSession
          => sessions'[t] = sessions[t] /\ sessions[t].user # u
    BY <2>1 DEF RevokeAll
  <2>7. RowsHaveOwners'
    BY <1>0, <1>2, <1>3, <1>4, <2>3, <2>6 DEF RowsHaveOwners
  <2>8. SessionsOfCurrentCredentials'
    <3> SUFFICES ASSUME NEW t \in Tokens, sessions'[t] # NoSession
                 PROVE  /\ users'[sessions'[t].user].active
                        /\ sessions'[t].cred = users'[sessions'[t].user].hash
      BY DEF SessionsOfCurrentCredentials
    <3>1. sessions'[t] = sessions[t] /\ sessions[t].user # u
      BY <2>6
    <3>2. /\ sessions[t].user \in Users
          /\ users[sessions[t].user].active
          /\ sessions[t].cred = users[sessions[t].user].hash
      BY <1>0, <3>1 DEF RowsHaveOwners, SessionsOfCurrentCredentials
    <3> QED
      BY <1>3, <3>1, <3>2
  <2>9. PendingRecoveryIsCurrent'
    <3> SUFFICES ASSUME NEW r \in Recoveries, recoveries'[r].status = "PENDING"
                 PROVE  /\ PendingOf(recoveries[r].user)' = {r}
                        /\ users'[recoveries'[r].user].active
                        /\ recoveries'[r].cred = users'[recoveries'[r].user].hash
      BY DEF PendingRecoveryIsCurrent, Pending
    <3>1. recoveries'[r] = recoveries[r] /\ recoveries[r].status = "PENDING" /\ recoveries[r].user # u
      BY <2>2, <2>4
    <3>2. /\ recoveries[r].user \in Users
          /\ PendingOf(recoveries[r].user) = {r}
          /\ users[recoveries[r].user].active
          /\ recoveries[r].cred = users[recoveries[r].user].hash
      BY <1>0, <3>1 DEF RowsHaveOwners, PendingRecoveryIsCurrent, Pending
    <3>3. ASSUME NEW x \in Recoveries, recoveries'[x].status = "PENDING",
                 recoveries'[x].user = recoveries[r].user
          PROVE  x = r
      BY <2>4, <3>2, <3>3 DEF PendingOf, Pending
    <3>4. PendingOf(recoveries[r].user)' = {r}
      BY <3>1, <3>3 DEF PendingOf, Pending
    <3> QED
      BY <1>3, <3>1, <3>2, <3>4
  <2>10. HistoryTellsTheAccounts'
    <3>1. /\ told'.account = TellAccount(u, role, active)
          /\ told'.recovery = TellSettled(R, "CANCELLED")
      BY <2>1
    <3>2. ASSUME NEW v \in Users, users'[v].exists
          PROVE  told'.account[v] = [role |-> users'[v].role, active |-> users'[v].active]
      <4>1. CASE v = u
        BY <1>2, <1>3, <1>5, <3>1, <4>1
      <4>2. CASE v # u
        BY <1>0, <1>3, <1>5, <3>1, <3>2, <4>2 DEF HistoryTellsTheAccounts
      <4> QED
        BY <4>1, <4>2
    <3> QED
      BY <2>3, <3>1, <3>2 DEF HistoryTellsTheAccounts
  <2> QED
    BY <1>6, <2>5, <2>7, <2>8, <2>9, <2>10 DEF AccessInv
<1> QED
  BY <1>7, <1>8

\* A recovery is asked for: the overdue one of the account goes first, so that the new
\* one is alone.
LEMMA RequestRecoveryStep ==
    ASSUME AccessInv, NEW u \in Users, RequestRecovery(u)
    PROVE  AccessInv'
<1>0. AccessTypeOK /\ RowsHaveOwners /\ PendingRecoveryIsCurrent /\ HistoryTellsTheAccounts
  BY DEF AccessInv
<1> DEFINE overdue == Overdue(u)
           new == [user |-> u, status |-> "PENDING", expiresAt |-> now + RecoveryTTL,
                   cred |-> users[u].hash]
<1>1. PICK r \in {x \in Recoveries : recoveries[x] = NoRecovery} \cup {Nobody} :
        /\ (r = Nobody) = (PendingOf(u) \ overdue # {})
        /\ recoveries' = [x \in Recoveries |-> IF x = r THEN new ELSE Settle(overdue, "EXPIRED")[x]]
        /\ told' = [account |-> told.account,
                    recovery |-> [x \in Recoveries |->
                       IF x = r THEN "PENDING" ELSE TellSettled(overdue, "EXPIRED")[x]]]
  BY DEF RequestRecovery
<1>2. users[u].active /\ UNCHANGED <<users, sessions, cookie, request, lastHash, now>>
  BY DEF RequestRecovery
<1>3. /\ overdue \in SUBSET Recoveries
      /\ \A x \in overdue : recoveries[x].status # "NONE"
      /\ "EXPIRED" \in Statuses \ {"NONE", "PENDING"}
  BY DEF Overdue, PendingOf, Pending, Statuses
<1>4. /\ new \in RecoveryRow /\ new.user = u /\ new.status = "PENDING" /\ new.cred = users[u].hash
  <2>1. now \in 0 .. MaxTime /\ users[u].hash \in 0 .. MaxHash
    BY <1>0 DEF AccessTypeOK, UserRow
  <2>2. now + RecoveryTTL \in 0 .. MaxTime + RecoveryTTL
    BY <2>1, AccessAssumption
  <2> QED
    BY <2>1, <2>2 DEF RecoveryRow, Statuses
<1>5. \A c \in Browsers : request'[c].step # "none" => request'[c].user \in Users
  BY <1>0, <1>2 DEF RowsHaveOwners
<1>6. PendingOf(u) \subseteq Recoveries /\ \A x \in PendingOf(u) : recoveries[x].user = u
  BY DEF PendingOf
<1> HIDE DEF new, overdue
<1>7. /\ Settle(overdue, "EXPIRED") \in [Recoveries -> RecoveryRow]
      /\ TellSettled(overdue, "EXPIRED") \in [Recoveries -> Statuses]
      /\ told.account \in [Users -> [role : Roles, active : BOOLEAN]]
  BY <1>0, <1>3, SettleType DEF AccessTypeOK
<1>8. AccessTypeOK'
  <2>1. recoveries' \in [Recoveries -> RecoveryRow]
    BY <1>1, <1>4, <1>7
  <2>2. "PENDING" \in Statuses
    BY DEF Statuses
  <2>3. [x \in Recoveries |-> IF x = r THEN "PENDING" ELSE TellSettled(overdue, "EXPIRED")[x]]
          \in [Recoveries -> Statuses]
    BY <1>7, <2>2
  <2>4. told' \in [account : [Users -> [role : Roles, active : BOOLEAN]],
                  recovery : [Recoveries -> Statuses]]
    BY <1>1, <1>7, <2>3
  <2> QED
    BY <1>0, <1>2, <2>1, <2>4 DEF AccessTypeOK
<1>9. CASE r = Nobody
  <2>1. \A x \in Recoveries : x # r
    BY <1>9, AccessAssumption DEF Nobody
  <2>2. recoveries' = [x \in Recoveries |-> Settle(overdue, "EXPIRED")[x]]
    BY <1>1, <2>1
  <2>3. recoveries' = Settle(overdue, "EXPIRED")
    BY <1>7, <2>2
  <2>4. told' = [account |-> told.account,
                 recovery |-> [x \in Recoveries |-> TellSettled(overdue, "EXPIRED")[x]]]
    BY <1>1, <2>1
  <2>5. [x \in Recoveries |-> TellSettled(overdue, "EXPIRED")[x]] = TellSettled(overdue, "EXPIRED")
    BY <1>7
  <2>6. Settles(overdue, "EXPIRED")
    BY <2>3, <2>4, <2>5 DEF Settles
  <2> QED
    BY <1>2, <1>3, <1>5, <1>8, <2>6, RecoveriesSettled
<1>10. CASE r \in Recoveries
  <2>1. recoveries[r] = NoRecovery /\ r # Nobody
    BY <1>1, <1>10, AccessAssumption DEF Nobody
  <2>2. PendingOf(u) \subseteq overdue
    BY <1>1, <2>1
  <2>3. /\ recoveries'[r] = new
        /\ \A x \in Recoveries : x # r => recoveries'[x] = Settle(overdue, "EXPIRED")[x]
        /\ told'.account = told.account
        /\ told'.recovery[r] = "PENDING"
        /\ \A x \in Recoveries : x # r => told'.recovery[x] = TellSettled(overdue, "EXPIRED")[x]
    BY <1>1, <1>10
  <2>4. \A x \in Recoveries :
          /\ recoveries'[x].status # "NONE" => recoveries'[x].user \in Users
          /\ told'.recovery[x] = recoveries'[x].status
    <3>1. \A x \in Recoveries :
            /\ Settle(overdue, "EXPIRED")[x].status # "NONE" => Settle(overdue, "EXPIRED")[x].user \in Users
            /\ TellSettled(overdue, "EXPIRED")[x] = Settle(overdue, "EXPIRED")[x].status
      BY <1>3, SettledAreOwned
    <3> QED
      BY <1>4, <2>3, <3>1
  <2>5. \A x \in Recoveries : x # r /\ recoveries'[x].status = "PENDING"
          => recoveries'[x] = recoveries[x] /\ recoveries[x].user # u
    <3> SUFFICES ASSUME NEW x \in Recoveries, x # r, recoveries'[x].status = "PENDING"
                 PROVE  recoveries'[x] = recoveries[x] /\ recoveries[x].user # u
      OBVIOUS
    <3>1. x \notin overdue
      BY <1>0, <1>3, <2>3, SettleType
    <3>2. recoveries'[x] = recoveries[x]
      BY <1>0, <1>3, <2>3, <3>1, SettleType
    <3>3. x \notin PendingOf(u)
      BY <2>2, <3>1
    <3> QED
      BY <3>2, <3>3 DEF PendingOf, Pending
  <2>6. RowsHaveOwners'
    BY <1>0, <1>2, <2>4 DEF RowsHaveOwners
  <2>7. PendingRecoveryIsCurrent'
    <3> SUFFICES ASSUME NEW q \in Recoveries, recoveries'[q].status = "PENDING"
                 PROVE  /\ PendingOf(recoveries[q].user)' = {q}
                        /\ users'[recoveries'[q].user].active
                        /\ recoveries'[q].cred = users'[recoveries'[q].user].hash
      BY DEF PendingRecoveryIsCurrent, Pending
    <3>1. CASE q = r
      <4>1. ASSUME NEW x \in Recoveries, recoveries'[x].status = "PENDING", recoveries'[x].user = u
            PROVE  x = r
        BY <2>5, <4>1
      <4>2. PendingOf(recoveries[q].user)' = {q}
        BY <1>4, <2>3, <3>1, <4>1 DEF PendingOf, Pending
      <4> QED
        BY <1>2, <1>4, <2>3, <3>1, <4>2
    <3>2. CASE q # r
      <4>1. recoveries'[q] = recoveries[q] /\ recoveries[q].status = "PENDING" /\ recoveries[q].user # u
        BY <2>5, <3>2
      <4>2. /\ PendingOf(recoveries[q].user) = {q}
            /\ users[recoveries[q].user].active
            /\ recoveries[q].cred = users[recoveries[q].user].hash
        BY <1>0, <4>1 DEF PendingRecoveryIsCurrent, Pending
      <4>3. ASSUME NEW x \in Recoveries, recoveries'[x].status = "PENDING",
                   recoveries'[x].user = recoveries[q].user
            PROVE  x = q
        <5>1. x # r
          BY <1>4, <2>3, <4>1, <4>3
        <5>2. recoveries'[x] = recoveries[x]
          BY <2>5, <4>3, <5>1
        <5> QED
          BY <4>2, <4>3, <5>2 DEF PendingOf, Pending
      <4>4. PendingOf(recoveries[q].user)' = {q}
        BY <4>1, <4>3 DEF PendingOf, Pending
      <4> QED
        BY <1>2, <4>1, <4>2, <4>4
    <3> QED
      BY <3>1, <3>2
  <2>8. HistoryTellsTheAccounts'
    BY <1>0, <1>2, <2>3, <2>4 DEF HistoryTellsTheAccounts
  <2>9. SessionsOfCurrentCredentials' /\ AnAdministratorRemains'
    BY <1>2 DEF AccessInv, SessionsOfCurrentCredentials, AnAdministratorRemains, ActiveAdministrators
  <2> QED
    BY <1>8, <2>6, <2>7, <2>8, <2>9 DEF AccessInv
<1> QED
  BY <1>1, <1>9, <1>10

\* Every step of the module keeps the invariant.
LEMMA AccessStep == AccessInv /\ [AccessNext]_accessVars => AccessInv'
<1> SUFFICES ASSUME AccessInv, [AccessNext]_accessVars PROVE AccessInv'
  OBVIOUS
<1>1. ASSUME NEW u \in Users, Bootstrap(u) \/ RequestRecovery(u) PROVE AccessInv'
  BY <1>1, BootstrapStep, RequestRecoveryStep
<1>2. ASSUME NEW b \in Browsers, NEW u \in Users, LoginRead(b, u) PROVE AccessInv'
  BY <1>2, LoginReadStep
<1>3. ASSUME NEW b \in Browsers,
             \/ LoginCommit(b) \/ Abandoned(b) \/ Logout(b)
             \/ ResolveSession(b) \/ ResolveUser(b)
             \/ ProfileRead(b) \/ ChangePassword(b)
      PROVE  AccessInv'
  BY <1>3, LoginCommitStep, AbandonedStep, LogoutStep, ResolveSessionStep, ResolveUserStep,
     ProfileReadStep, ChangePasswordStep
<1>4. ASSUME NEW b \in Browsers, Administration(b) PROVE AccessInv'
  <2>1. ASSUME NEW u \in Users, NEW role \in Roles, CreateUser(b, u, role) PROVE AccessInv'
    BY <2>1, CreateUserStep
  <2>2. ASSUME NEW u \in Users, NEW active \in BOOLEAN, NEW role \in Roles,
               UpdateUser(b, u, active, role)
        PROVE  AccessInv'
    BY <2>2, UpdateUserStep
  <2>3. ASSUME NEW r \in Recoveries, ApproveRecovery(b, r) \/ RejectRecovery(b, r) PROVE AccessInv'
    BY <2>3, ApproveRecoveryStep, RejectRecoveryStep
  <2> QED
    BY <1>4, <2>1, <2>2, <2>3, ListRecoveriesStep DEF Administration
<1>5. CASE Tick
  BY <1>5, TickStep
<1>6. CASE UNCHANGED accessVars
  <2>1. UNCHANGED <<users, sessions, recoveries, told, cookie, request, lastHash, now>>
    BY <1>6 DEF accessVars
  <2>2. AccessTypeOK'
    BY <2>1 DEF AccessInv, AccessTypeOK
  <2> QED
    BY <2>1, <2>2, SessionsCut DEF AccessInv, RowsHaveOwners
<1> QED
  BY <1>1, <1>2, <1>3, <1>4, <1>5, <1>6 DEF AccessNext

-----------------------------------------------------------------------------
(* What a step may change *)

\* The handlers that write table "User", and what they write of its rows.
LEMMA AccountWriters ==
    ASSUME AccessInv, [AccessNext]_accessVars, NEW u \in Users, users'[u] # users[u]
    PROVE  \/ ~users[u].exists
           \/ \E b \in Browsers, active \in BOOLEAN, role \in Roles :
                 /\ UpdateUser(b, u, active, role)
                 /\ users'[u] = [exists |-> TRUE, active |-> active, role |-> role,
                                 hash |-> users[u].hash, mustChange |-> users[u].mustChange]
           \/ \E b \in Browsers, r \in Recoveries :
                 /\ ApproveRecovery(b, r)
                 /\ users'[u] = WithPassword(users[u], lastHash + 1, TRUE)
           \/ \E b \in Browsers :
                 /\ ChangePassword(b) /\ request[b].user = u
                 /\ users'[u] = WithPassword(users[u], lastHash + 1, FALSE)
<1>0. users \in [Users -> UserRow]
  BY DEF AccessInv, AccessTypeOK
<1>1. ASSUME NEW v \in Users, Bootstrap(v) PROVE ~users[u].exists
  BY <1>1 DEF Bootstrap
<1>2. ASSUME NEW b \in Browsers, NEW v \in Users, NEW role \in Roles, CreateUser(b, v, role)
      PROVE  ~users[u].exists
  <2>1. ~users[v].exists
    BY <1>2 DEF CreateUser
  <2>2. PICK row : users' = [users EXCEPT ![v] = row]
    BY <1>2 DEF CreateUser
  <2> QED
    BY <1>0, <2>1, <2>2
<1>3. ASSUME NEW b \in Browsers, NEW v \in Users, NEW active \in BOOLEAN, NEW role \in Roles,
             UpdateUser(b, v, active, role)
      PROVE  /\ UpdateUser(b, u, active, role)
             /\ users'[u] = [exists |-> TRUE, active |-> active, role |-> role,
                             hash |-> users[u].hash, mustChange |-> users[u].mustChange]
  <2> DEFINE row == [exists |-> TRUE, active |-> active, role |-> role,
                     hash |-> users[v].hash, mustChange |-> users[v].mustChange]
  <2>1. users' = [users EXCEPT ![v] = row]
    BY <1>3 DEF UpdateUser
  <2> HIDE DEF row
  <2>2. v = u /\ users'[u] = row
    BY <1>0, <2>1
  <2> QED
    BY <1>3, <2>2 DEF row
<1>4. ASSUME NEW b \in Browsers, NEW r \in Recoveries, ApproveRecovery(b, r)
      PROVE  users'[u] = WithPassword(users[u], lastHash + 1, TRUE)
  <2> DEFINE v == recoveries[r].user
             row == WithPassword(users[v], lastHash + 1, TRUE)
  <2>1. users' = [users EXCEPT ![v] = row]
    BY <1>4 DEF ApproveRecovery
  <2> HIDE DEF row, v
  <2>2. v = u /\ users'[u] = row
    BY <1>0, <2>1
  <2> QED
    BY <2>2 DEF row
<1>5. ASSUME NEW b \in Browsers, ChangePassword(b)
      PROVE  request[b].user = u /\ users'[u] = WithPassword(users[u], lastHash + 1, FALSE)
  <2> DEFINE v == request[b].user
             row == WithPassword(users[v], lastHash + 1, FALSE)
  <2>1. users' = [users EXCEPT ![v] = row]
    BY <1>5 DEF ChangePassword
  <2> HIDE DEF row, v
  <2>2. v = u /\ users'[u] = row
    BY <1>0, <2>1
  <2> QED
    BY <2>2 DEF row, v
<1>6. ASSUME NEW b \in Browsers,
             \/ \E v \in Users : LoginRead(b, v)
             \/ LoginCommit(b) \/ Abandoned(b) \/ Logout(b) \/ ResolveSession(b) \/ ResolveUser(b)
             \/ ProfileRead(b) \/ ListRecoveries(b)
             \/ \E r \in Recoveries : RejectRecovery(b, r)
      PROVE  FALSE
  BY <1>6 DEF LoginRead, LoginCommit, Abandoned, Logout, ResolveSession, ResolveUser, ProfileRead,
              ListRecoveries, RejectRecovery
<1>7. ASSUME (\E v \in Users : RequestRecovery(v)) \/ Tick \/ UNCHANGED accessVars
      PROVE  FALSE
  BY <1>7 DEF RequestRecovery, Tick, accessVars
<1>8. CASE \E v \in Users : Bootstrap(v) \/ RequestRecovery(v)
  BY <1>1, <1>7, <1>8
<1>9. ASSUME NEW b \in Browsers, Administration(b)
      PROVE  \/ ~users[u].exists
             \/ \E active \in BOOLEAN, role \in Roles :
                   /\ UpdateUser(b, u, active, role)
                   /\ users'[u] = [exists |-> TRUE, active |-> active, role |-> role,
                                   hash |-> users[u].hash, mustChange |-> users[u].mustChange]
             \/ \E r \in Recoveries :
                   /\ ApproveRecovery(b, r)
                   /\ users'[u] = WithPassword(users[u], lastHash + 1, TRUE)
  <2>1. CASE \E v \in Users, role \in Roles : CreateUser(b, v, role)
    BY <1>2, <2>1
  <2>2. CASE \E v \in Users, active \in BOOLEAN, role \in Roles : UpdateUser(b, v, active, role)
    BY <1>3, <2>2
  <2>3. CASE \E r \in Recoveries : ApproveRecovery(b, r) \/ RejectRecovery(b, r)
    BY <1>4, <1>6, <2>3
  <2>4. CASE ListRecoveries(b)
    BY <1>6, <2>4
  <2> QED
    BY <1>9, <2>1, <2>2, <2>3, <2>4 DEF Administration
<1>10. CASE \E b \in Browsers : ChangePassword(b)
  BY <1>5, <1>10
<1>11. CASE \E b \in Browsers : Administration(b)
  BY <1>9, <1>11
<1> QED
  BY <1>6, <1>7, <1>8, <1>10, <1>11 DEF AccessNext

\* The role and the activity of an account change by another administrator of that moment.
LEMMA AuthorityStep ==
    ASSUME AccessInv, [AccessNext]_accessVars, NEW u \in Users, users[u].exists,
           <<users'[u].role, users'[u].active>> # <<users[u].role, users[u].active>>
    PROVE  \E b \in Browsers : /\ request[b].step = "authenticated"
                               /\ request'[b] = NoRequest
                               /\ request[b].user # u
                               /\ Administrator(request[b].user)
<1>1. users'[u] # users[u]
  OBVIOUS
<1>2. ASSUME NEW h, NEW m, users'[u] = WithPassword(users[u], h, m) PROVE FALSE
  BY <1>2 DEF WithPassword
<1>3. PICK b \in Browsers, active \in BOOLEAN, role \in Roles :
        /\ UpdateUser(b, u, active, role)
        /\ users'[u] = [exists |-> TRUE, active |-> active, role |-> role,
                        hash |-> users[u].hash, mustChange |-> users[u].mustChange]
  <2>1. ASSUME NEW b \in Browsers, NEW r \in Recoveries,
               users'[u] = WithPassword(users[u], lastHash + 1, TRUE)
        PROVE  FALSE
    BY <1>2, <2>1
  <2>2. ASSUME users'[u] = WithPassword(users[u], lastHash + 1, FALSE)
        PROVE  FALSE
    BY <1>2, <2>2
  <2> QED
    BY <1>1, <2>1, <2>2, AccountWriters, Zenon
<1>4. request[b].step = "authenticated" /\ Administrator(request[b].user)
  BY <1>3 DEF UpdateUser, AtAdminRoute, MayUpdate
<1>5. request'[b] = NoRequest
  BY <1>3 DEF UpdateUser, Done, AccessInv, AccessTypeOK
<1>6. ASSUME request[b].user = u PROVE FALSE
  <2>1. active /\ role = "ADMINISTRATOR"
    BY <1>3, <1>6 DEF UpdateUser, MayUpdate
  <2>2. users[u].active /\ users[u].role = "ADMINISTRATOR"
    BY <1>4, <1>6 DEF Administrator
  <2>3. users'[u].active = active /\ users'[u].role = role
    BY <1>3
  <2>4. users[u].active \in BOOLEAN
    BY DEF AccessInv, AccessTypeOK, UserRow
  <2> QED
    BY <2>1, <2>2, <2>3, <2>4
<1> QED
  BY <1>4, <1>5, <1>6

\* A temporary password goes with a session of its owner and takes all sessions along.
LEMMA RestrictionStep ==
    ASSUME AccessInv, [AccessNext]_accessVars, NEW u \in Users,
           users[u].mustChange, ~users'[u].mustChange
    PROVE  /\ \E b \in Browsers : request[b].user = u /\ request[b].hash = users[u].hash
           /\ \A t \in Tokens : sessions'[t].user # u
<1>1. users'[u] # users[u]
  OBVIOUS
<1>2. users[u].exists
  BY DEF AccessInv, RowsHaveOwners, NoUser
<1>3. ASSUME NEW h, users'[u] = WithPassword(users[u], h, TRUE) PROVE FALSE
  BY <1>3 DEF WithPassword
<1>4. PICK b \in Browsers : ChangePassword(b) /\ request[b].user = u
  <2>1. ASSUME users'[u] = WithPassword(users[u], lastHash + 1, TRUE)
        PROVE  FALSE
    BY <1>3, <2>1
  <2>2. ASSUME NEW b \in Browsers, NEW active \in BOOLEAN, NEW role \in Roles,
               users'[u] = [exists |-> TRUE, active |-> active, role |-> role,
                            hash |-> users[u].hash, mustChange |-> users[u].mustChange]
        PROVE  FALSE
    BY <2>2
  <2> QED
    BY <1>1, <1>2, <2>1, <2>2, AccountWriters, Zenon
<1>5. request[b].hash = users[u].hash /\ sessions' = RevokeAll(u)
  BY <1>4 DEF ChangePassword, StillVerified
<1>6. NoSession.user # u
  BY AccessAssumption DEF NoSession, Nobody
<1>7. \A t \in Tokens : sessions'[t].user # u
  BY <1>5, <1>6 DEF RevokeAll
<1> QED
  BY <1>4, <1>5, <1>7

\* A recovery that was settled is not touched again.
LEMMA SettledStep ==
    ASSUME AccessInv, [AccessNext]_accessVars, NEW r \in Recoveries,
           recoveries[r].status \notin {"NONE", "PENDING"}
    PROVE  recoveries'[r] = recoveries[r]
<1>0. AccessTypeOK
  BY DEF AccessInv
<1>1. ASSUME NEW R, NEW status \in Statuses, R \subseteq {x \in Recoveries : Pending(x)},
             recoveries' = Settle(R, status)
      PROVE  recoveries'[r] = recoveries[r]
  <2>1. r \notin R
    BY <1>1 DEF Pending
  <2> QED
    BY <1>0, <1>1, <2>1, SettleType
<1>2. ASSUME NEW u \in Users, RequestRecovery(u) PROVE recoveries'[r] = recoveries[r]
  <2>1. PICK q \in {x \in Recoveries : recoveries[x] = NoRecovery} \cup {Nobody} :
          recoveries' = [x \in Recoveries |->
              IF x = q THEN [user |-> u, status |-> "PENDING",
                             expiresAt |-> now + RecoveryTTL, cred |-> users[u].hash]
                       ELSE Settle(Overdue(u), "EXPIRED")[x]]
    BY <1>2 DEF RequestRecovery
  <2>2. r # q
    BY AccessAssumption, <2>1 DEF NoRecovery, Nobody
  <2>3. r \notin Overdue(u) /\ "EXPIRED" \in Statuses
    BY DEF Overdue, PendingOf, Pending, Statuses
  <2>4. Settle(Overdue(u), "EXPIRED")[r] = recoveries[r]
    BY <1>0, <2>3, SettleType
  <2> QED
    BY <2>1, <2>2, <2>4
<1>3. ASSUME NEW b \in Browsers, ChangePassword(b) PROVE recoveries'[r] = recoveries[r]
  BY <1>1, <1>3 DEF ChangePassword, PendingOf, Statuses
<1>4. ASSUME NEW b \in Browsers, NEW u \in Users, NEW active \in BOOLEAN, NEW role \in Roles,
             UpdateUser(b, u, active, role)
      PROVE  recoveries'[r] = recoveries[r]
  <2>1. recoveries' = recoveries \/ recoveries' = Settle(PendingOf(u), "CANCELLED")
    BY <1>4 DEF UpdateUser
  <2> QED
    BY <1>1, <2>1 DEF PendingOf, Statuses
<1>5. ASSUME NEW b \in Browsers, ListRecoveries(b) PROVE recoveries'[r] = recoveries[r]
  <2>1. recoveries' = Settle(UNION {Overdue(u) : u \in Users}, "EXPIRED")
    BY <1>5 DEF ListRecoveries
  <2>2. UNION {Overdue(u) : u \in Users} \subseteq {x \in Recoveries : Pending(x)}
    BY DEF Overdue, PendingOf
  <2> QED
    BY <1>1, <2>1, <2>2 DEF Statuses
<1>6. ASSUME NEW b \in Browsers, NEW q \in Recoveries, ApproveRecovery(b, q) \/ RejectRecovery(b, q)
      PROVE  recoveries'[r] = recoveries[r]
  <2>1. Pending(q) /\ \E status \in {"APPROVED", "REJECTED"} : recoveries' = Settle({q}, status)
    BY <1>6 DEF ApproveRecovery, RejectRecovery, MayResolve
  <2> QED
    BY <1>1, <2>1 DEF Statuses
<1>7. CASE UNCHANGED recoveries
  BY <1>7
<1>8. ASSUME NEW b \in Browsers, Administration(b) PROVE recoveries'[r] = recoveries[r]
  BY <1>4, <1>5, <1>6, <1>7, <1>8 DEF Administration, CreateUser
<1> QED
  BY <1>2, <1>3, <1>7, <1>8 DEF AccessNext, Bootstrap, LoginRead, LoginCommit, Abandoned, Logout,
       ResolveSession, ResolveUser, ProfileRead, Tick, accessVars

-----------------------------------------------------------------------------
(* The theorems *)

\* Whatever the handlers of several browsers interleave, every variable has its type, a
\* session is of the password and activity in force (rotateSession, deleteSessionsForUser),
\* and a pending recovery is the only one of an account that has not changed its password.
THEOREM CredentialsStayCurrent == AccessSpec => []CredentialsAreCurrent
<1>1. AccessInv => CredentialsAreCurrent
  BY DEF AccessInv, CredentialsAreCurrent
<1> QED
  BY <1>1, AccessInitHolds, AccessStep, PTL DEF AccessSpec

\* Administrators cannot deactivate or demote each other until none is left (update).
THEOREM AdministratorRemains == AccessSpec => []AnAdministratorRemains
<1>1. AccessInv => AnAdministratorRemains
  BY DEF AccessInv
<1> QED
  BY <1>1, AccessInitHolds, AccessStep, PTL DEF AccessSpec

\* Accounts change by another administrator of that moment only, a temporary password is
\* got rid of by its owner, a settled recovery is final, and the events tell it all.
THEOREM AccountsChangeOnlyByRight == AccessSpec => AccountsChangeByRight
<1>1. AccessInv /\ [AccessNext]_accessVars =>
        [\A u \in Users :
           (users[u].exists /\ <<users'[u].role, users'[u].active>> # <<users[u].role, users[u].active>>)
             => \E b \in Browsers : /\ request[b].step = "authenticated"
                                    /\ request'[b] = NoRequest
                                    /\ request[b].user # u
                                    /\ Administrator(request[b].user)]_accessVars
  BY AuthorityStep
<1>2. AccessInv /\ [AccessNext]_accessVars =>
        [/\ \A u \in Users : (users[u].mustChange /\ ~users'[u].mustChange) =>
              /\ \E b \in Browsers : request[b].user = u /\ request[b].hash = users[u].hash
              /\ \A t \in Tokens : sessions'[t].user # u
         /\ \A r \in Recoveries : recoveries[r].status \notin {"NONE", "PENDING"} =>
              recoveries'[r] = recoveries[r]]_accessVars
  BY RestrictionStep, SettledStep
<1>3. AccessInv => HistoryTellsTheAccounts
  BY DEF AccessInv
<1> QED
  BY <1>1, <1>2, <1>3, AccessInitHolds, AccessStep, PTL
     DEF AccessSpec, AccountsChangeByRight, AuthorityIsCurrentAndAnothers, RestrictionAndRecoveryFinal

-----------------------------------------------------------------------------
(* Transactions: the rule of the last administrator *)

\* The rule of the handler protects the last administrator, whoever the actor and the
\* target are, in the state it is evaluated on (users/service.ts, update): the actor is
\* an administrator and stays one, so that the count of administrators is not even needed.
LEMMA ApplyKeepsAnAdministrator ==
    ASSUME NEW r \in Changes, NEW s \in [Accounts -> {"ADMINISTRATOR", "SELLER"}], Allowed(s, r)
    PROVE  Administrators(Apply(s, r)) # {}
<1>1. /\ r.actor \in Accounts /\ r.target \in Accounts
      /\ r.to \in {"ADMINISTRATOR", "SELLER"}
  BY RequestsAssumption
<1>2. r.actor \in Administrators(s)
  BY DEF Allowed
<1>3. CASE r.actor # r.target
  BY <1>1, <1>2, <1>3 DEF Administrators, Apply
<1>4. CASE r.actor = r.target
  <2>1. r.to = "ADMINISTRATOR"
    BY <1>4 DEF Allowed, Removes
  <2> QED
    BY <1>1, <1>4, <2>1 DEF Administrators, Apply
<1> QED
  BY <1>3, <1>4

-----------------------------------------------------------------------------
(* Transactions: the inductive invariant *)

\* A running attempt belongs to a request that is not answered, and what is begun again
\* has an attempt left.
AttemptsCounted ==
    \A r \in Changes :
        /\ tx[r].phase = "running" => answer[r] = "none" /\ tx[r].attempt > 0
        /\ answer[r] = "none" /\ tx[r].phase = "idle" => tx[r].attempt < MaxAttempts

TxInv == TxTypeOK /\ AttemptsCounted /\ SomeAdministratorRemains

\* An attempt that ends keeps its type and its count, whatever the outcome.
LEMMA AttemptEnds ==
    ASSUME TxTypeOK, NEW r \in Changes, tx' = [tx EXCEPT ![r] = Ended(@)]
    PROVE  /\ tx' \in [Changes -> [phase : {"idle", "running"}, attempt : 0 .. MaxAttempts,
                           snapshot : [Accounts -> {"ADMINISTRATOR", "SELLER"}] \cup {NoSnapshot}]]
           /\ \A q \in Changes : q # r => tx'[q] = tx[q]
           /\ tx'[r].phase = "idle" /\ tx'[r].attempt = tx[r].attempt
<1> DEFINE T == [phase : {"idle", "running"}, attempt : 0 .. MaxAttempts,
                 snapshot : [Accounts -> {"ADMINISTRATOR", "SELLER"}] \cup {NoSnapshot}]
<1>1. tx \in [Changes -> T]
  BY DEF TxTypeOK
<1>2. Ended(tx[r]) \in T
  BY <1>1 DEF Ended
<1>3. Ended(tx[r]).phase = "idle" /\ Ended(tx[r]).attempt = tx[r].attempt
  BY DEF Ended
<1>4. tx' = [tx EXCEPT ![r] = Ended(tx[r])]
  OBVIOUS
<1> HIDE DEF T
<1>5. tx' \in [Changes -> T]
  BY <1>1, <1>2, <1>4
<1>6. /\ \A q \in Changes : q # r => tx'[q] = tx[q]
      /\ tx'[r] = Ended(tx[r])
  BY <1>1, <1>4
<1> QED
  BY <1>3, <1>5, <1>6 DEF T

\* A request that is answered keeps the invariant, whatever the answer and the roles.
LEMMA AnswerKeepsTheCount ==
    ASSUME TxInv, NEW r \in Changes, NEW what \in {"done", "refused", "conflict", "lost"},
           Answer(r, what)
    PROVE  /\ answer' \in [Changes -> {"none", "done", "refused", "conflict", "lost"}]
           /\ tx' \in [Changes -> [phase : {"idle", "running"}, attempt : 0 .. MaxAttempts,
                           snapshot : [Accounts -> {"ADMINISTRATOR", "SELLER"}] \cup {NoSnapshot}]]
           /\ AttemptsCounted'
<1>1. TxTypeOK /\ AttemptsCounted
  BY DEF TxInv
<1>2. answer' = [answer EXCEPT ![r] = what] /\ tx' = [tx EXCEPT ![r] = Ended(@)]
  BY DEF Answer
<1>3. answer' \in [Changes -> {"none", "done", "refused", "conflict", "lost"}]
  BY <1>1, <1>2 DEF TxTypeOK
<1>4. /\ \A q \in Changes : q # r => answer'[q] = answer[q]
      /\ answer'[r] # "none"
  BY <1>1, <1>2 DEF TxTypeOK
<1>5. /\ \A q \in Changes : q # r => tx'[q] = tx[q]
      /\ tx'[r].phase = "idle"
  BY <1>1, <1>2, AttemptEnds
<1>6. AttemptsCounted'
  <2> SUFFICES ASSUME NEW q \in Changes
               PROVE  /\ tx'[q].phase = "running" => answer'[q] = "none" /\ tx'[q].attempt > 0
                      /\ answer'[q] = "none" /\ tx'[q].phase = "idle" => tx'[q].attempt < MaxAttempts
    BY DEF AttemptsCounted
  <2>1. CASE q = r
    BY <1>4, <1>5, <2>1
  <2>2. CASE q # r
    BY <1>1, <1>4, <1>5, <2>2 DEF AttemptsCounted
  <2> QED
    BY <2>1, <2>2
<1> QED
  BY <1>1, <1>2, <1>3, <1>6, AttemptEnds

\* The initial roles have an administrator, and no request has begun.
LEMMA TxInitHolds == TxInit => TxInv
<1> SUFFICES ASSUME TxInit PROVE TxInv
  OBVIOUS
<1>1. MaxAttempts \in Nat \ {0}
  BY MaxAttemptsAssumption
<1>2. TxTypeOK
  BY <1>1 DEF TxInit, AtomicInit, TxTypeOK
<1>3. AttemptsCounted
  BY <1>1 DEF TxInit, AtomicInit, AttemptsCounted
<1>4. SomeAdministratorRemains
  BY DEF TxInit, AtomicInit, SomeAdministratorRemains
<1> QED
  BY <1>2, <1>3, <1>4 DEF TxInv

\* Every step of the wrapper keeps it.
LEMMA TxStep == TxInv /\ [TxNext]_txVars => TxInv'
<1> SUFFICES ASSUME TxInv, [TxNext]_txVars PROVE TxInv'
  OBVIOUS
<1> USE DEF TxInv
<1>1. ASSUME NEW r \in Changes, BeginAttempt(r) PROVE TxInv'
  <2> DEFINE T == [phase : {"idle", "running"}, attempt : 0 .. MaxAttempts,
                   snapshot : [Accounts -> {"ADMINISTRATOR", "SELLER"}] \cup {NoSnapshot}]
             e == [phase |-> "running", attempt |-> tx[r].attempt + 1, snapshot |-> roles]
  <2>1. tx \in [Changes -> T] /\ roles \in [Accounts -> {"ADMINISTRATOR", "SELLER"}]
    BY DEF TxTypeOK
  <2>2. tx[r].attempt \in 0 .. MaxAttempts /\ tx[r].attempt < MaxAttempts /\ MaxAttempts \in Nat
    BY <1>1, <2>1, MaxAttemptsAssumption DEF BeginAttempt, AttemptsCounted
  <2>3. tx[r].attempt + 1 \in 0 .. MaxAttempts /\ tx[r].attempt + 1 > 0
    BY <2>2
  <2>4. NextAttempt(tx[r].attempt) = tx[r].attempt + 1
    BY <2>2 DEF NextAttempt
  <2>5. e \in T /\ e.phase = "running" /\ e.attempt > 0
    BY <2>1, <2>3
  <2>6. tx' = [tx EXCEPT ![r] = e]
    BY <1>1, <2>4 DEF BeginAttempt
  <2>7. UNCHANGED <<roles, answer>> /\ answer[r] = "none"
    BY <1>1 DEF BeginAttempt
  <2> HIDE DEF e, T
  <2>8. /\ tx' \in [Changes -> T]
        /\ \A q \in Changes : q # r => tx'[q] = tx[q]
        /\ tx'[r] = e
    BY <2>1, <2>5, <2>6
  <2>9. TxTypeOK'
    BY <2>7, <2>8 DEF TxTypeOK, T
  <2>10. AttemptsCounted'
    BY <2>5, <2>7, <2>8 DEF AttemptsCounted
  <2> QED
    BY <2>7, <2>9, <2>10 DEF SomeAdministratorRemains
<1>2. ASSUME NEW r \in Changes, RefuseRequest(r) PROVE TxInv'
  <2>1. UNCHANGED roles /\ Answer(r, "refused")
    BY <1>2 DEF RefuseRequest
  <2> QED
    BY <2>1, AnswerKeepsTheCount DEF TxTypeOK, SomeAdministratorRemains
<1>3. ASSUME NEW r \in Changes, Commit(r) PROVE TxInv'
  <2>1. /\ tx[r].snapshot = roles
        /\ Allowed(roles, r)
        /\ roles' = Apply(roles, r)
        /\ Answer(r, "done")
    BY <1>3 DEF Commit, Validated, Apply
  <2>2. roles \in [Accounts -> {"ADMINISTRATOR", "SELLER"}]
    BY DEF TxTypeOK
  <2>3. r.target \in Accounts /\ r.to \in {"ADMINISTRATOR", "SELLER"}
    BY RequestsAssumption
  <2>4. roles' \in [Accounts -> {"ADMINISTRATOR", "SELLER"}]
    BY <2>1, <2>2, <2>3 DEF Apply
  <2>5. SomeAdministratorRemains'
    BY <2>1, <2>2, ApplyKeepsAnAdministrator DEF SomeAdministratorRemains
  <2> QED
    BY <2>1, <2>4, <2>5, AnswerKeepsTheCount DEF TxTypeOK
<1>4. ASSUME NEW r \in Changes, Conflict(r) PROVE TxInv'
  <2>1. UNCHANGED roles
    BY <1>4 DEF Conflict
  <2>2. CASE MayRetry(r) /\ tx' = [tx EXCEPT ![r] = Ended(@)] /\ UNCHANGED answer
    <3>1. AttemptsCounted'
      BY <2>2, AttemptEnds DEF AttemptsCounted, MayRetry
    <3> QED
      BY <2>1, <2>2, <3>1, AttemptEnds DEF TxTypeOK, SomeAdministratorRemains
  <2>3. CASE Answer(r, "conflict")
    BY <2>1, <2>3, AnswerKeepsTheCount DEF TxTypeOK, SomeAdministratorRemains
  <2> QED
    BY <1>4, <2>2, <2>3 DEF Conflict
<1>5. ASSUME NEW r \in Changes, ProcessStops(r) PROVE TxInv'
  <2>1. UNCHANGED roles /\ Answer(r, "lost")
    BY <1>5 DEF ProcessStops
  <2> QED
    BY <2>1, AnswerKeepsTheCount DEF TxTypeOK, SomeAdministratorRemains
<1>6. CASE UNCHANGED txVars
  BY <1>6 DEF txVars, TxTypeOK, AttemptsCounted, SomeAdministratorRemains
<1> QED
  BY <1>1, <1>2, <1>3, <1>4, <1>5, <1>6 DEF TxNext

-----------------------------------------------------------------------------
(* Transactions: the theorems *)

\* Every attempt is within the last one and belongs to a request not yet answered
\* (accountTransaction: attempt < 3 begins another one, and a commit returns).
THEOREM AttemptsAreBounded == TxSpec => [](TxTypeOK /\ AttemptsCounted)
<1>1. TxInv => TxTypeOK /\ AttemptsCounted
  BY DEF TxInv
<1> QED
  BY <1>1, TxInitHolds, TxStep, PTL DEF TxSpec

\* Administrators who demote each other at the same moment never leave the company
\* without one (users/service.ts, update, inside accountTransaction).
THEOREM AnAdministratorIsLeft == TxSpec => []SomeAdministratorRemains
<1>1. TxInv => SomeAdministratorRemains
  BY DEF TxInv
<1> QED
  BY <1>1, TxInitHolds, TxStep, PTL DEF TxSpec

\* The wrapper implements AtomicRequests: a request takes effect once, under the rule
\* evaluated on the state it changes, or leaves nothing behind (transaction.ts).
THEOREM WrapperIsAtomic == TxSpec => EffectsAreAtomic
<1>1. TxInit => AtomicInit
  BY DEF TxInit
<1>2. TxInv /\ [TxNext]_txVars => [AtomicNext]_<<roles, answer>>
  <2> SUFFICES ASSUME TxInv, [TxNext]_txVars
               PROVE  AtomicNext \/ UNCHANGED <<roles, answer>>
    OBVIOUS
  <2>1. ASSUME NEW r \in Changes, BeginAttempt(r) PROVE UNCHANGED <<roles, answer>>
    BY <2>1 DEF BeginAttempt
  <2>2. ASSUME NEW r \in Changes, NEW why \in {"refused", "conflict", "lost"},
               tx[r].phase = "running", Answer(r, why), UNCHANGED roles
        PROVE  AtomicNext
    <3>1. answer[r] = "none" /\ answer' = [answer EXCEPT ![r] = why]
      BY <2>2 DEF TxInv, AttemptsCounted, Answer
    <3>2. Decline(r)
      BY <2>2, <3>1 DEF Decline
    <3> QED
      BY <3>2 DEF AtomicNext
  <2>3. ASSUME NEW r \in Changes, RefuseRequest(r) PROVE AtomicNext
    BY <2>2, <2>3 DEF RefuseRequest
  <2>4. ASSUME NEW r \in Changes, Commit(r) PROVE AtomicNext
    <3>1. answer[r] = "none" /\ answer' = [answer EXCEPT ![r] = "done"]
      BY <2>4 DEF TxInv, AttemptsCounted, Commit, Answer
    <3>2. /\ Allowed(roles, r)
          /\ roles' = [roles EXCEPT ![r.target] = r.to]
      BY <2>4 DEF Commit, Validated
    <3>3. roles' = Apply(roles, r)
      BY <3>2 DEF Apply
    <3>4. Do(r)
      BY <3>1, <3>2, <3>3 DEF Do
    <3> QED
      BY <3>4 DEF AtomicNext
  <2>5. ASSUME NEW r \in Changes, Conflict(r)
        PROVE  AtomicNext \/ UNCHANGED <<roles, answer>>
    BY <2>2, <2>5 DEF Conflict
  <2>6. ASSUME NEW r \in Changes, ProcessStops(r) PROVE AtomicNext
    BY <2>2, <2>6 DEF ProcessStops
  <2> QED
    BY <2>1, <2>3, <2>4, <2>5, <2>6 DEF TxNext, txVars
<1> QED
  BY <1>1, <1>2, TxInitHolds, TxStep, PTL DEF TxSpec, EffectsAreAtomic, AtomicSpec
=============================================================================
