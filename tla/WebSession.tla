----------------------------- MODULE WebSession -----------------------------
(***************************************************************************)
(* Who the web client believes is signed in: AuthContext, the route guards *)
(* and the return path of the login page, in the tabs of one browser.      *)
(*                                                                         *)
(* The tabs share the session cookie and nothing else.  Each loads the     *)
(* signed-in user with two requests, again whenever it regains the focus,  *)
(* while a login, a logout or a password change of any tab, or a revoked   *)
(* session, changes what the cookie is worth.  A request is sent with the  *)
(* cookie of that moment, handled later and answered later still; either   *)
(* half may be lost.                                                       *)
(***************************************************************************)
EXTENDS Naturals, FiniteSets

CONSTANTS
    Tabs,             \* tabs of the browser
    Usernames,         \* usernames
    RoleOf,           \* the role of each account
    Capabilities,     \* the capabilities the release turns on
    FirstPaths,       \* addresses a tab may be opened at
    Links,            \* the links that users follow, of those a page offers
    FirstTemporary,   \* accounts whose password was given by an administrator
    MaxSessions,      \* bound on the sessions the server keeps or kept
    Budgets           \* bounds, by scene: how many returns to a tab, forms sent,
                      \* revocations, lost requests and new sessions it has

Nobody == "nobody"
NoOne == [id |-> Nobody, must |-> FALSE]
NoPath == "none"

Paths == {"/login", "/sales", "/sales/quote", "/users", "/profile",
          "/mechanic/pending", "/mechanic/profile"}

ASSUME WebSessionAssumption ==
    /\ RoleOf \in [Usernames -> {"ADMINISTRATOR", "SELLER", "MECHANIC"}]
    /\ Nobody \notin Usernames
    /\ FirstPaths \cup Links \subseteq Paths
    /\ FirstTemporary \subseteq Usernames
    /\ MaxSessions \in Nat \ {0}
    /\ Budgets \subseteq [focus : Nat, submits : Nat, revocations : Nat, lost : Nat,
                          sessions : 0..(MaxSessions - 1)]

VARIABLES
    cookie,      \* the session id in the browser's cookie, 0 when there is none
    owner,       \* the account of each session, nobody once revoked or not yet created
    temporary,   \* accounts whose password must be changed
    tabs,        \* AuthProvider and the location of each tab
    loads,       \* calls of loadAuthUser in flight
    submits,     \* logins, logouts and profile changes in flight
    budget       \* how much of each bound is left

sessionVars == <<cookie, owner, temporary, tabs, loads, submits, budget>>

-----------------------------------------------------------------------------
(* The routes *)

Screens == [p \in {"/sales", "/users"} |->
    IF p = "/sales" THEN [roles |-> {"ADMINISTRATOR", "SELLER"}, capability |-> "sales"]
    ELSE [roles |-> {"ADMINISTRATOR"}, capability |-> "users"]]

\* The screen of a quotation is routed, and is not among the known desktop routes.
KnownDesktopRoutes == {"/sales", "/users", "/profile"}
KnownMechanicRoutes == {"/mechanic/pending", "/mechanic/profile"}

isRouteAllowedForRole(p, role) ==
    p \in DOMAIN Screens => /\ role \in Screens[p].roles
                            /\ Screens[p].capability \in Capabilities

isPathAllowedForRole(p, role) ==
    \/ /\ p \in KnownMechanicRoutes
       /\ role = "MECHANIC"
       /\ p = "/mechanic/profile" \/ "workOrders" \in Capabilities
    \/ /\ p \in KnownDesktopRoutes
       /\ role # "MECHANIC"
       /\ isRouteAllowedForRole(p, role)

ProfilePath(role) == IF role = "MECHANIC" THEN "/mechanic/profile" ELSE "/profile"

\* The index of /mechanic redirects to the orders of the mechanic.
defaultPathForRole(role) ==
    CASE role = "MECHANIC" /\ "workOrders" \in Capabilities -> "/mechanic/pending"
      [] role # "MECHANIC" /\ "sales" \in Capabilities -> "/sales"
      [] role = "ADMINISTRATOR" /\ Capabilities \cap {"sales", "users"} = {"users"} -> "/users"
      [] OTHER -> ProfilePath(role)

postLoginPath(requested, role) ==
    IF isPathAllowedForRole(requested, role) THEN requested ELSE defaultPathForRole(role)

\* Mutant: the mark of a logout is not read.
KeepsTheAddress(tab) == tab.from

resolvePostLoginRequestedPath(tab) == IF tab.discard THEN NoPath ELSE tab.from

\* GuestRoute: a signed-in user leaves the login page, which forgets the mark of a logout.
GuestRoute(tab) ==
    LET role == RoleOf[tab.user.id]
    IN  [tab EXCEPT !.path = IF tab.user.must THEN ProfilePath(role)
                             ELSE postLoginPath(resolvePostLoginRequestedPath(tab), role),
                    !.from = NoPath, !.discard = FALSE, !.waiting = {}, !.leftBy = "none"]

\* ProtectedRoute: a guest goes to the login page, which keeps the address left; a
\* temporary password confines its user to the profile.
ProtectedRoute(tab) ==
    CASE tab.user = NoOne ->
            [tab EXCEPT !.path = "/login", !.from = tab.path, !.waiting = {}]
      [] tab.user # NoOne /\ tab.user.must -> [tab EXCEPT !.path = ProfilePath(RoleOf[tab.user.id])]
      [] OTHER -> tab

\* The guard of the page a tab is on, which runs whenever its user or address changes.
Guarded(tab) ==
    IF tab.loading \/ tab.failed THEN tab
    ELSE CASE tab.path # "/login" -> ProtectedRoute(tab)
           [] tab.path = "/login" /\ tab.user # NoOne -> GuestRoute(tab)
           [] OTHER -> tab

-----------------------------------------------------------------------------
(* The session *)

OwnerOf(sid) == IF sid = 0 THEN Nobody ELSE owner[sid]

SignedIn == OwnerOf(cookie)

\* Once the session changes, what a tab or a load has read of it may not be true:
\* "known" and "clean" only serve to state what follows.
Outdated == [t \in Tabs |-> [tabs[t] EXCEPT !.known = FALSE]]
OutdatedLoads == {[l EXCEPT !.clean = FALSE] : l \in loads}

LoadOf(t, submit, sid) ==
    [tab |-> t, generation |-> tabs[t].generation + 1, submit |-> submit, sid |-> sid,
     step |-> "session", user |-> NoOne, lost |-> FALSE, clean |-> TRUE]

NextGeneration(tab) == [tab EXCEPT !.generation = @ + 1]

clearSession(tab) == [NextGeneration(tab) EXCEPT !.user = NoOne, !.failed = FALSE]

Spend(what) ==
    /\ budget[what] > 0
    /\ budget' = [budget EXCEPT ![what] = @ - 1]

\* A page is opened in each tab: the mount effect of AuthProvider has begun a load.
SessionInit ==
    /\ \E a \in Usernames \cup {Nobody} :
         /\ owner = [s \in 1..MaxSessions |-> IF s = 1 THEN a ELSE Nobody]
         /\ cookie = IF a = Nobody THEN 0 ELSE 1
    /\ temporary = FirstTemporary
    /\ tabs \in [Tabs -> {[user |-> NoOne, loading |-> TRUE, failed |-> FALSE,
                           generation |-> 1, path |-> p, from |-> NoPath, discard |-> FALSE,
                           waiting |-> {}, known |-> FALSE, leftBy |-> "none"]
                            : p \in FirstPaths}]
    /\ loads = {[LoadOf(t, 0, cookie) EXCEPT !.generation = 1] : t \in Tabs}
    /\ submits = {}
    /\ budget \in Budgets

-----------------------------------------------------------------------------
(* Loading the signed-in user *)

\* refresh: the tab regains the focus, or the user presses "Reintentar".
Focus(t) ==
    /\ tabs' = [tabs EXCEPT ![t] = NextGeneration(@)]
    /\ loads' = loads \cup {LoadOf(t, 0, cookie)}
    /\ Spend("focus")
    /\ UNCHANGED <<cookie, owner, temporary, submits>>

\* GET /session: without a session the load is over, else it asks for the profile.
ReadSession(l) ==
    LET who == OwnerOf(l.sid)
    IN  /\ l.step = "session"
        /\ loads' = (loads \ {l}) \cup
             {IF who = Nobody THEN [l EXCEPT !.step = "done"]
              ELSE [l EXCEPT !.step = "me", !.sid = cookie,
                             !.user = [id |-> who, must |-> who \in temporary]]}
        /\ UNCHANGED <<cookie, owner, temporary, tabs, submits, budget>>

\* GET /me: the identity stays the one of the session read before.
ReadProfile(l) ==
    /\ l.step = "me"
    /\ loads' = (loads \ {l}) \cup
         {[l EXCEPT !.step = "done", !.user = IF OwnerOf(l.sid) = Nobody THEN NoOne ELSE @]}
    /\ UNCHANGED <<cookie, owner, temporary, tabs, submits, budget>>

LoseLoad(l) ==
    /\ l.step # "done"
    /\ loads' = (loads \ {l}) \cup {[l EXCEPT !.step = "done", !.lost = TRUE]}
    /\ Spend("lost")
    /\ UNCHANGED <<cookie, owner, temporary, tabs, submits>>

Superseded(tab, l) == l.generation # tab.generation

\* Mutant: an error leaves the page loading.
FailsInSilence(tab) == [tab EXCEPT !.failed = TRUE, !.waiting = {}]

\* What refresh makes of an error: the whole page is replaced by it.
PageFails(tab) == [tab EXCEPT !.failed = TRUE, !.loading = FALSE, !.waiting = {}]

\* The end of refresh, and of login, whose form shows its error itself.
Settled(tab, l) ==
    LET answered == [tab EXCEPT !.waiting = @ \ {l.submit}]
        refresh == l.submit = 0
    IN  IF Superseded(tab, l) THEN answered
        ELSE CASE l.lost /\ refresh -> PageFails(tab)
               [] l.lost /\ ~refresh -> answered
               [] OTHER -> [answered EXCEPT !.user = l.user, !.failed = FALSE,
                                            !.loading = @ /\ ~refresh, !.known = @ \/ l.clean]

LoadSettles(l) ==
    /\ l.step = "done"
    /\ tabs' = [tabs EXCEPT ![l.tab] = Guarded(Settled(@, l))]
    /\ loads' = loads \ {l}
    /\ UNCHANGED <<cookie, owner, temporary, submits, budget>>

-----------------------------------------------------------------------------
(* What the user does *)

Usable(t) == ~tabs[t].loading /\ ~tabs[t].failed

Waits(t, kinds) == \E c \in submits : c.no \in tabs[t].waiting /\ c.kind \in kinds

\* The navigation of the shell, the profile in the user menu, a quotation of the list;
\* a temporary password hides the navigation.
Offered(tab) ==
    LET role == RoleOf[tab.user.id]
        nav == {p \in {"/sales", "/users", "/mechanic/pending"} : isPathAllowedForRole(p, role)}
    IN  {ProfilePath(role)} \cup (IF tab.user.must THEN {} ELSE nav)
                            \cup (IF tab.path = "/sales" THEN {"/sales/quote"} ELSE {})

\* The dialog that confirms a logout covers the page until it is answered.
Visit(t, p) ==
    /\ Usable(t) /\ tabs[t].user # NoOne
    /\ p \in Offered(tabs[t])
    /\ ~Waits(t, {"logout"})
    /\ p # tabs[t].path
    /\ tabs' = [tabs EXCEPT ![t] = Guarded([@ EXCEPT !.path = p, !.waiting = {}])]
    /\ UNCHANGED <<cookie, owner, temporary, loads, submits, budget>>

Submit(t, kind, account) ==
    /\ Usable(t)
    /\ submits' = submits \cup {[no |-> budget.submits, tab |-> t, kind |-> kind,
                                 account |-> account, sid |-> cookie,
                                 step |-> "sent", answer |-> "none"]}
    /\ tabs' = [tabs EXCEPT ![t].waiting = @ \cup {budget.submits}]
    /\ Spend("submits")
    /\ UNCHANGED <<cookie, owner, temporary, loads>>

SubmitLogin(t, a) ==
    /\ tabs[t].path = "/login" /\ tabs[t].user = NoOne
    /\ tabs[t].waiting = {}
    /\ Submit(t, "login", a)

SubmitLogout(t) ==
    /\ tabs[t].user # NoOne
    /\ ~Waits(t, {"logout"})
    /\ Submit(t, "logout", tabs[t].user.id)

SubmitProfile(t, kind) ==
    /\ tabs[t].user # NoOne /\ tabs[t].path = ProfilePath(RoleOf[tabs[t].user.id])
    /\ tabs[t].waiting = {}
    /\ Submit(t, kind, tabs[t].user.id)

-----------------------------------------------------------------------------
(* What the server does *)

Handled(c, answer, sid) ==
    submits' = (submits \ {c}) \cup {[c EXCEPT !.step = "handled", !.answer = answer, !.sid = sid]}

Without(gone) == [s \in DOMAIN owner |-> IF s \in gone THEN Nobody ELSE owner[s]]

SessionsOf(a) == {s \in DOMAIN owner : owner[s] = a}

OwnersBecome(owners) ==
    /\ owner' = owners
    /\ IF cookie # 0 /\ owners[cookie] # owner[cookie]
       THEN tabs' = Outdated /\ loads' = OutdatedLoads
       ELSE UNCHANGED <<tabs, loads>>

\* AccessService.login with good credentials replaces the session of the cookie it got.
HandleLogin(c) ==
    /\ c.kind = "login" /\ c.step = "sent"
    /\ Spend("sessions")
    /\ LET new == MaxSessions + 1 - budget.sessions
       IN  /\ OwnersBecome([Without({c.sid}) EXCEPT ![new] = c.account])
           /\ Handled(c, "ok", new)
    /\ UNCHANGED <<cookie, temporary>>

\* AccessService.logout: that the session is gone already is no error.
HandleLogout(c) ==
    /\ c.kind = "logout" /\ c.step = "sent"
    /\ OwnersBecome(Without({c.sid}))
    /\ Handled(c, "ok", c.sid)
    /\ UNCHANGED <<cookie, temporary, budget>>

\* PATCH /me; the current password typed is that of the account the form shows.
HandleProfile(c) ==
    LET a == OwnerOf(c.sid)
        changes == c.kind = "password" /\ a = c.account
    IN  /\ c.kind \in {"contact", "password"} /\ c.step = "sent"
        /\ Handled(c, CASE a = Nobody -> "unauthorized"
                        [] a # Nobody /\ c.kind = "password" /\ a # c.account -> "refused"
                        [] OTHER -> "ok", c.sid)
        /\ OwnersBecome(IF changes THEN Without(SessionsOf(a)) ELSE owner)
        /\ temporary' = IF changes THEN temporary \ {a} ELSE temporary
        /\ UNCHANGED <<cookie, budget>>

\* A request is refused or lost on its way, without an effect, or its answer is lost.
LoseSubmit(c) ==
    /\ c.answer # "lost"
    /\ Handled(c, "lost", c.sid)
    /\ Spend("lost")
    /\ UNCHANGED <<cookie, owner, temporary, tabs, loads>>

\* An administrator resets a password, or the sessions of an account end for another reason.
Revoke(a, reset) ==
    /\ SessionsOf(a) # {}
    /\ OwnersBecome(Without(SessionsOf(a)))
    /\ temporary' = IF reset THEN temporary \cup {a} ELSE temporary
    /\ Spend("revocations")
    /\ UNCHANGED <<cookie, submits>>

-----------------------------------------------------------------------------
(* What a tab does with the answers *)

\* An answer to c arrives and sets the cookie; After(tab) is what the tab makes of it.
Arrives(c, sid, After(_), begun) ==
    LET before == IF sid # cookie THEN Outdated ELSE tabs
    IN  /\ cookie' = sid
        /\ tabs' = [before EXCEPT ![c.tab] = After(@)]
        /\ loads' = begun \cup IF sid # cookie THEN OutdatedLoads ELSE loads
        /\ submits' = submits \ {c}
        /\ UNCHANGED <<owner, temporary, budget>>

Answered(tab, c) == [tab EXCEPT !.waiting = @ \ {c.no}]

LoginAnswered(c) ==
    /\ c.kind = "login" /\ c.step = "handled"
    /\ IF c.answer = "ok"
       THEN Arrives(c, c.sid, NextGeneration, {LoadOf(c.tab, c.no, c.sid)})
       ELSE LET After(tab) == Answered(tab, c) IN Arrives(c, cookie, After, {})

LogoutAnswered(c) ==
    LET SignedOut(tab) ==
            Guarded([clearSession(Answered(tab, c)) EXCEPT !.discard = TRUE, !.leftBy = "logout",
                                                           !.known = TRUE])
        Told(tab) == Answered(tab, c)
    IN  /\ c.kind = "logout" /\ c.step = "handled"
        /\ IF c.answer = "ok" THEN Arrives(c, 0, SignedOut, {}) ELSE Arrives(c, cookie, Told, {})

\* useProfile: a new password has ended every session; an expired one is left at once.
ProfileAnswered(c) ==
    LET Changed(tab) == Guarded([clearSession(Answered(tab, c)) EXCEPT !.known = TRUE])
        Expired(tab) == Guarded([clearSession(Answered(tab, c)) EXCEPT !.known = FALSE])
        Reloads(tab) == NextGeneration(Answered(tab, c))
        Told(tab) == Answered(tab, c)
    IN  /\ c.kind \in {"contact", "password"} /\ c.step = "handled"
        /\ CASE c.answer = "ok" /\ c.kind = "password" -> Arrives(c, 0, Changed, {})
             [] c.answer = "ok" /\ c.kind = "contact" ->
                    Arrives(c, cookie, Reloads, {LoadOf(c.tab, 0, cookie)})
             [] c.answer = "unauthorized" -> Arrives(c, cookie, Expired, {})
             [] OTHER -> Arrives(c, cookie, Told, {})

Serves(c) == HandleLogin(c) \/ HandleLogout(c) \/ HandleProfile(c)
SubmitAnswers(c) == LoginAnswered(c) \/ LogoutAnswered(c) \/ ProfileAnswered(c)
LoadAdvances(l) == ReadSession(l) \/ ReadProfile(l) \/ LoadSettles(l)

SessionNext ==
    \/ \E t \in Tabs : \/ Focus(t) \/ SubmitLogout(t)
                       \/ \E p \in Links : Visit(t, p)
                       \/ \E a \in Usernames : SubmitLogin(t, a)
                       \/ \E kind \in {"contact", "password"} : SubmitProfile(t, kind)
    \/ \E l \in loads : LoadAdvances(l) \/ LoseLoad(l)
    \/ \E c \in submits : Serves(c) \/ LoseSubmit(c) \/ SubmitAnswers(c)
    \/ \E a \in Usernames, reset \in BOOLEAN : Revoke(a, reset)

\* The server answers a load, or the browser gives up; nobody has to log in.
SessionFairness == WF_sessionVars(\E l \in loads : LoadAdvances(l))

SessionSpec == SessionInit /\ [][SessionNext]_sessionVars

-----------------------------------------------------------------------------
(* Properties *)

SessionTypeOK ==
    /\ cookie \in 0..MaxSessions
    /\ owner \in [1..MaxSessions -> Usernames \cup {Nobody}]
    /\ temporary \subseteq Usernames
    /\ \A t \in Tabs :
         /\ tabs[t].user.id \in Usernames \cup {Nobody}
         /\ tabs[t].path \in Paths
         /\ tabs[t].waiting \subseteq Nat
         /\ tabs[t].generation >= 1
    /\ \A l \in loads : l.tab \in Tabs /\ l.generation <= tabs[l.tab].generation
    /\ \A c \in submits : c.tab \in Tabs /\ c.account \in Usernames

\* Once a tab has been told who is signed in by a load begun after the last change of
\* the session, or by the answer to its own logout, no older answer makes it show
\* anybody else: loads, logins and logouts of several tabs overlap, and generation is
\* what keeps their answers apart.
KnownUserIsShown == \A t \in Tabs : tabs[t].known => tabs[t].user.id = SignedIn

\* The page a user lands on after the login page is one the user's role may open,
\* whoever was there before, and the profile when the password is temporary.
LandingIsAllowed ==
    [][\A t \in Tabs :
         LET tab == tabs'[t]
             role == RoleOf[tab.user.id]
         IN  tabs[t].path = "/login" /\ tab.path # "/login" =>
                 /\ isPathAllowedForRole(tab.path, role)
                 /\ tab.user.must => tab.path = ProfilePath(role)]_sessionVars

\* After a logout the next user of the tab starts at a home page, never at the screen
\* the one who logged out has left, in whatever order focus and answers come.
LogoutForgetsTheScreen ==
    [][\A t \in Tabs :
         LET role == RoleOf[tabs'[t].user.id]
         IN  tabs[t].leftBy = "logout" /\ tabs'[t].path # tabs[t].path =>
                 tabs'[t].path \in {"/login", ProfilePath(role), defaultPathForRole(role)}
         ]_sessionVars

\* "Cargando sesión" goes away, with a user, the login page or an error.
LoadingEnds == (\E t \in Tabs : tabs[t].loading) ~> (\A t \in Tabs : ~tabs[t].loading)

\* A tab shows the user who is signed in and lands where that user belongs, after any
\* login, logout or expiry in any other tab.
SessionIsShown ==
    [](SessionTypeOK /\ KnownUserIsShown) /\ LandingIsAllowed /\ LogoutForgetsTheScreen
=============================================================================
