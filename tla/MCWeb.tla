------------------------------- MODULE MCWeb -------------------------------
(***************************************************************************)
(* The web client against answers that come late, twice or never, for TLC. *)
(* Four parts that share no state, of which the initial state chooses one: *)
(* the pages that load and reload lists, the loop that reads a list page   *)
(* by page, the session in two tabs, and the transactions every request of *)
(* theirs ends in.                                                         *)
(***************************************************************************)
EXTENDS WebPages, PageWalk, WebSession, Transactions

VARIABLE scene

webVars == <<scene, pagesVars, walkVars, sessionVars, txVars>>

Scenes == {"pages", "walk", "session", "requests"}

\* The other parts rest.
Only(part) ==
    /\ scene = part
    /\ UNCHANGED scene
    /\ part = "pages" \/ UNCHANGED pagesVars
    /\ part = "walk" \/ UNCHANGED walkVars
    /\ part = "session" \/ UNCHANGED sessionVars
    /\ part = "requests" \/ UNCHANGED txVars

WebNext ==
    \/ Only("pages") /\ PagesNext
    \/ Only("walk") /\ WalkNext
    \/ Only("session") /\ SessionNext
    \/ Only("requests") /\ TxNext

\* As the scene never changes, this is the fairness of the part that was chosen.
Due ==
    \/ Only("pages") /\ Answers
    \/ Only("walk") /\ (ReadRows \/ ReadCount \/ NextPage)
    \/ Only("session") /\ \E l \in loads : LoadAdvances(l)
    \/ Only("requests") /\ Works

\* How a part rests: the user has left the pages, the list is read, nobody is signed in.
PagesRest ==
    /\ page = "none" /\ query = (CHOOSE q \in Queries : TRUE) /\ shown = Loading
    /\ requests = {} /\ sending = {} /\ mutating = FALSE
    /\ version = 0 /\ known = 0 /\ loadsSent = 0 /\ commandsSent = 0

WalkRests ==
    /\ list = users /\ table = FirstRows /\ ever = ToSet(FirstRows) /\ removed = {}
    /\ walk = [NewWalk EXCEPT !.at = "done", !.items = FirstRows]

SessionRests ==
    /\ cookie = 0 /\ owner = [s \in 1..MaxSessions |-> Nobody] /\ temporary = {}
    /\ tabs = [t \in Tabs |->
         [user |-> NoOne, loading |-> FALSE, failed |-> FALSE, generation |-> 1, path |-> "/login",
          from |-> NoPath, discard |-> FALSE, waiting |-> {}, known |-> FALSE, leftBy |-> "none"]]
    /\ loads = {} /\ submits = {} /\ budget = (CHOOSE b \in Budgets : TRUE)

WebInit ==
    /\ scene \in Scenes
    /\ IF scene = "pages" THEN PagesInit ELSE PagesRest
    /\ IF scene = "walk" THEN WalkInit ELSE WalkRests
    /\ IF scene = "session" THEN SessionInit ELSE SessionRests
    /\ TxInit /\ (scene # "requests" => roles = [a \in Accounts |-> "ADMINISTRATOR"])

WebSpec ==
    /\ WebInit
    /\ [][WebNext]_webVars /\ WF_webVars(Due)

\* Every page, walk, session and request comes to its end: rows or an error, a user or
\* the login page, a commit or a conflict.
EverythingIsAnswered == PageSettles /\ WalkEnds /\ LoadingEnds /\ EveryRequestAnswered

-----------------------------------------------------------------------------
(* The instances *)

AccountRoles == [u \in Usernames |-> IF u = "ana" THEN "ADMINISTRATOR" ELSE "SELLER"]

\* Two forms sent; or one, while a request is lost or the session revoked.
SessionBudgets ==
    {[focus |-> 0, submits |-> 2, revocations |-> 0, lost |-> 0, sessions |-> 1],
     [focus |-> 1, submits |-> 1, revocations |-> 0, lost |-> 1, sessions |-> 1],
     [focus |-> 1, submits |-> 1, revocations |-> 1, lost |-> 0, sessions |-> 1]}

FourRows == <<1, 2, 3, 4>>

\* Two administrators demote each other while one of them promotes a third user.
RoleChanges ==
    {[actor |-> "ana", target |-> "bea", to |-> "SELLER"],
     [actor |-> "bea", target |-> "ana", to |-> "SELLER"],
     [actor |-> "bea", target |-> "eva", to |-> "ADMINISTRATOR"]}
=============================================================================
