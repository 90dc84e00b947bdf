------------------------------ MODULE WebPages ------------------------------
(***************************************************************************)
(* The pages of the web client that show a query of the server, with the   *)
(* hook that loads it and the commands that change it.  Every hook is an   *)
(* effect that sends a request when its query or its reload token changes, *)
(* and cancels the previous one by a flag its answer looks at; commands    *)
(* are sent from forms and answered on their own.  They differ in what     *)
(* stays on the screen meanwhile, in what an answer does, and in what is   *)
(* left of the page when a load fails: one record per hook and per page.   *)
(*                                                                         *)
(* What the server stores is a version that grows with every change, by    *)
(* these commands or by somebody else.                                     *)
(***************************************************************************)
EXTENDS Naturals, FiniteSets

CONSTANTS
    Queries,      \* what may be asked for: filters and page number, an id, a path
    MaxVersion,   \* bound on the changes of the server's data
    MaxPageLoads,     \* bound on the loads of a page
    MaxSent       \* bound on the commands of a page

ASSUME PagesAssumption == Queries # {} /\ {MaxVersion, MaxPageLoads, MaxSent} \subseteq Nat
---------------------------------------------------------------------------
(* Hooks: what a new query and a reload leave on the screen (the "rows",   *)
(* the rows "refreshing", "loading"; a hook whose effect depends on no     *)
(* query has "none"), and what the answer of each command does ("reload",  *)
(* "install" it, "leave" the page); the refusal of those in `conflicts`    *)
(* loads again too.                                                        *)

Hook(query, reload, commands) ==
    [query |-> query, reload |-> reload, commands |-> commands, conflicts |-> {}]
beginQueryReload == "refreshing"
NoCommands == [c \in {} |-> "reload"]
Reloads(names) == [c \in names |-> "reload"]

useSalesList == Hook(beginQueryReload, beginQueryReload, NoCommands)
useCustomers == Hook(beginQueryReload, beginQueryReload, Reloads({"save"}))
useUsers == Hook(beginQueryReload, beginQueryReload, Reloads({"save"}))
useCatalogs == Hook("none", beginQueryReload, Reloads({"saveCategory", "saveService"}))
useReceivables == Hook(beginQueryReload, beginQueryReload, NoCommands)
useRecoveryRequests == Hook("none", beginQueryReload, Reloads({"resolve"}))
useDashboard == Hook(beginQueryReload, beginQueryReload, NoCommands)
useInventoryCatalog == Hook(beginQueryReload, beginQueryReload, Reloads({"register"}))
useWorkOrders == Hook(beginQueryReload, beginQueryReload, [createManual |-> "leave"])
useMechanicOrders ==
    [Hook("none", beginQueryReload, [takeOrder |-> "leave"]) EXCEPT !.conflicts = {"takeOrder"}]
useProfitability ==
    Hook("none", beginQueryReload,
         [retryUsd |-> "install", recordManualGrossProfit |-> "install", setFxAvailable |-> "install"])
useRecovery ==
    Hook("none", beginQueryReload, [releaseReservation |-> "reload", retryUsd |-> "install"])
useMechanicOrder == Hook("loading", "rows", [addPhoto |-> "install", complete |-> "install"])
useWorkOrderDetail == Hook("loading", "loading", Reloads({"reassign", "cancel"}))
useInventoryDetail ==
    Hook("loading", "loading",
         [c \in {"setNoDesarmar", "correctCost", "correctBaseline", "resolveCatalogReview",
                 "createWorkOrder", "receiveQtyStock", "adjustQtyStock", "updateItemDetails",
                 "updateQtyProductDetails", "addToDraft"} |->
              IF c = "addToDraft" THEN "leave" ELSE "reload"])
sellerSalesReport == Hook(beginQueryReload, beginQueryReload, NoCommands)

(* Pages: `gone` is the set of states of the query in which the page is a  *)
(* message and its forms are not rendered; `retry`, whether the error has  *)
(* a button that loads again; `blank`, the queries that load nothing.      *)
PageOf(hook, gone, retry, blank) == [hook |-> hook, gone |-> gone, retry |-> retry, blank |-> blank]
InErrors == {"error"}
InBoth == {"error", "loading"}

SalesPage == PageOf(useSalesList, InErrors, FALSE, {})
CustomersPage == PageOf(useCustomers, InErrors, FALSE, {})
UsersPage == PageOf(useUsers, InErrors, FALSE, {})
RecoveryRequestsPanel == PageOf(useRecoveryRequests, InBoth, FALSE, {})
CatalogsPage == PageOf(useCatalogs, InErrors, FALSE, {})
InventoryPage == PageOf(useInventoryCatalog, InErrors, FALSE, {})
WorkOrdersPage == PageOf(useWorkOrders, InErrors, FALSE, {})
ReceivablesPage == PageOf(useReceivables, InBoth, FALSE, {})
DashboardPage == PageOf(useDashboard, InBoth, FALSE, {})
ProfitabilityPage == PageOf(useProfitability, InBoth, FALSE, {})
AdminRecoveryPage == PageOf(useRecovery, InBoth, FALSE, {})
WorkOrderDetailPage == PageOf(useWorkOrderDetail, InBoth, FALSE, {})
InventoryDetailPage == PageOf(useInventoryDetail, InBoth, FALSE, {})
MechanicPendingPage == PageOf(useMechanicOrders, InBoth, TRUE, {})
MechanicMinePage ==
    PageOf([useMechanicOrders EXCEPT !.commands = NoCommands], InBoth, TRUE, {})
MechanicOrderView == PageOf(useMechanicOrder, InBoth, TRUE, {})
SellerSalesPage == PageOf(sellerSalesReport, {}, FALSE, {CHOOSE q \in Queries: TRUE})

Pages ==
    [sales |-> SalesPage, customers |-> CustomersPage, users |-> UsersPage,
     recoveries |-> RecoveryRequestsPanel, catalogs |-> CatalogsPage, inventory |-> InventoryPage,
     item |-> InventoryDetailPage, workOrders |-> WorkOrdersPage, workOrder |-> WorkOrderDetailPage,
     receivables |-> ReceivablesPage, dashboard |-> DashboardPage,
     profitability |-> ProfitabilityPage, recovery |-> AdminRecoveryPage,
     pending |-> MechanicPendingPage, mine |-> MechanicMinePage, order |-> MechanicOrderView,
     sellerSales |-> SellerSalesPage]
---------------------------------------------------------------------------
VARIABLES
    page,      \* the page that is mounted, "none" after the user left it
    query,     \* what it asks for: the URL and the filters
    shown,     \* its query state
    requests,  \* loads that have not been answered; `live` until the effect is cleaned up
    sending,   \* commands that have not been answered
    mutating,  \* isMutating, isSaving, resolvingId
    version,   \* what the server stores
    known,     \* the last version this page was told it made of what its query asks for
    loadsSent, commandsSent

pagesVars == <<page, query, shown, requests, sending, mutating, version, known, loadsSent, commandsSent>>

P == Pages[page]
hook == P.hook
Loading == [state |-> "loading", query |-> query, version |-> 0, refreshing |-> FALSE, by |-> "load"]
Rows(q, v, by) == [state |-> "ready", query |-> q, version |-> v, refreshing |-> FALSE, by |-> by]
Failed == [Loading EXCEPT !.state = "error"]
Mounted == page # "none"
OneThing == hook.query = "loading"     \* a page of one item or order, whose query is its id
Rendered == Mounted /\ shown.state \notin P.gone

\* What the start of a load leaves on the screen.
Begun(how) ==
    CASE how = "loading" -> Loading
      [] how = "rows" -> shown
      [] OTHER -> IF shown.state = "ready" THEN [shown EXCEPT !.refreshing = TRUE] ELSE Loading

\* Cleaning the effect up makes the answer of its request count for nothing.
Cancelled(r) == [r EXCEPT !.live = FALSE]

\* The effect runs again for query q: the request before is cancelled, one is sent.
RunEffect(q, how) ==
    /\ loadsSent < MaxPageLoads
    /\ loadsSent' = loadsSent + 1
    /\ requests' = {Cancelled(r) : r \in requests}
                     \cup {[id |-> loadsSent', query |-> q, live |-> TRUE, read |-> FALSE, version |-> 0]}
    /\ shown' = Begun(how)

PagesInit ==
    /\ page \in DOMAIN Pages /\ query \in Queries \ Pages[page].blank
    /\ shown = Loading
    /\ requests = {[id |-> 1, query |-> query, live |-> TRUE, read |-> FALSE, version |-> 0]}
    /\ sending = {} /\ mutating = FALSE
    /\ version = 0 /\ known = 0 /\ loadsSent = 1 /\ commandsSent = 0

\* A filter, a page number, a link to the same route with another id.
ChangeQuery(q) ==
    /\ Mounted /\ hook.query # "none" /\ q # query /\ q \notin P.blank
    /\ query' = q
    /\ RunEffect(q, hook.query)
    /\ known' = IF OneThing THEN 0 ELSE known
    /\ UNCHANGED <<page, sending, mutating, version, commandsSent>>

\* Filters that name no report: what was loaded goes, nothing is asked for, and a query
\* in flight is cancelled without setting isQuerying back.
BlankQuery(q) ==
    /\ Mounted /\ q # query /\ q \in P.blank
    /\ query' = q
    /\ requests' = {Cancelled(r) : r \in requests}
    /\ shown' = [Loading EXCEPT !.state = "blank",
                                !.refreshing = shown.refreshing \/ shown.state = "loading"]
    /\ UNCHANGED <<page, sending, mutating, version, known, loadsSent, commandsSent>>

\* The button of an error that loads again.
Retry ==
    /\ Mounted /\ P.retry /\ shown.state = "error"
    /\ RunEffect(query, hook.reload)
    /\ UNCHANGED <<page, query, sending, mutating, version, known, commandsSent>>

\* The server reads what a load asks for.
ServeLoad(r) ==
    /\ ~r.read
    /\ requests' = (requests \ {r}) \cup {[r EXCEPT !.read = TRUE, !.version = version]}
    /\ UNCHANGED <<page, query, shown, sending, mutating, version, known, loadsSent, commandsSent>>

\* Mutant: an answer is dropped for what it was asked, and not for having been cancelled.
AnswerLoadOfQuery(r, ok) ==
    /\ r.read
    /\ requests' = requests \ {r}
    /\ shown' = IF r.query # query THEN shown ELSE IF ok THEN Rows(r.query, r.version, "load") ELSE Failed
    /\ UNCHANGED <<page, query, sending, mutating, version, known, loadsSent, commandsSent>>

\* An answer, or an error, arrives; a cancelled one changes nothing.
AnswerLoad(r, ok) ==
    /\ r.read
    /\ requests' = requests \ {r}
    /\ shown' = IF ~r.live THEN shown ELSE IF ok THEN Rows(r.query, r.version, "load") ELSE Failed
    /\ UNCHANGED <<page, query, sending, mutating, version, known, loadsSent, commandsSent>>

\* A form or a button sends a command; its control is disabled while one is answered.
Send(c) ==
    /\ Rendered /\ shown.state = "ready" /\ ~mutating /\ commandsSent < MaxSent
    /\ commandsSent' = commandsSent + 1 /\ mutating' = TRUE
    /\ sending' = sending \cup {[command |-> c, query |-> shown.query, state |-> "sent", version |-> 0]}
    /\ UNCHANGED <<page, query, shown, requests, version, known, loadsSent>>

Executes(s, ok) ==
    /\ s.state = "sent"
    /\ ok => version < MaxVersion
    /\ version' = IF ok THEN version + 1 ELSE version
    /\ sending' = (sending \ {s}) \cup
                   {[s EXCEPT !.state = IF ok THEN "done" ELSE "refused", !.version = version']}
    /\ UNCHANGED <<page, query, shown, requests, mutating, known, loadsSent, commandsSent>>

\* The answer of a command: the page loads again, shows what came with it, or is left.
AnswerCommand(s) ==
    /\ Mounted /\ s.state \in {"done", "refused"}
    /\ sending' = sending \ {s} /\ mutating' = FALSE
    /\ known' = IF s.state = "done" /\ (OneThing => s.query = query) THEN s.version ELSE known
    /\ LET does == CASE s.state = "done" -> hook.commands[s.command]
                     [] s.command \in hook.conflicts -> "reload"
                     [] OTHER -> "nothing"
       IN CASE does = "reload" -> RunEffect(query, hook.reload) /\ UNCHANGED page
            [] does = "install" -> /\ shown' = Rows(s.query, s.version, "command")
                                   /\ UNCHANGED <<page, requests, loadsSent>>
            [] does = "leave" -> /\ page' = "none" /\ requests' = {Cancelled(r) : r \in requests}
                                 /\ UNCHANGED <<shown, loadsSent>>
            [] OTHER -> UNCHANGED <<page, shown, requests, loadsSent>>
    /\ UNCHANGED <<query, version, commandsSent>>

\* Somebody else changes what the page shows.
ChangedElsewhere ==
    /\ version < MaxVersion /\ version' = version + 1
    /\ UNCHANGED <<page, query, shown, requests, sending, mutating, known, loadsSent, commandsSent>>

PagesNext ==
    \/ \E q \in Queries: ChangeQuery(q) \/ BlankQuery(q)
    \/ Retry
    \/ \E r \in requests: ServeLoad(r) \/ AnswerLoad(r, TRUE) \/ AnswerLoad(r, FALSE)
    \/ Mounted /\ \E c \in DOMAIN hook.commands: Send(c)
    \/ \E s \in sending: Executes(s, TRUE) \/ Executes(s, FALSE) \/ AnswerCommand(s)
    \/ ChangedElsewhere

PagesSpec == PagesInit /\ [][PagesNext]_pagesVars

\* Every request that was sent is answered, with an error at the latest.
Answers == \E r \in requests: ServeLoad(r) \/ AnswerLoad(r, TRUE) \/ AnswerLoad(r, FALSE)
PagesFairness == WF_pagesVars(Answers)
---------------------------------------------------------------------------
PagesTypeOK ==
    /\ page \in DOMAIN Pages \cup {"none"} /\ query \in Queries
    /\ shown.state \in {"loading", "error", "ready", "blank"} /\ shown.query \in Queries
    /\ \A r \in requests: r.query \in Queries /\ r.version \in 0..version
    /\ known \in 0..version /\ mutating \in BOOLEAN
    /\ Cardinality({r \in requests: r.live}) <= 1

(* What a page loaded and shows as current is what its filters, its page   *)
(* number or its id ask for, however the answers are ordered (the          *)
(* `cancelled` flag of every hook).                                        *)
ShownAnswersTheQuery ==
    Mounted /\ shown.state = "ready" /\ ~shown.refreshing /\ shown.by = "load" => shown.query = query

\* The pages that both load again and install an answer of a command, which does not
\* cancel a load in flight.
Racing == {"recovery", "order"}

(* The rows of a query are never replaced by older ones: an answer that    *)
(* was read earlier and comes later is dropped.                            *)
NeverGoesBack ==
    [][shown.state = "ready" /\ shown'.state = "ready" /\ shown'.query = shown.query
         /\ page \notin Racing => shown'.version >= shown.version]_pagesVars

(* A page that has settled shows what its own commands changed.            *)
OwnChangeIsShown ==
    Mounted /\ page \notin Racing /\ shown.state = "ready" /\ shown.query = query
        /\ {r \in requests: r.live} = {} => shown.version >= known

(* A page does not wait for ever: its rows or an error come.  The report   *)
(* of sales by seller is out: see BlankQuery.                              *)
PageSettles ==
    (Mounted /\ page # "sellerSales" /\ (shown.refreshing \/ shown.state = "loading"))
        ~> (~Mounted \/ (~shown.refreshing /\ shown.state # "loading"))

(* A page shows what its user asks for and what its user did, and never    *)
(* goes back to older rows, in whatever order its answers come.            *)
ListsAreCurrent == [](PagesTypeOK /\ ShownAnswersTheQuery /\ OwnChangeIsShown) /\ NeverGoesBack
===========================================================================
