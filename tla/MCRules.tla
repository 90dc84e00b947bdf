------------------------------ MODULE MCRules ------------------------------
(***************************************************************************)
(* The rules that API, screens and assistant must agree on, for TLC: the   *)
(* figures of a sale, the books drawn from many, the dialogs that edit     *)
(* what others edit too, and the attributes of the catalog.  They share no *)
(* state: the initial state chooses one, the others rest.                  *)
(***************************************************************************)
EXTENDS SaleFigures, Books, Dialogs, Attributes, TLC

VARIABLE scene

rulesVars == <<scene, figureVars, bookVars, dialogVars, attributeVars>>

Acting(part) ==
    /\ scene = part
    /\ UNCHANGED scene
    /\ part = "figures" \/ UNCHANGED figureVars
    /\ part = "books" \/ UNCHANGED bookVars
    /\ part = "dialogs" \/ UNCHANGED dialogVars
    /\ part = "attributes" \/ UNCHANGED attributeVars

\* The user's role matters to the forms of customers and of sales alone; the list of customers
\* is searched behind its second dialog, that of users behind both.
DialogScene ==
    /\ page \notin {"customers", "pos"} => admin
    /\ page = "customers" => stored.rnc = "r"
SearchesLate == page = "customers" /\ opened = 0 /\ ~DialogIsOpen => load' # "refreshing"

RulesNext ==
    \/ Acting("figures") /\ FiguresNext
    \/ Acting("books") /\ BooksNext
    \/ Acting("dialogs") /\ DialogsNext /\ SearchesLate
    \/ Acting("attributes") /\ AttributesNext

\* A part that rests starts in one way only.
RulesInit ==
    /\ scene \in {"figures", "books", "dialogs", "attributes"}
    /\ FiguresInit /\ BooksInit /\ DialogsInit /\ AttributesInit
    /\ DialogScene
    /\ scene # "figures" =>
         sale.status = "DRAFT" /\ sale.currency = "DOP" /\ sale.lines = <<>>
    /\ scene # "dialogs" => page = "users" /\ admin /\ stored = CHOOSE r \in Records[page] : TRUE
    /\ scene # "attributes" => schema = <<>>

RulesSpec ==
    /\ RulesInit
    /\ [][RulesNext]_rulesVars

-----------------------------------------------------------------------------
(* The instances *)

\* A price that two taxed lines round away, one that only lines of three show, a service
\* and a delivery.
TestEntries ==
    {[type |-> "GENERIC", unit |-> 25, qty |-> 100], [type |-> "GENERIC", unit |-> 3, qty |-> 133],
     [type |-> "SERVICE", unit |-> 250, qty |-> 100], [type |-> "DELIVERY", unit |-> 3, qty |-> 100]}

\* A sale in pesos on credit, and one in dollars of the same customer by another seller.
Deals ==
    ("s1" :> [customer |-> "c1", currency |-> "DOP", gross |-> 2, quotedBy |-> "ana",
              soldBy |-> "bea", term |-> 1, cost |-> 1])
    @@ ("s2" :> [customer |-> "c1", currency |-> "USD", gross |-> 1, quotedBy |-> "bea",
                 soldBy |-> "bea", term |-> 0, cost |-> -1])
=============================================================================
