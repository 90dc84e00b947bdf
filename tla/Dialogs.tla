------------------------------ MODULE Dialogs ------------------------------
(***************************************************************************)
(* The dialogs of the web client: a form over a page, opened for a new     *)
(* thing or for one the page shows, edited, perhaps reviewed, sent, and    *)
(* closed by the answer or by its user.  Every page keeps one state        *)
(* "saving" for its commands and one error for its dialogs, and everything *)
(* behind a dialog is inert, so one is open at a time.                     *)
(*                                                                         *)
(* What is typed is abstract: "" is nothing, "r" what the page showed, "t" *)
(* what this user typed, "x" what somebody else wrote.  A form is what its *)
(* fields start with, the edits its inputs make, the fields it shows, what *)
(* it checks and what it sends.                                            *)
(***************************************************************************)
EXTENDS Naturals, Sequences, SequencesExt, FiniteSets, TLC

CONSTANTS
    DialogPages,  \* the pages to look at, among DOMAIN FormsOf
    MaxDialogs,   \* bound on the dialogs opened on a page
    MaxEdits      \* bound on the edits in them

ASSUME DialogsAssumption == {MaxDialogs, MaxEdits} \subseteq Nat
---------------------------------------------------------------------------
(* Forms                                                                   *)

Typed == {"", "t"}
Ticks == {"yes", "no"}
New == [id |-> "new"]
IsNew(row) == row = New

Choosing(v, k, X) == {[v EXCEPT ![k] = x] : x \in X}
Typing(v, ks) == UNION {Choosing(v, k, Typed) : k \in ks}
Form(edits, visible, ok, sends) == [edits |-> edits, visible |-> visible, ok |-> ok, sends |-> sends]
Only(f, ks) == [k \in ks |-> f[k]]
When(b, k, x) == IF b THEN k :> x ELSE <<>>

\* Users: a new one is always active, and the tick of an active account is not shown.
UserStart(row) ==
    IF IsNew(row) THEN [name |-> "", role |-> "SELLER", active |-> "yes", phone |-> ""]
    ELSE Only(row, {"name", "role", "active", "phone"})
UserForm(row, v) ==
    Form(Typing(v, {"name", "phone"}) \cup Choosing(v, "role", {"SELLER", "MECHANIC"})
           \cup (IF IsNew(row) THEN {} ELSE Choosing(v, "active", Ticks)),
         {"name", "phone", "role"} \cup (IF IsNew(row) THEN {} ELSE {"active"}),
         v.name # "",
         IF IsNew(row) THEN [v EXCEPT !.active = "yes"] ELSE v)

ToggleUser(row) == [UserStart(row) EXCEPT !.active = IF @ = "yes" THEN "no" ELSE "yes"]

\* Customers: credit terms are an administrator's, and a cash customer has none.
Contact(n, primary) == [key |-> n, phone |-> "", primary |-> primary]

CustomerStart(row) ==
    IF IsNew(row)
    THEN [name |-> "", type |-> "CASH", limit |-> "", kind |-> "", rnc |-> "", contacts |-> <<>>]
    ELSE Only(row, {"name", "type", "limit", "rnc", "contacts"})
           @@ [kind |-> IF row.rnc = "" THEN "" ELSE "RNC"]

MakesPrimary(cs, i) ==
    [j \in DOMAIN cs |-> [cs[j] EXCEPT !.primary = IF j = i THEN "yes" ELSE "no"]]

ContactEdits(cs, n) ==
    {Append(cs, Contact(n, IF cs = <<>> THEN "yes" ELSE "no"))}
      \cup {RemoveAt(cs, i) : i \in DOMAIN cs}
      \cup {[cs EXCEPT ![i].phone = "t"] : i \in DOMAIN cs}
      \cup {MakesPrimary(cs, i) : i \in DOMAIN cs}

savePayload(manages, v) ==
    Only(v, {"name", "rnc", "contacts"})
      @@ When(manages, "type", v.type)
      @@ When(manages /\ v.type = "CREDIT", "limit", v.limit)

CustomerForm(manages, v, n) ==
    Form(Typing(v, {"name"} \cup (IF v.kind = "" THEN {} ELSE {"rnc"})
                     \cup (IF manages /\ v.type = "CREDIT" THEN {"limit"} ELSE {}))
           \cup (IF manages THEN {[v EXCEPT !.type = "CASH", !.limit = ""], [v EXCEPT !.type = "CREDIT"]} ELSE {})
           \cup {[v EXCEPT !.kind = k, !.rnc = ""] : k \in {"RNC", "CEDULA"}}
           \cup {[v EXCEPT !.contacts = cs] : cs \in ContactEdits(v.contacts, n)},
         {"name", "rnc", "contacts"} \cup (IF manages THEN {"type"} ELSE {})
           \cup (IF manages /\ v.type = "CREDIT" THEN {"limit"} ELSE {}),
         v.name # "" /\ (manages /\ v.type = "CREDIT" => v.limit # "" /\ v.rnc # ""),
         savePayload(manages, v))

SendsService(row, v) == v

ServicePatch(row, v) ==
    IF IsNew(row) THEN v ELSE Only(v, {k \in {"name", "active"} : v[k] # row[k]})

ServiceStart(row) == IF IsNew(row) THEN [name |-> "", active |-> "yes"] ELSE Only(row, {"name", "active"})
ServiceForm(row, v) ==
    Form(Typing(v, {"name"}) \cup Choosing(v, "active", Ticks), {"name", "active"},
         v.name # "" /\ (IsNew(row) \/ v # ServiceStart(row)), ServicePatch(row, v))

ToggleService(row) == [active |-> IF row.active = "yes" THEN "no" ELSE "yes"]

\* Lines of a draft: what a line may say depends on its type.
LineTypes == {"ITEM", "QTY", "SERVICE", "GENERIC", "DELIVERY"}
Described == {"GENERIC", "DELIVERY"}     \* and EXTERNAL, like GENERIC
CountedTypes == {"QTY", "GENERIC"}
LineFields(type) ==
    (IF type \in Described THEN {"description"} ELSE {"of"})
      \cup (IF type \in CountedTypes THEN {"quantity"} ELSE {})
      \cup (IF type = "ITEM" THEN {} ELSE {"price"})

AddedLine(v) == Only(v, {"type"} \cup LineFields(v.type))

AddLineStart == [type |-> "ITEM", of |-> "i1", description |-> "", quantity |-> "1", price |-> "0"]
AddLineForm(v) ==
    Form(Choosing(v, "type", LineTypes) \cup Typing(v, LineFields(v.type) \ {"of"})
           \cup (IF "of" \in LineFields(v.type) THEN Choosing(v, "of", {"i1", "i2"}) ELSE {}),
         {"type"} \cup LineFields(v.type),
         v.type = "GENERIC" => v.description # "", AddedLine(v))

EditLineFields(row) ==
    (IF row.line \in Described THEN {"description"} ELSE {})
      \cup (IF row.line \in CountedTypes THEN {"quantity"} ELSE {}) \cup {"price", "notes"}
EditLineStart == [description |-> "r", quantity |-> "r", price |-> "r", notes |-> ""]
EditLineForm(row, v) ==
    Form(Typing(v, EditLineFields(row)), EditLineFields(row),
         v.price # "" /\ (row.line = "GENERIC" => v.description # ""), Only(v, EditLineFields(row)))

\* Confirming a sale, as an invoice or a conduce: who must pay all of it now.
saleRequiresFullPayment(row) == row.customer \in {"cash", "default"} \/ row.currency = "USD"
NamedCash(row, isAdmin, conduce) == conduce /\ isAdmin /\ row.customer = "cash"
conduceRequiresFullPayment(row, isAdmin, conduce) ==
    ~NamedCash(row, isAdmin, conduce) /\ saleRequiresFullPayment(row)
SellerCredit(row, isAdmin) == ~isAdmin /\ row.customer = "credit" /\ row.currency = "DOP"

SaleStart(row, isAdmin, conduce) ==
    LET full == conduceRequiresFullPayment(row, isAdmin, conduce)
    IN [include |-> IF full THEN "yes" ELSE "no", amount |-> IF full THEN "all" ELSE "", due |-> ""]

SaleForm(row, v, isAdmin, conduce) ==
    LET full == conduceRequiresFullPayment(row, isAdmin, conduce)
        paid == IF full \/ (isAdmin /\ v.include = "yes") THEN v.amount ELSE ""
        owes == NamedCash(row, isAdmin, conduce) /\ paid # "all"
        asksDue == NamedCash(row, isAdmin, conduce) /\ (v.include = "no" \/ v.amount \in {"", "some"})
    IN Form((IF full \/ ~isAdmin THEN {} ELSE Choosing(v, "include", Ticks))
              \cup (IF ~full /\ isAdmin /\ v.include = "yes"
                    THEN Choosing(v, "amount", {"", "some", "all", "more"}) ELSE {})
              \cup (IF asksDue THEN Choosing(v, "due", {"", "past", "later"}) ELSE {}),
            (IF paid = "" /\ ~full THEN {} ELSE {"amount"}) \cup (IF asksDue THEN {"due"} ELSE {}),
            SellerCredit(row, isAdmin) \/ (paid # "more" /\ (owes => v.due = "later")),
            IF SellerCredit(row, isAdmin) THEN [amount |-> ""]
            ELSE [amount |-> paid] @@ When(owes, "due", v.due))

\* An invoice: a payment, its cancellation in two steps, the number of a conduce, the currency.
PayStart == [amount |-> "", method |-> "CASH", date |-> "r"]
PayForm(v) == Form(Typing(v, {"amount", "date"}) \cup Choosing(v, "method", {"CASH", "CHECK"}),
                   {"amount", "method", "date"}, v.amount # "" /\ v.date # "", v)

CancelStart(row) == [reason |-> "", refund |-> row.net, method |-> "CASH", decision |-> "STOP"]
CancelForm(row, v) ==
    Form(Typing(v, {"reason"})
           \cup (IF row.net = "2" THEN Choosing(v, "refund", {"0", "1", "2", "3"}) ELSE {})
           \cup (IF row.net = "2" /\ v.refund # "0" THEN Choosing(v, "method", {"CASH", "CHECK"}) ELSE {})
           \cup (IF row.working THEN Choosing(v, "decision", {"STOP", "CONTINUE"}) ELSE {}),
         {"reason"} \cup (IF row.net = "2" THEN {"refund", "method"} ELSE {})
                    \cup (IF row.working THEN {"decision"} ELSE {}),
         v.reason # "" /\ v.refund # "3",
         Only(v, {"reason", "refund"}) @@ When(v.refund # "0", "method", v.method)
           @@ When(row.working, "decision", v.decision))

ConvertForm(row, v) ==
    Form(IF row.fiscalId THEN Choosing(v, "fiscal", Ticks) ELSE {}, {"fiscal"}, TRUE, v)
CurrencyForm(v) ==
    Form(Choosing(v, "currency", {"DOP", "USD"}) \cup Typing(v, {"reason"}), {"currency", "reason"},
         v.reason # "", v)

\* Work orders.  A type chosen again forgets the piece and the destination.
CreateOrderStart == [type |-> "DISMANTLING", piece |-> "", destination |-> "", notes |-> ""]
CreateOrderForm(v) ==
    LET visible == {"type", "piece", "notes"} \cup (IF v.type = "INSTALLATION" THEN {"destination"} ELSE {})
    IN Form({[v EXCEPT !.type = t, !.piece = "", !.destination = ""] : t \in {"DISMANTLING", "INSTALLATION"}}
              \cup Typing(v, visible \ {"type"}),
            visible, TRUE, Only(v, visible))   \* the lists are required of nobody
ReassignForm(v) ==
    Form(Typing(v, {"mechanic", "reason"}), {"mechanic", "reason"}, v.reason # "", v)
CancelOrderForm(row, v) ==
    LET visible == {"reason"} \cup (IF row.status = "IN_PROGRESS" THEN {"verified"} ELSE {})
    IN Form(Typing(v, {"reason"}) \cup (IF "verified" \in visible THEN Choosing(v, "verified", Ticks) ELSE {}),
            visible, v.reason # "", Only(v, visible))

\* Inventory.
CostStart(row) == [amount |-> row.cost, unknown |-> IF row.cost = "" THEN "yes" ELSE "no", reason |-> ""]
CostForm(v) ==
    LET visible == {"unknown", "reason"} \cup (IF v.unknown = "no" THEN {"amount"} ELSE {})
    IN Form(Typing(v, visible \ {"unknown"}) \cup Choosing(v, "unknown", Ticks), visible,
            v.reason # "", [reason |-> v.reason] @@ When("amount" \in visible, "amount", v.amount))
ReceiptForm(v) ==
    Form(Typing(v, {"reason"}) \cup Choosing(v, "missing", SUBSET {"m1", "m2"}), {"reason", "missing"},
         v.reason # "", v)
ItemOrderForm(v) ==
    LET visible == {"type", "notes"} \cup (IF v.type = "INSTALLATION" THEN {"destination"} ELSE {})
    IN Form(Choosing(v, "type", {"DISMANTLING", "INSTALLATION"}) \cup Typing(v, visible \ {"type"}), visible,
            v.type = "INSTALLATION" => v.destination # "", v)
QtyDetailsForm(v) == Form(Typing(v, {"name", "brand"}), {"name", "brand"}, v.name # "", v)
ReceiveQtyForm(v) ==
    Form(Typing(v, {"quantity", "cost"}), {"quantity", "cost"}, v.quantity # "" /\ v.cost # "", v)
AdjustQtyForm(v) ==
    Form(Typing(v, {"difference", "reason"}), {"difference", "reason"}, v.difference # "" /\ v.reason # "", v)
---------------------------------------------------------------------------
(* Pages and what they show.                                               *)

FormsOf ==
    [users |-> {"user", "toggleUser", "approve", "reject"}, customers |-> {"customer"},
     catalogs |-> {"service", "toggleService"},
     pos |-> {"addLine", "editLine", "removeLine", "discard", "confirm", "conduce"},
     invoice |-> {"pay", "cancel", "convert", "currency"}, workOrders |-> {"createOrder"}, workOrder |-> {"reassign", "cancelOrder"},
     item |-> {"cost", "receipt", "itemOrder"}, qty |-> {"qtyDetails", "receive", "adjust"}]
ListPages == {"users", "customers", "catalogs", "workOrders"}
Creates == {"user", "customer", "service"}

Records ==
    [users |-> [name: {"r"}, role: {"SELLER"}, active: Ticks, phone: {""}],
     customers |-> [name: {"r"}, type: {"CASH"}, limit: {""}, rnc: {"", "r"}, contacts: {<<Contact(1, "yes")>>}]
                     \cup [name: {"r"}, type: {"CREDIT"}, limit: {"r"}, rnc: {"r"}, contacts: {<<>>}],
     catalogs |-> [name: {"r"}, active: Ticks],
     pos |-> [customer: {"cash", "default", "credit"}, currency: {"DOP", "USD"}, line: LineTypes],
     invoice |-> [net: {"0", "2"}, working: BOOLEAN, fiscalId: BOOLEAN, currency: {"DOP"}],
     workOrders |-> [none: {""}],
     workOrder |-> [status: {"PENDING", "IN_PROGRESS"}],
     item |-> [cost: {"", "r"}], qty |-> [name: {"r"}, brand: {""}]]

VARIABLES
    page,        \* the page that is mounted
    admin,       \* whether its user is an administrator
    stored,      \* what the server has of the thing the page edits
    shown,       \* what the page loaded of it
    load,        \* how far its load is, one of Loads
    dialog,      \* the open dialog: its form and row, fields, start, step, and GuardedModal's state
    sent,        \* the command that has not been answered
    fieldErrors, \* errors of the answer, each at the index of a contact, with the contact it is about
    cleared,     \* indices whose errors the user has typed over
    identityVerified, \* the tick of UsersPage, kept while its dialogs come and go
    opened, edits

dialogVars == <<page, admin, stored, shown, load, dialog, sent, fieldErrors, cleared,
                identityVerified, opened, edits>>
None == [form |-> "none"]
\* A list that loads again keeps its rows; a load that failed is all that its page shows.
Loads == {"ready", "refreshing", "loading", "failed", "left"}

StartOf(form, row) ==
    CASE form = "user" -> UserStart(row)
      [] form = "approve" -> [verified |-> "no"]
      [] form = "customer" -> CustomerStart(row)
      [] form = "service" -> ServiceStart(row)
      [] form = "addLine" -> AddLineStart
      [] form = "editLine" -> EditLineStart
      [] form \in {"confirm", "conduce"} -> SaleStart(row, admin, form = "conduce")
      [] form = "pay" -> PayStart
      [] form = "cancel" -> CancelStart(row)
      [] form = "convert" -> [fiscal |-> "no"]
      [] form = "currency" -> [currency |-> IF row.currency = "DOP" THEN "USD" ELSE "DOP", reason |-> ""]
      [] form = "createOrder" -> CreateOrderStart
      [] form = "reassign" -> [mechanic |-> "", reason |-> ""]
      [] form = "cancelOrder" -> [reason |-> "", verified |-> "no"]
      [] form = "cost" -> CostStart(row)
      [] form = "receipt" -> [reason |-> "", missing |-> {}]
      [] form = "itemOrder" -> [type |-> "DISMANTLING", destination |-> "", notes |-> ""]
      [] form = "qtyDetails" -> row
      [] form = "receive" -> [quantity |-> "", cost |-> ""]
      [] form = "adjust" -> [difference |-> "", reason |-> ""]
      [] OTHER -> <<>>

FormOf(form, row, v) ==
    CASE form = "user" -> UserForm(row, v)
      [] form = "toggleUser" -> Form({}, {}, TRUE, ToggleUser(row))
      [] form = "approve" -> Form(Choosing(v, "verified", Ticks), {"verified"}, v.verified = "yes", v)
      [] form = "customer" -> CustomerForm(admin, v, edits + 2)
      [] form = "service" -> ServiceForm(row, v)
      [] form = "toggleService" -> Form({}, {}, TRUE, ToggleService(row))
      [] form = "addLine" -> AddLineForm(v)
      [] form = "editLine" -> EditLineForm(row, v)
      [] form \in {"confirm", "conduce"} -> SaleForm(row, v, admin, form = "conduce")
      [] form = "pay" -> PayForm(v)
      [] form = "cancel" -> CancelForm(row, v)
      [] form = "convert" -> ConvertForm(row, v)
      [] form = "currency" -> CurrencyForm(v)
      [] form = "createOrder" -> CreateOrderForm(v)
      [] form = "reassign" -> ReassignForm(v)
      [] form = "cancelOrder" -> CancelOrderForm(row, v)
      [] form = "cost" -> CostForm(v)
      [] form = "receipt" -> ReceiptForm(v)
      [] form = "itemOrder" -> ItemOrderForm(v)
      [] form = "qtyDetails" -> QtyDetailsForm(v)
      [] form = "receive" -> ReceiveQtyForm(v)
      [] form = "adjust" -> AdjustQtyForm(v)
      [] OTHER -> Form({}, {}, TRUE, <<>>)

DialogIsOpen == dialog # None
Saving == sent # None
D == FormOf(dialog.form, dialog.row, dialog.v)
isFormDirty == dialog.v # dialog.start

\* A plain yes or no, and the two answers to a request, close without asking.
Unguarded == {"toggleUser", "toggleService", "removeLine", "discard", "approve", "reject"}
Requests == {"approve", "reject"}
\* Dialogs after which the page is another: the work order, the document, the list of sales.
Leaving == {"createOrder", "confirm", "conduce", "discard"}
\* Dialogs whose inputs are disabled while their command is answered.
Locked == {"confirm", "conduce", "convert"}
MustReview == (dialog.form \in {"user", "customer"} /\ IsNew(dialog.row)) \/ dialog.form = "cancel"

DialogsInit ==
    /\ page \in DialogPages /\ admin \in BOOLEAN
    /\ stored \in Records[page] /\ shown = stored /\ load = "ready"
    /\ dialog = None /\ sent = None
    /\ fieldErrors = {} /\ cleared = {} /\ identityVerified = "no"
    /\ opened = 0 /\ edits = 0

RowsFor(form) ==
    CASE form \in {"approve", "reject"} -> {[id |-> "q1"], [id |-> "q2"]}
      [] form \in Creates -> {New, shown}
      [] OTHER -> {shown}

\* Sellers do not edit a customer on credit.
editDisabled(form, row) == form = "customer" /\ ~admin /\ ~IsNew(row) /\ row.type = "CREDIT"

NewDialog(form, row, start) ==
    [form |-> form, row |-> row, v |-> start, start |-> start, step |-> "form", asking |-> FALSE,
     typed |-> 0, late |-> FALSE]

\* While a page is a message that it loads, only the requests for a password are there.
CanOpen(form) == load \in {"ready", "refreshing"} \/ (load = "loading" /\ form \in Requests)

\* The dialog starts with what the page shows of the row.
Open(form, row) ==
    /\ ~DialogIsOpen /\ opened < MaxDialogs
    /\ CanOpen(form)
    /\ ~editDisabled(form, row)
    /\ dialog' = NewDialog(form, row, StartOf(form, row))
    /\ fieldErrors' = {} /\ cleared' = {}
    /\ identityVerified' = IF form = "approve" THEN "no" ELSE identityVerified
    /\ opened' = opened + 1
    /\ UNCHANGED <<page, admin, stored, shown, load, sent, edits>>

\* Typing in a contact hides its error; removing one hides those of every contact.
Clears(old, new) ==
    IF Len(new) < Len(old) THEN {e.at : e \in fieldErrors}
    ELSE {i \in DOMAIN old : new[i].phone # old[i].phone}

Edit(v) ==
    /\ edits < MaxEdits /\ edits' = edits + 1
    /\ dialog.step = "form" /\ ~dialog.asking /\ v # dialog.v
    /\ Saving => dialog.form \notin Locked
    /\ dialog' = [dialog EXCEPT !.v = v, !.typed = @ + 1, !.late = @ \/ Saving]
    /\ cleared' = IF dialog.form = "customer"
                  THEN cleared \cup Clears(dialog.v.contacts, v.contacts) ELSE cleared
    /\ identityVerified' = IF dialog.form = "approve" THEN v.verified ELSE identityVerified
    /\ UNCHANGED <<page, admin, stored, shown, load, sent, fieldErrors, opened>>

\* The forms of creation, and the cancellation of an invoice, show a review before the button
\* that sends; it goes back to the form.
Review ==
    /\ DialogIsOpen /\ ~dialog.asking /\ ~Saving
    /\ \/ dialog.step = "form" /\ MustReview /\ D.ok /\ dialog' = [dialog EXCEPT !.step = "review"]
       \/ dialog.step = "review" /\ dialog' = [dialog EXCEPT !.step = "form"]
    /\ UNCHANGED <<page, admin, stored, shown, load, sent, fieldErrors, cleared,
                   identityVerified, opened, edits>>

\* Escape, the backdrop, X or Cancel: nothing while busy; what was typed is asked about first.
RequestClose ==
    /\ DialogIsOpen /\ ~Saving
    /\ dialog' = IF dialog.asking THEN [dialog EXCEPT !.asking = FALSE]
                 ELSE IF dialog.form \notin Unguarded /\ isFormDirty THEN [dialog EXCEPT !.asking = TRUE]
                 ELSE None
    /\ UNCHANGED <<page, admin, stored, shown, load, sent, fieldErrors, cleared,
                   identityVerified, opened, edits>>

DiscardTyped ==
    /\ DialogIsOpen /\ dialog.asking /\ ~Saving
    /\ dialog' = None
    /\ UNCHANGED <<page, admin, stored, shown, load, sent, fieldErrors, cleared,
                   identityVerified, opened, edits>>

\* The button of the form, or of its review; disabled while a command is answered.
SubmitForm ==
    /\ DialogIsOpen /\ ~dialog.asking /\ ~Saving
    /\ D.ok /\ (MustReview => dialog.step = "review")
    /\ sent' = [form |-> dialog.form, row |-> dialog.row, v |-> dialog.v, sends |-> D.sends]
    /\ dialog' = [dialog EXCEPT !.late = FALSE]
    /\ fieldErrors' = {} /\ cleared' = {}
    /\ UNCHANGED <<page, admin, stored, shown, load, identityVerified, opened, edits>>

\* The server keeps what the command does not name; a cash customer has no limit.
Applied ==
    IF IsNew(sent.row) \/ sent.form \notin {"user", "toggleUser", "customer", "service", "toggleService",
                                            "qtyDetails"}
    THEN stored
    ELSE [k \in DOMAIN stored |->
            IF k = "limit" /\ "type" \in DOMAIN sent.sends /\ sent.sends.type = "CASH" THEN ""
            ELSE IF k \in DOMAIN sent.sends THEN sent.sends[k] ELSE stored[k]]

\* What the page does then.  A draft came with the answer, and the requests are a list of
\* their own; a page of one thing, and a list whose load had failed, start over.
Reloaded ==
    CASE sent.form \in Leaving -> "left"
      [] page = "pos" \/ sent.form \in Requests -> load
      [] page \in ListPages /\ load # "failed" -> "refreshing"
      [] OTHER -> "loading"

\* Accepted: the dialog closes, if it is still there, and the page loads again.
Accepted ==
    /\ Saving
    /\ stored' = Applied
    /\ sent' = None /\ dialog' = None
    /\ load' = Reloaded
    /\ identityVerified' = IF sent.form \in Requests THEN "no" ELSE identityVerified
    /\ UNCHANGED <<page, admin, shown, fieldErrors, cleared, opened, edits>>

\* Refused: the dialog stays; errors come with the position of the contact they are about.
Refused ==
    /\ Saving
    /\ sent' = None /\ cleared' = {}
    /\ fieldErrors' \in {{}} \cup
          (IF sent.form # "customer" THEN {}
           ELSE {{[at |-> i, about |-> sent.v.contacts[i].key]} : i \in DOMAIN sent.v.contacts})
    /\ UNCHANGED <<page, admin, stored, shown, load, dialog, identityVerified, opened, edits>>

\* Another search, type, tab or page of a list that can be searched.
Search ==
    /\ ~DialogIsOpen /\ load = "ready" /\ page \in ListPages \ {"catalogs"}
    /\ load' = "refreshing"
    /\ UNCHANGED <<page, admin, stored, shown, dialog, sent, fieldErrors, cleared, identityVerified,
                   opened, edits>>

Reloading == load \in {"refreshing", "loading"}

ReloadArrives ==
    /\ Reloading /\ load' = "ready"
    /\ shown' = stored
    /\ UNCHANGED <<page, admin, stored, dialog, sent, fieldErrors, cleared, identityVerified, opened, edits>>

\* The error takes the place of the page and of whatever was open over it; nothing on it
\* asks again.
ReloadFails ==
    /\ Reloading /\ load' = "failed"
    /\ dialog' = None
    /\ UNCHANGED <<page, admin, stored, shown, sent, fieldErrors, cleared, identityVerified, opened, edits>>

\* Somebody else changes the thing the page shows.
ChangedElsewhere(k) ==
    /\ k \in DOMAIN stored
    /\ stored' = [stored EXCEPT ![k] = IF k # "active" THEN "x" ELSE IF @ = "yes" THEN "no" ELSE "yes"]
    /\ UNCHANGED <<page, admin, shown, load, dialog, sent, fieldErrors, cleared, identityVerified,
                   opened, edits>>

DialogsNext ==
    \/ \E form \in FormsOf[page]: \E row \in RowsFor(form): Open(form, row)
    \/ DialogIsOpen /\ \E v \in D.edits: Edit(v)
    \/ Review \/ RequestClose \/ DiscardTyped \/ SubmitForm
    \/ Accepted \/ Refused \/ Search \/ ReloadArrives \/ ReloadFails
    \/ \E k \in {"name", "active", "limit"}: ChangedElsewhere(k)

DialogsSpec == DialogsInit /\ [][DialogsNext]_dialogVars
---------------------------------------------------------------------------
DialogsTypeOK ==
    /\ page \in DialogPages /\ admin \in BOOLEAN /\ load \in Loads
    /\ DialogIsOpen => /\ dialog.form \in FormsOf[page] /\ dialog.step \in {"form"} \cup (IF MustReview THEN {"review"} ELSE {})
                 /\ DOMAIN dialog.v = DOMAIN StartOf(dialog.form, dialog.row)
    /\ \A e \in fieldErrors: e.at \in Nat \ {0}

(* The answer of a command finds the dialog that sent it: none is closed,  *)
(* or opened for another row, while the page waits (isBusy, and the guards *)
(* of the pages' own onClose), unless the load of the list behind it       *)
(* failed and took the page away (UsersPage, CustomersPage, CatalogsPage,  *)
(* WorkOrdersPage).                                                        *)
AnswerReachesItsForm ==
    Saving /\ load # "failed" => DialogIsOpen /\ dialog.form = sent.form /\ dialog.row = sent.row

(* What the user typed goes when it was accepted or after being asked      *)
(* about it, and no reload that arrives, answer or change elsewhere        *)
(* rewrites it.  One event takes it without asking: the load of a list     *)
(* that was under way behind the form fails, once.                         *)
NothingTypedIsLost ==
    [][DialogIsOpen =>
         \/ dialog' # None /\ (dialog'.v = dialog.v \/ edits' > edits)
         \/ /\ dialog' = None
            /\ \/ ~isFormDirty \/ dialog.form \in Unguarded \/ dialog.asking
               \/ Saving /\ sent' = None
               \/ load = "refreshing" /\ load' = "failed"]_dialogVars

(* Whatever a command carries that its form did not start with was on the  *)
(* screen when it was sent: a field hidden by another choice sends nothing *)
(* that was typed in it before.  The order of work of an item's page is    *)
(* out: it sends a destination its type hides.                             *)
SentIsShown ==
    Saving /\ sent.form # "itemOrder" =>
        LET f == FormOf(sent.form, sent.row, sent.v)
        IN \A k \in DOMAIN sent.sends \cap DOMAIN sent.v:
              k \in f.visible \/ sent.sends[k] = StartOf(sent.form, sent.row)[k]

(* Saving a service, or a customer as a seller, changes nothing that       *)
(* somebody else changed and this user did not touch.                      *)
PatchKeepsOthersChanges ==
    [][Saving /\ sent' = None /\ dialog' = None =>
         /\ sent.form = "service" /\ ~IsNew(sent.row) =>
               \A k \in DOMAIN stored: sent.v[k] = sent.row[k] => stored'[k] = stored[k]
         /\ sent.form = "customer" /\ ~admin => stored'.limit = stored.limit /\ stored'.type = stored.type]_dialogVars

(* An error the form shows at a contact is about that contact, through     *)
(* contacts added, removed and typed over after the answer.  Edits made    *)
(* while the command was being answered are out.                           *)
FieldErrorsFollowTheirContact ==
    DialogIsOpen /\ ~dialog.late =>
        \A e \in fieldErrors: e.at \in cleared \/
            (e.at \in DOMAIN dialog.v.contacts /\ dialog.v.contacts[e.at].key = e.about)

(* Approving a recovery takes the tick of its own dialog: one ticked for a *)
(* request that was then closed does not approve another.                  *)
ApprovalIsVerified == Saving /\ DialogIsOpen /\ sent.form = "approve" => dialog.typed > 0

(* A sale is sent with all of its total, to a customer on credit in pesos, *)
(* or, by an administrator who issues a conduce, with a date for the rest. *)
SaleIsSettled ==
    Saving /\ sent.form \in {"confirm", "conduce"} =>
        \/ sent.sends.amount = "all"
        \/ sent.row.customer = "credit" /\ sent.row.currency = "DOP"
        \/ sent.form = "conduce" /\ admin /\ sent.row.customer = "cash" /\ sent.sends.due = "later"

(* A dialog sends what it shows, of the row it was opened on, and its      *)
(* answer comes back to it; others keep what they changed meanwhile.       *)
DialogsTellTheirRows ==
    /\ [](/\ DialogsTypeOK /\ AnswerReachesItsForm /\ SentIsShown
         /\ FieldErrorsFollowTheirContact /\ ApprovalIsVerified /\ SaleIsSettled)
    /\ NothingTypedIsLost /\ PatchKeepsOthersChanges
===========================================================================
