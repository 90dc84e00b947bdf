---------------------------- MODULE InvoiceDesk ----------------------------
(***************************************************************************)
(* Money collected and returned over an unreliable connection.             *)
(*                                                                         *)
(* Several browser tabs (desks) show the page of ONE recognised invoice    *)
(* (InvoiceDetailPage.tsx, useInvoiceDetail.ts), register payments in      *)
(* PayModal.tsx and cancel it in CancelInvoiceModal.tsx.  Scripts are      *)
(* other callers of the API, which choose the idempotency key of a command *)
(* themselves.  A request may be lost before or after the server has       *)
(* executed it; the tab only sees an error in both cases.                  *)
(*                                                                         *)
(* Abstractions.  The content of a form (amount, method, date, reference,  *)
(* reason) is its amount: the code compares them together.  Currency,      *)
(* roles and the other modals are left out, Regenerate stands for the      *)
(* commands of the page that collect nothing.  Sales.tla has the ledger of *)
(* the server under concurrent transactions; here its two commands are     *)
(* atomic, as AtomicRequests.tla shows them to be.                         *)
(***************************************************************************)
EXTENDS Naturals, Sequences, FiniteSets, FiniteSetsExt, SequencesExt

CONSTANTS
    Desks,      \* browser tabs with the page of the invoice
    Scripts,    \* other callers of the API
    InvoiceTotal,      \* total of the invoice, in units of money
    MaxModals,   \* bound: forms opened (each has a key of its own)
    MaxCommands,   \* bound: commands sent
    MaxScripted,   \* bound: a script only sends one of the first so many
    MaxOpens,   \* bound: loads after which no desk opens the page anew
    MaxLostCommands     \* bound: commands or answers lost

ASSUME DeskAssumption ==
    /\ Desks \cap Scripts = {}
    /\ InvoiceTotal \in Nat \ {0}
    /\ {MaxModals, MaxCommands, MaxScripted, MaxOpens, MaxLostCommands} \subseteq Nat

VARIABLES
    status,     \* status of the invoice in the database
    ledger,     \* its movements of money, in order of creation
    cancelKey,  \* cancellationIdempotencyKey, 0 when not cancelled
    clock,      \* keys given to forms: every opening has a later Date.now()
    page,       \* what a desk shows of the invoice
    modal,      \* form a desk has open
    mutating,   \* isMutating of useInvoiceDetail
    told,       \* commands a caller was told to have succeeded (history)
    commands,      \* commands on their way to the server or back
    sentCommands,       \* commands sent so far
    pageLoads,      \* loads of the page on their way
    loaded,     \* loads started so far
    lostCommands        \* requests lost so far

server == <<status, ledger, cancelKey>>
deskTab    == <<page, modal, mutating, pageLoads, loaded>>
deskVars   == <<server, clock, deskTab, told, commands, sentCommands, lostCommands>>

FormKeys    == 1..MaxModals
Amounts == 0..InvoiceTotal
NoModal == [kind |-> "none"]
Commands == [kind: {"pay", "cancel", "regenerate"}, key: 0..MaxModals, amount: Amounts]

---------------------------------------------------------------------------
(* The server: summarizePayments, addPayment, cancel.                      *)

Sum(kind) == FoldSeq(LAMBDA m, s: IF m.kind = kind THEN m.amount + s ELSE s, 0, ledger)
Paid      == Sum("PAYMENT")
Refunded  == Sum("REFUND")
Balance   == IF status = "CANCELLED" \/ Paid > InvoiceTotal THEN 0 ELSE InvoiceTotal - Paid

\* The movement of the invoice stored under a key.
Stored(key) == {m \in ToSet(ledger): m.key = key}

Movement(kind, c) ==
    [kind |-> kind, key |-> c.cmd.key, amount |-> c.cmd.amount]

\* A command is refused and leaves nothing behind, its transaction is rolled back.
RefuseCommand == UNCHANGED server

\* addPayment answers OK and stores nothing for a key already used by the same payment.
ReplayPayment(c) ==
    \E m \in Stored(c.cmd.key): m.kind = "PAYMENT" /\ m.amount = c.cmd.amount

Recognised == status = "COMPLETED"

\* TRUE when the command is executed or is the replay of an executed one.
AcceptsPayment(c) ==
    /\ Recognised
    /\ IF Stored(c.cmd.key) # {}
       THEN ReplayPayment(c)
       ELSE c.cmd.amount \in 1..Balance

AddPayment(c) ==
    IF AcceptsPayment(c) /\ ~ReplayPayment(c)
    THEN /\ ledger' = Append(ledger, Movement("PAYMENT", c))
         /\ UNCHANGED <<status, cancelKey>>
    ELSE RefuseCommand

\* The cancellation stored is the one asked for again.
SameCancellation(c) ==
    /\ status = "CANCELLED"
    /\ cancelKey = c.cmd.key
    /\ IF Stored(c.cmd.key) # {}
       THEN \E m \in Stored(c.cmd.key): m.kind = "REFUND" /\ m.amount = c.cmd.amount
       ELSE c.cmd.amount = 0


Cancellable(c) == status = "COMPLETED" /\ c.cmd.amount <= Paid - Refunded

\* The key of a movement is unique in its invoice: a refund cannot take a used one.
KeyIsFree(c) == c.cmd.amount = 0 \/ Stored(c.cmd.key) = {}

AcceptsCancel(c) == SameCancellation(c) \/ (Cancellable(c) /\ KeyIsFree(c))

Cancel(c) ==
    IF AcceptsCancel(c) /\ ~SameCancellation(c)
    THEN /\ status' = "CANCELLED"
         /\ cancelKey' = c.cmd.key
         /\ ledger' = IF c.cmd.amount > 0
                      THEN Append(ledger, Movement("REFUND", c)) ELSE ledger
    ELSE RefuseCommand

Accepts(c) == CASE c.cmd.kind = "pay"        -> AcceptsPayment(c)
                [] c.cmd.kind = "cancel"     -> AcceptsCancel(c)
                [] c.cmd.kind = "regenerate" -> TRUE

\* The handler of a command, from the body of its request to its answer.
ServerHandles(c) ==
    /\ c.state = "sent"
    /\ CASE c.cmd.kind = "pay"        -> AddPayment(c)
         [] c.cmd.kind = "cancel"     -> Cancel(c)
         [] c.cmd.kind = "regenerate" -> RefuseCommand
    /\ commands' = (commands \ {c}) \cup
                {[c EXCEPT !.state = IF Accepts(c) THEN "ok" ELSE "refused"]}
    /\ UNCHANGED <<clock, deskTab, told, sentCommands, lostCommands>>

\* The connection breaks before the server has the request, or after it has answered.
LoseCommand(c) ==
    /\ c.state # "broken"
    /\ lostCommands < MaxLostCommands
    /\ lostCommands' = lostCommands + 1
    /\ commands' = (commands \ {c}) \cup {[c EXCEPT !.state = "broken"]}
    /\ UNCHANGED <<server, clock, deskTab, told, sentCommands>>

---------------------------------------------------------------------------
(* The page: useInvoiceDetail.                                             *)

Snapshot == [status |-> status, balance |-> Balance, net |-> Paid - Refunded,
             ledger |-> ledger]
PageLoading(id) == [state |-> "loading", load |-> id]

\* The effect on [id, reloadToken]: the load before is cancelled by its cleanup.
StartLoad(d, pg) ==
    /\ loaded' = loaded + 1
    /\ pageLoads' = pageLoads \cup {[id |-> loaded + 1, desk |-> d, state |-> "asked"]}
    /\ page' = [pg EXCEPT ![d] = PageLoading(loaded + 1)]

\* The page is opened, or the browser reloads it: nothing of the tab survives.
OpenPage(d) ==
    /\ page[d].state # "loading"
    /\ loaded < MaxOpens
    /\ StartLoad(d, page)
    /\ modal' = [modal EXCEPT ![d] = NoModal]
    /\ mutating' = [mutating EXCEPT ![d] = FALSE]
    /\ commands' = {IF c.caller = d THEN [c EXCEPT !.caller = "nobody"] ELSE c : c \in commands}
    /\ UNCHANGED <<server, clock, told, sentCommands, lostCommands>>

PageIsRead(l) ==
    /\ l.state = "asked"
    /\ pageLoads' = (pageLoads \ {l}) \cup
          {[id |-> l.id, desk |-> l.desk, state |-> "answered", detail |-> Snapshot]}
    /\ UNCHANGED <<server, clock, page, modal, mutating, loaded, told, commands, sentCommands, lostCommands>>

\* if (cancelled) return;
IsCurrent(l) == page[l.desk].state = "loading" /\ page[l.desk].load = l.id

\* A modal that is open when the page is shown again is mounted anew, with a new key.
Remounted(d, detail) ==
    IF modal[d].kind = "none" \/ clock = MaxModals THEN NoModal
    ELSE [kind |-> modal[d].kind, key |-> clock + 1, error |-> modal[d].error,
          amount |-> IF modal[d].kind = "cancel" THEN detail.net ELSE 0]

PageArrives(l) ==
    /\ l.state = "answered"
    /\ pageLoads' = pageLoads \ {l}
    /\ IF IsCurrent(l)
       THEN /\ page' = [page EXCEPT ![l.desk] = [state |-> "ready", detail |-> l.detail]]
            /\ modal' = [modal EXCEPT ![l.desk] = Remounted(l.desk, l.detail)]
            /\ clock' = IF modal'[l.desk].kind = "none" THEN clock ELSE clock + 1
       ELSE UNCHANGED <<page, modal, clock>>
    /\ UNCHANGED <<server, mutating, loaded, told, commands, sentCommands, lostCommands>>

LoadFails(l) ==
    /\ lostCommands < MaxLostCommands
    /\ lostCommands' = lostCommands + 1
    /\ pageLoads' = pageLoads \ {l}
    /\ page' = IF IsCurrent(l) THEN [page EXCEPT ![l.desk] = [state |-> "error"]] ELSE page
    /\ UNCHANGED <<server, clock, modal, mutating, loaded, told, commands, sentCommands>>

---------------------------------------------------------------------------
(* The modals: PayModal, CancelInvoiceModal, inside GuardedModal.          *)

PageReady(d) == page[d].state = "ready"

\* The effect of an opening modal: empty fields, or the net collected, and a new key.
OpenModal(d, kind, amount) ==
    /\ PageReady(d)
    /\ modal[d].kind = "none"
    /\ clock < MaxModals
    /\ clock' = clock + 1
    /\ modal' = [modal EXCEPT ![d] =
            [kind |-> kind, key |-> clock + 1, amount |-> amount, error |-> FALSE]]
    /\ UNCHANGED <<server, page, mutating, pageLoads, loaded, told, commands, sentCommands, lostCommands>>

OpenPay(d) ==
    /\ PageReady(d)
    /\ page[d].detail.status = "COMPLETED" /\ page[d].detail.balance > 0
    /\ OpenModal(d, "pay", 0)

OpenCancel(d) ==
    /\ PageReady(d)
    /\ page[d].detail.status = "COMPLETED"
    /\ OpenModal(d, "cancel", page[d].detail.net)

\* The form of a payment takes any positive amount; a refund is limited to the net shown.
MaySubmit(d, amount) ==
    IF modal[d].kind = "pay" THEN amount > 0 ELSE amount <= page[d].detail.net

Submit(d, amount) ==
    /\ PageReady(d)
    /\ modal[d].kind # "none"
    /\ ~mutating[d]
    /\ MaySubmit(d, amount)
    /\ sentCommands < MaxCommands
    /\ sentCommands' = sentCommands + 1
    /\ modal' = [modal EXCEPT ![d].amount = amount]
    /\ mutating' = [mutating EXCEPT ![d] = TRUE]
    /\ commands' = commands \cup
          {[id |-> sentCommands + 1, caller |-> d, state |-> "sent",
            cmd |-> [kind |-> modal[d].kind, key |-> modal[d].key, amount |-> amount]]}
    /\ UNCHANGED <<server, clock, page, pageLoads, loaded, told, lostCommands>>

\* onClose: not while a command is running.
Close(d) ==
    /\ modal[d].kind # "none"
    /\ PageReady(d)
    /\ ~mutating[d]
    /\ modal' = [modal EXCEPT ![d] = NoModal]
    /\ UNCHANGED <<server, clock, page, mutating, pageLoads, loaded, told, commands, sentCommands, lostCommands>>

Regenerate(d) ==
    /\ PageReady(d)
    /\ modal[d].kind = "none"
    /\ ~mutating[d]
    /\ sentCommands < MaxCommands
    /\ sentCommands' = sentCommands + 1
    /\ mutating' = [mutating EXCEPT ![d] = TRUE]
    /\ commands' = commands \cup
          {[id |-> sentCommands + 1, caller |-> d, state |-> "sent",
            cmd |-> [kind |-> "regenerate", key |-> 0, amount |-> 0]]}
    /\ UNCHANGED <<server, clock, page, modal, pageLoads, loaded, told, lostCommands>>

\* What the caller of a command was told.
Told(c) == [cmd |-> c.cmd, by |-> c.caller]

SucceedsWithoutReload(c) ==
    /\ c.state = "ok"
    /\ c.caller \in Desks
    /\ commands' = commands \ {c}
    /\ told' = told \cup {Told(c)}
    /\ mutating' = [mutating EXCEPT ![c.caller] = FALSE]
    /\ modal' = [modal EXCEPT ![c.caller] = NoModal]
    /\ UNCHANGED <<server, clock, page, pageLoads, loaded, sentCommands, lostCommands>>

\* A mutation of useInvoiceDetail that succeeds reloads the page; its modal closes.
CommandSucceeds(c) ==
    /\ c.state = "ok"
    /\ c.caller \in Desks
    /\ commands' = commands \ {c}
    /\ told' = told \cup {Told(c)}
    /\ mutating' = [mutating EXCEPT ![c.caller] = FALSE]
    /\ StartLoad(c.caller, page)
    /\ modal' = IF c.cmd.kind = "regenerate" THEN modal
                ELSE [modal EXCEPT ![c.caller] = NoModal]
    /\ UNCHANGED <<server, clock, sentCommands, lostCommands>>

\* One that is refused, or whose connection broke, leaves the form and its key as they are.
CommandFails(c) ==
    /\ c.state \in {"refused", "broken"}
    /\ c.caller \in Desks
    /\ commands' = commands \ {c}
    /\ mutating' = [mutating EXCEPT ![c.caller] = FALSE]
    /\ modal' = IF modal[c.caller].kind = "none" THEN modal
                ELSE [modal EXCEPT ![c.caller].error = TRUE]
    /\ UNCHANGED <<server, clock, page, pageLoads, loaded, told, sentCommands, lostCommands>>

\* The page that sent the command is gone, or a script has its answer.
Forgotten(c) ==
    /\ c.state # "sent"
    /\ c.caller \notin Desks
    /\ commands' = commands \ {c}
    /\ told' = IF c.state = "ok" /\ c.caller \in Scripts THEN told \cup {Told(c)} ELSE told
    /\ UNCHANGED <<server, clock, deskTab, sentCommands, lostCommands>>

\* A caller of the API sends any command under any key it has seen or made.
ScriptSends(s, kind, key, amount) ==
    /\ sentCommands < MaxCommands /\ sentCommands < MaxScripted
    /\ kind = "pay" => amount > 0
    /\ sentCommands' = sentCommands + 1
    /\ commands' = commands \cup
          {[id |-> sentCommands + 1, caller |-> s, state |-> "sent",
            cmd |-> [kind |-> kind, key |-> key, amount |-> amount]]}
    /\ UNCHANGED <<server, clock, deskTab, told, lostCommands>>

---------------------------------------------------------------------------
DeskInit ==
    /\ status = "COMPLETED" /\ ledger = <<>> /\ cancelKey = 0
    /\ clock = 0
    /\ page = [d \in Desks |-> [state |-> "error"]]
    /\ modal = [d \in Desks |-> NoModal]
    /\ mutating = [d \in Desks |-> FALSE]
    /\ told = {} /\ commands = {} /\ sentCommands = 0 /\ pageLoads = {} /\ loaded = 0 /\ lostCommands = 0

DeskNext ==
    \/ \E d \in Desks: OpenPage(d) \/ OpenPay(d) \/ OpenCancel(d) \/ Close(d) \/ Regenerate(d)
    \/ \E d \in Desks, a \in Amounts: Submit(d, a)
    \/ \E s \in Scripts, kind \in {"pay", "cancel"}, key \in FormKeys, a \in Amounts:
           ScriptSends(s, kind, key, a)
    \/ \E c \in commands: ServerHandles(c) \/ LoseCommand(c) \/ CommandSucceeds(c) \/ CommandFails(c) \/ Forgotten(c)
    \/ \E l \in pageLoads: PageIsRead(l) \/ PageArrives(l) \/ LoadFails(l)

DeskSpec == DeskInit /\ [][DeskNext]_deskVars
---------------------------------------------------------------------------
DeskTypeOK ==
    /\ status \in {"COMPLETED", "CANCELLED"}
    /\ cancelKey \in 0..MaxModals
    /\ clock \in 0..MaxModals
    /\ \A m \in ToSet(ledger): m.kind \in {"PAYMENT", "REFUND"} /\ m.amount \in 1..InvoiceTotal
    /\ \A d \in Desks: page[d].state \in {"loading", "ready", "error"}
    /\ mutating \in [Desks -> BOOLEAN]
    /\ \A c \in commands: c.cmd \in Commands /\ c.state \in {"sent", "ok", "refused", "broken"}

(* A form collects or returns money once, however often it is sent, by     *)
(* whoever: at most one movement under a key (addPayment, cancel).         *)
OneMovementPerKey ==
    \A i, j \in 1..Len(ledger): ledger[i].key = ledger[j].key => i = j

(* A caller who is told that a payment or a cancellation succeeded can     *)
(* rely on its content: that amount, not an earlier one of the same form,  *)
(* is in the ledger.                                                       *)
ToldIsStored ==
    \A t \in told:
        /\ t.cmd.kind = "pay" =>
               \E m \in Stored(t.cmd.key): m.kind = "PAYMENT" /\ m.amount = t.cmd.amount
        /\ t.cmd.kind = "cancel" =>
               /\ status = "CANCELLED" /\ cancelKey = t.cmd.key
               /\ Refunded = t.cmd.amount

(* The invoice is cancelled once: one refund at the most, of money that    *)
(* was collected, whatever two desks and their retries do.                 *)
RefundedOnce ==
    /\ Cardinality({i \in 1..Len(ledger): ledger[i].kind = "REFUND"}) <= 1
    /\ Refunded <= Paid /\ Paid <= InvoiceTotal

(* A desk that shows the invoice after one of its commands succeeded shows *)
(* that movement: an older load that answers later does not hide it        *)
(* (useInvoiceDetail, the cancelled flag and reload).                      *)
OwnMovementsAreShown ==
    \A d \in Desks: PageReady(d) =>
        \A t \in told: (t.by = d /\ t.cmd.kind = "pay") =>
            \E m \in ToSet(page[d].detail.ledger): m.key = t.cmd.key

(* A form is disabled only while its command is on its way, whatever was   *)
(* opened, left, answered or lost meanwhile: no user waits for an answer   *)
(* that nobody owes (useInvoiceDetail, runMutation).                       *)
BusyFormHasACommand ==
    \A d \in Desks: mutating[d] => \E c \in commands: c.caller = d

(* The pages and the ledger agree on the money: it moves once per form,    *)
(* what was told is stored and shown, and no form waits for nothing.       *)
DeskTellsTheLedger ==
    /\ DeskTypeOK /\ OneMovementPerKey /\ ToldIsStored /\ RefundedOnce
    /\ OwnMovementsAreShown /\ BusyFormHasACommand

(* A cancellation that was executed is acknowledged when the same command, *)
(* with the same key, comes again.                                         *)
ExecutedCancellationIsAcknowledged ==
    \A t \in told: t.cmd.kind = "cancel" => AcceptsCancel([cmd |-> t.cmd])
=============================================================================
