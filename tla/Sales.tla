-------------------------------- MODULE Sales --------------------------------
(***************************************************************************)
(* The commercial aggregate of the sales service                           *)
(* (apps/api/src/features/sales): drafts and quotes, their recognition as  *)
(* an invoice (FAC) or a delivery note (CON, "conduce"), conversion of a   *)
(* conduce, payments, cancellation, and the part of a customer that        *)
(* recognition depends on.                                                 *)
(*                                                                         *)
(* Every handler of SalesService and CustomerService runs in one database  *)
(* transaction at SERIALIZABLE isolation (sales/transaction.ts:37-72), so  *)
(* a handler is one atomic step here; a handler that throws rolls back and *)
(* is a step that is not taken.  An idempotent replay changes nothing and  *)
(* is a stuttering step.  What the service does after the commit (exchange *)
(* rate, PDF) belongs to module AfterCommit, which extends this one.       *)
(*                                                                         *)
(* Data is abstracted to what the rules tell apart.  The lines of a        *)
(* document with its discount and ITBIS are the total they give ("gross"), *)
(* an RNC is "a valid one is present", instants are business days counted  *)
(* from 1 (0 stands for NULL), and the method, reference and reason of a   *)
(* movement are left out.                                                  *)
(***************************************************************************)
EXTENDS Naturals, FiniteSets, FiniteSetsExt

CONSTANTS
    Docs,             \* rows "Invoice" may hold at once (a discarded row frees its identity)
    Customers,        \* rows of "Customer"
    DefaultCustomer,  \* the generic cash customer ("Cliente contado", isDefault)
    Keys,             \* idempotency keys of the movements of one sale
    ConfirmKey,       \* the canonical key "confirm:{id}" of that sale
    ClientKeys,       \* the keys clients send with payments and cancellations
    Currencies,       \* invoice currencies in use
    FiscalChoices,    \* values clients send for the fiscal flag
    MaxAmount,        \* bound: the largest total of a document
    Limits,           \* credit limits in use, DOP
    Terms,            \* credit terms in use, days (30, 45, 60, 90 or 120 in the code)
    QuoteValidity,    \* QUOTE_VALIDITY_DAYS (15 in the code)
    MaxDay            \* bound: the last business day of a behaviour

ASSUME SalesAssumptions ==
    /\ IsFiniteSet(Docs)
    /\ DefaultCustomer \in Customers
    /\ ConfirmKey \in Keys /\ ClientKeys \subseteq Keys
    /\ Currencies \subseteq {"DOP", "USD"}
    /\ FiscalChoices \subseteq BOOLEAN
    /\ MaxAmount \in Nat
    /\ Limits \subseteq Nat \ {0}
    /\ Terms \subseteq Nat \ {0}
    /\ QuoteValidity \in Nat
    /\ MaxDay \in Nat

VARIABLES
    doc,    \* the commercial content and status of each document
    num,    \* the number each document has in each series, 0 for NULL
    seq,    \* InvoiceSequence: the next number of each series
    snap,   \* what issuing and recognition freeze
    money,  \* what sumKind adds up: payments received, refunds given back
    rows,   \* table "InvoicePayment", by idempotency key
    cust,   \* the credit profile of each customer
    today   \* the business day

vars == <<doc, num, seq, snap, money, rows, cust, today>>

Roles == {"ADMINISTRATOR", "SELLER"}
Series == {"FAC", "CON", "COT"}
Amounts == 0..MaxAmount
Days == 1..MaxDay

Editable == {"DRAFT", "QUOTE_DRAFT"}
Recognised == {"CONDUCE", "COMPLETED"}
Statuses == {"NONE", "CANCELLED", "QUOTE_ISSUED"} \cup Editable \cup Recognised

\* A document identity with no row, and a row before it is issued or paid.
NoDoc == [status |-> "NONE", customer |-> DefaultCustomer, currency |-> "DOP",
          fiscal |-> FALSE, lines |-> FALSE, gross |-> 0]
NoSnap == [rnc |-> FALSE, expires |-> 0, confirmedAt |-> 0, issuedAt |-> 0, dueDate |-> 0,
           type |-> "NONE", term |-> 0, by |-> "NONE"]
NoRow == [kind |-> "NONE", amount |-> 0, day |-> 0]

\* The profiles assertCustomerCreditProfile accepts.
CashProfiles == [type: {"CASH"}, rnc: BOOLEAN, limit: {0}, term: {0}]
CreditProfiles == [type: {"CREDIT"}, rnc: {TRUE}, limit: Limits, term: Terms]
Profiles == CashProfiles \cup CreditProfiles

-----------------------------------------------------------------------------
(* What the rules read *)

\* Mistake the checks must catch: what was already paid is forgotten.
BalanceIgnoringPayments(d) == IF doc[d].status \in Recognised THEN doc[d].gross ELSE 0

\* summarizePayments(invoice).balance: nothing is owed on a cancelled sale.
Balance(d) ==
    IF doc[d].status \in Recognised /\ doc[d].gross > money[d].paid
    THEN doc[d].gross - money[d].paid
    ELSE 0

\* Mistake: conduces are not looked at until they become invoices.
DopInvoices(c) == {d \in Docs : /\ doc[d].customer = c
                                /\ doc[d].currency = "DOP"
                                /\ doc[d].status = "COMPLETED"}

\* findCompletedInvoicesWithPayments: the recognised DOP sales of a customer.
DopSales(c) == {d \in Docs : /\ doc[d].customer = c
                             /\ doc[d].currency = "DOP"
                             /\ doc[d].status \in Recognised}

Exposure(c) == MapThenSumSet(Balance, DopSales(c))

FiscalIdentity(c, rnc) == c # DefaultCustomer /\ rnc

NamedCash(c) == cust[c].type = "CASH" /\ c # DefaultCustomer

RequiresFullSettlement(c, currency) ==
    cust[c].type = "CASH" \/ c = DefaultCustomer \/ currency = "USD"

\* A payment of 0 stands for "no payment": the schema refuses an amount of 0.
InitialPaymentPolicy(c, currency, role, gross, pay) ==
    IF RequiresFullSettlement(c, currency)
    THEN pay = gross
    ELSE role = "SELLER" => pay = 0

\* Mistake: the exception of the administrator given to every role.
ConducePolicyForAnyRole(c, currency, role, gross, pay) ==
    NamedCash(c) \/ InitialPaymentPolicy(c, currency, role, gross, pay)

ConducePaymentPolicy(c, currency, role, gross, pay) ==
    \/ role = "ADMINISTRATOR" /\ NamedCash(c)
    \/ InitialPaymentPolicy(c, currency, role, gross, pay)

\* Mistake: only what was owed before is compared with the limit.
WithinLimitBeforeSale(c, currency, newBalance) ==
    (cust[c].type = "CREDIT" /\ currency = "DOP" /\ newBalance > 0)
        => Exposure(c) <= cust[c].limit

WithinCreditLimit(c, currency, newBalance) ==
    (cust[c].type = "CREDIT" /\ currency = "DOP" /\ newBalance > 0)
        => Exposure(c) + newBalance <= cust[c].limit

TermDays(c, currency) ==
    IF cust[c].type = "CREDIT" /\ currency = "DOP" THEN cust[c].term ELSE 0

\* resolveConduceDueDate: `asked` is the due date of the request, 0 when it has none.
ConduceDueDateAllowed(c, role, newBalance, asked) ==
    IF role = "ADMINISTRATOR" /\ NamedCash(c) /\ newBalance > 0
    THEN asked >= today
    ELSE asked = 0

ConduceDueDate(c, currency, asked) ==
    IF asked # 0 THEN asked ELSE today + TermDays(c, currency)

\* confirmationInitialPaymentAmount: the payment stored under the canonical key.
ConfirmationPayment(d) ==
    IF rows[d][ConfirmKey].kind = "PAYMENT" THEN rows[d][ConfirmKey].amount ELSE 0

QuoteExpired(d) == today > snap[d].expires

RecognitionSourceReady(d, source) ==
    /\ source = "QUOTE_ISSUED" => ~QuoteExpired(d)
    /\ doc[d].lines

-----------------------------------------------------------------------------
(* What the steps write *)

\* Mistake: a number is handed out and the sequence is not advanced.
AllocateWithoutAdvancing(d, s) ==
    /\ num' = [num EXCEPT ![d][s] = seq[s]]
    /\ UNCHANGED seq

Allocate(d, s) ==
    /\ num' = [num EXCEPT ![d][s] = seq[s]]
    /\ seq' = [seq EXCEPT ![s] = @ + 1]

\* Mistake: the term is not frozen with the rest.
SnapshotWithoutTerm(d, source, role, due) ==
    [snap[d] EXCEPT
        !.rnc = IF source = "QUOTE_ISSUED" THEN @ ELSE cust[doc[d].customer].rnc,
        !.confirmedAt = today, !.dueDate = due,
        !.type = cust[doc[d].customer].type, !.by = role]

\* The snapshot of the customer: an issued quote keeps the RNC it was issued with.
RecognitionSnapshot(d, source, role, due) ==
    [snap[d] EXCEPT
        !.rnc = IF source = "QUOTE_ISSUED" THEN @ ELSE cust[doc[d].customer].rnc,
        !.confirmedAt = today,
        !.dueDate = due,
        !.type = cust[doc[d].customer].type,
        !.term = cust[doc[d].customer].term,
        !.by = role]

\* Mistake: every movement is stored as a payment.
AddRowAsPayment(d, k, kind, amount, day) ==
    rows' = [rows EXCEPT ![d][k] = [kind |-> "PAYMENT", amount |-> amount, day |-> day]]

AddRow(d, k, kind, amount, day) ==
    rows' = [rows EXCEPT ![d][k] = [kind |-> kind, amount |-> amount, day |-> day]]

\* recordInitialRecognitionPayment: always under the canonical key.
InitialPayment(d, pay) ==
    IF pay = 0
    THEN UNCHANGED <<money, rows>>
    ELSE /\ money' = [money EXCEPT ![d].paid = @ + pay]
         /\ AddRow(d, ConfirmKey, "PAYMENT", pay, today)

-----------------------------------------------------------------------------
(* Drafts and quotes *)

NewDocument(d, status, c, currency, fiscal) ==
    /\ doc[d].status = "NONE"
    /\ fiscal => FiscalIdentity(c, cust[c].rnc)
    /\ doc' = [doc EXCEPT ![d] = [NoDoc EXCEPT !.status = status, !.customer = c,
                                               !.currency = currency, !.fiscal = fiscal]]
    /\ UNCHANGED <<num, seq, snap, money, rows, cust, today>>

CreateDraft(d, c, currency, fiscal) == NewDocument(d, "DRAFT", c, currency, fiscal)

CreateQuote(d, c, currency, fiscal) == NewDocument(d, "QUOTE_DRAFT", c, currency, fiscal)

\* Mistake: a conduce counts as a draft until it is invoiced.
UpdateMetaUntilInvoiced(d, c, currency, fiscal, gross) ==
    /\ doc[d].status \in Editable \cup {"CONDUCE"}
    /\ fiscal => FiscalIdentity(c, cust[c].rnc)
    /\ doc' = [doc EXCEPT ![d] = [@ EXCEPT !.customer = c, !.currency = currency,
                                           !.fiscal = fiscal, !.gross = gross]]
    /\ UNCHANGED <<num, seq, snap, money, rows, cust, today>>

\* Customer, currency, fiscal flag; the discount and ITBIS flag show in the total.
UpdateMeta(d, c, currency, fiscal, gross) ==
    /\ doc[d].status \in Editable
    /\ fiscal => FiscalIdentity(c, cust[c].rnc)
    /\ ~doc[d].lines => gross = 0
    /\ doc' = [doc EXCEPT ![d] = [@ EXCEPT !.customer = c, !.currency = currency,
                                           !.fiscal = fiscal, !.gross = gross]]
    /\ UNCHANGED <<num, seq, snap, money, rows, cust, today>>

\* One more line never lowers the total: discount and ITBIS grow slower than the base.
AddLine(d, gross) ==
    /\ doc[d].status \in Editable
    /\ gross >= doc[d].gross
    /\ doc' = [doc EXCEPT ![d].lines = TRUE, ![d].gross = gross]
    /\ UNCHANGED <<num, seq, snap, money, rows, cust, today>>

SetLinePrice(d, gross) ==
    /\ doc[d].status \in Editable
    /\ doc[d].lines
    /\ doc' = [doc EXCEPT ![d].gross = gross]
    /\ UNCHANGED <<num, seq, snap, money, rows, cust, today>>

\* Either other lines remain, or this was the last one.
RemoveLine(d, gross, remain) ==
    /\ doc[d].status \in Editable
    /\ doc[d].lines
    /\ IF remain THEN gross <= doc[d].gross ELSE gross = 0
    /\ doc' = [doc EXCEPT ![d].lines = remain, ![d].gross = gross]
    /\ UNCHANGED <<num, seq, snap, money, rows, cust, today>>

Discard(d) ==
    /\ doc[d].status \in Editable
    /\ doc' = [doc EXCEPT ![d] = NoDoc]
    /\ UNCHANGED <<num, seq, snap, money, rows, cust, today>>

IssueQuote(d) ==
    /\ doc[d].status = "QUOTE_DRAFT"
    /\ doc[d].lines
    /\ doc[d].fiscal => FiscalIdentity(doc[d].customer, cust[doc[d].customer].rnc)
    /\ Allocate(d, "COT")
    /\ doc' = [doc EXCEPT ![d].status = "QUOTE_ISSUED"]
    /\ snap' = [snap EXCEPT ![d].rnc = cust[doc[d].customer].rnc,
                             ![d].expires = today + QuoteValidity]
    /\ UNCHANGED <<money, rows, cust, today>>

\* The copy is a new draft: no number, no snapshot, and no fiscal check.
DuplicateQuote(source, d) ==
    /\ doc[source].status = "QUOTE_ISSUED"
    /\ doc[d].status = "NONE"
    /\ doc' = [doc EXCEPT ![d] = [doc[source] EXCEPT !.status = "QUOTE_DRAFT"]]
    /\ UNCHANGED <<num, seq, snap, money, rows, cust, today>>

-----------------------------------------------------------------------------
(* Recognition, conversion, payment, cancellation *)

\* confirm (source "DRAFT") and convertQuote (source "QUOTE_ISSUED"): a FAC.
CompleteSale(d, source, role, pay) ==
    LET c == doc[d].customer
        currency == doc[d].currency
        gross == doc[d].gross
        due == today + TermDays(c, currency)
    IN  /\ doc[d].status = source
        /\ RecognitionSourceReady(d, source)
        /\ (source = "DRAFT" /\ doc[d].fiscal) => FiscalIdentity(c, cust[c].rnc)
        /\ pay <= gross
        /\ InitialPaymentPolicy(c, currency, role, gross, pay)
        /\ WithinCreditLimit(c, currency, gross - pay)
        /\ Allocate(d, "FAC")
        /\ doc' = [doc EXCEPT ![d].status = "COMPLETED"]
        /\ snap' = [snap EXCEPT ![d] =
                      [RecognitionSnapshot(d, source, role, due) EXCEPT !.issuedAt = today]]
        /\ InitialPayment(d, pay)
        /\ UNCHANGED <<cust, today>>

\* issueConduce and convertQuoteToConduce: a CON, never fiscal.
IssueConduceSale(d, source, role, pay, asked) ==
    LET c == doc[d].customer
        currency == doc[d].currency
        gross == doc[d].gross
    IN  /\ doc[d].status = source
        /\ RecognitionSourceReady(d, source)
        /\ pay <= gross
        /\ ConducePaymentPolicy(c, currency, role, gross, pay)
        /\ WithinCreditLimit(c, currency, gross - pay)
        /\ ConduceDueDateAllowed(c, role, gross - pay, asked)
        /\ Allocate(d, "CON")
        /\ doc' = [doc EXCEPT ![d].status = "CONDUCE", ![d].fiscal = FALSE]
        /\ snap' = [snap EXCEPT ![d] =
                      RecognitionSnapshot(d, source, role, ConduceDueDate(c, currency, asked))]
        /\ InitialPayment(d, pay)
        /\ UNCHANGED <<cust, today>>

\* Mistake: the customer as it is now decides, not the frozen snapshot.
ConvertByLiveCustomer(d, fiscal) ==
    /\ doc[d].status = "CONDUCE"
    /\ fiscal => FiscalIdentity(doc[d].customer, cust[doc[d].customer].rnc)
    /\ Allocate(d, "FAC")
    /\ doc' = [doc EXCEPT ![d].status = "COMPLETED", ![d].fiscal = fiscal]
    /\ snap' = [snap EXCEPT ![d].issuedAt = today]
    /\ UNCHANGED <<money, rows, cust, today>>

\* Mistake: the invoice is dated with the day the conduce was recognised.
ConvertBackdated(d, fiscal) ==
    /\ doc[d].status = "CONDUCE"
    /\ fiscal => FiscalIdentity(doc[d].customer, snap[d].rnc)
    /\ Allocate(d, "FAC")
    /\ doc' = [doc EXCEPT ![d].status = "COMPLETED", ![d].fiscal = fiscal]
    /\ snap' = [snap EXCEPT ![d].issuedAt = snap[d].confirmedAt]
    /\ UNCHANGED <<money, rows, cust, today>>

\* The fiscal identity is that of the frozen snapshot, not of the customer as it is now.
ConvertConduceToInvoice(d, fiscal) ==
    /\ doc[d].status = "CONDUCE"
    /\ fiscal => FiscalIdentity(doc[d].customer, snap[d].rnc)
    /\ Allocate(d, "FAC")
    /\ doc' = [doc EXCEPT ![d].status = "COMPLETED", ![d].fiscal = fiscal]
    /\ snap' = [snap EXCEPT ![d].issuedAt = today]
    /\ UNCHANGED <<money, rows, cust, today>>

\* An administrator records a payment that took effect on `day`.
AddPayment(d, k, amount, day) ==
    /\ doc[d].status \in Recognised
    /\ rows[d][k] = NoRow
    /\ snap[d].confirmedAt <= day /\ day <= today
    /\ amount > 0 /\ amount <= Balance(d)
    /\ money' = [money EXCEPT ![d].paid = @ + amount]
    /\ AddRow(d, k, "PAYMENT", amount, day)
    /\ UNCHANGED <<doc, num, seq, snap, cust, today>>

\* Mistake: the refund is booked as a negative payment and not bounded.
CancelByNegativePayment(d, k, refund) ==
    /\ doc[d].status \in Recognised
    /\ doc' = [doc EXCEPT ![d].status = "CANCELLED"]
    /\ money' = [money EXCEPT ![d].paid = @ - refund]
    /\ UNCHANGED <<num, seq, snap, rows, cust, today>>

\* An administrator cancels; a refund of 0 writes no movement.
Cancel(d, k, refund) ==
    /\ doc[d].status \in Recognised
    /\ refund <= money[d].paid - money[d].refunded
    /\ doc' = [doc EXCEPT ![d].status = "CANCELLED"]
    /\ IF refund = 0
       THEN UNCHANGED <<money, rows>>
       ELSE /\ rows[d][k] = NoRow
            /\ money' = [money EXCEPT ![d].refunded = @ + refund]
            /\ AddRow(d, k, "REFUND", refund, today)
    /\ UNCHANGED <<num, seq, snap, cust, today>>

-----------------------------------------------------------------------------
(* Customers and time *)

\* CustomerService.update, by the profile it results in.
UpdateCustomer(c, role, profile) ==
    /\ c # DefaultCustomer
    /\ role = "SELLER" => cust[c].type = "CASH" /\ profile.type = "CASH"
    /\ (cust[c].type = "CREDIT" /\ profile.type = "CASH")
         => \A d \in DopSales(c) : Balance(d) = 0
    /\ cust' = [cust EXCEPT ![c] = profile]
    /\ UNCHANGED <<doc, num, seq, snap, money, rows, today>>

NextDay ==
    /\ today < MaxDay
    /\ today' = today + 1
    /\ UNCHANGED <<doc, num, seq, snap, money, rows, cust>>

-----------------------------------------------------------------------------
Init ==
    /\ doc = [d \in Docs |-> NoDoc]
    /\ num = [d \in Docs |-> [s \in Series |-> 0]]
    /\ seq = [s \in Series |-> 1]
    /\ snap = [d \in Docs |-> NoSnap]
    /\ money = [d \in Docs |-> [paid |-> 0, refunded |-> 0]]
    /\ rows = [d \in Docs |-> [k \in Keys |-> NoRow]]
    /\ cust = [c \in Customers |-> [type |-> "CASH", rnc |-> FALSE, limit |-> 0, term |-> 0]]
    /\ today = 1

EditDraft(d) ==
    \/ \E c \in Customers, currency \in Currencies, fiscal \in FiscalChoices :
         \/ CreateDraft(d, c, currency, fiscal)
         \/ CreateQuote(d, c, currency, fiscal)
         \/ \E gross \in Amounts : UpdateMeta(d, c, currency, fiscal, gross)
    \/ \E gross \in Amounts :
         \/ AddLine(d, gross)
         \/ SetLinePrice(d, gross)
         \/ \E remain \in BOOLEAN : RemoveLine(d, gross, remain)
    \/ Discard(d)
    \/ \E source \in Docs : DuplicateQuote(source, d)

Recognise(d) ==
    \E source \in {"DRAFT", "QUOTE_ISSUED"}, role \in Roles, pay \in Amounts :
        \/ CompleteSale(d, source, role, pay)
        \/ \E asked \in Days \cup {0} : IssueConduceSale(d, source, role, pay, asked)

Settle(d) ==
    \/ \E fiscal \in FiscalChoices : ConvertConduceToInvoice(d, fiscal)
    \/ \E k \in ClientKeys, amount \in Amounts :
         \/ \E day \in Days : AddPayment(d, k, amount, day)
         \/ Cancel(d, k, amount)

Next ==
    \/ \E d \in Docs : EditDraft(d) \/ IssueQuote(d) \/ Recognise(d) \/ Settle(d)
    \/ \E c \in Customers, role \in Roles, profile \in Profiles :
         UpdateCustomer(c, role, profile)
    \/ NextDay

Spec == Init /\ [][Next]_vars

-----------------------------------------------------------------------------
(* Type invariant *)

DocType == [status: Statuses, customer: Customers, currency: Currencies \cup {"DOP"},
            fiscal: BOOLEAN, lines: BOOLEAN, gross: Amounts]
SnapType == [rnc: BOOLEAN, expires: Nat, confirmedAt: Nat, issuedAt: Nat, dueDate: Nat,
             type: {"NONE", "CASH", "CREDIT"}, term: Nat, by: Roles \cup {"NONE"}]
RowType == [kind: {"NONE", "PAYMENT", "REFUND"}, amount: Nat, day: Nat]

\* Every variable has the shape its table gives it.
TypeOK ==
    /\ doc \in [Docs -> DocType]
    /\ num \in [Docs -> [Series -> Nat]]
    /\ seq \in [Series -> Nat \ {0}]
    /\ snap \in [Docs -> SnapType]
    /\ money \in [Docs -> [paid: Nat, refunded: Nat]]
    /\ rows \in [Docs -> [Keys -> RowType]]
    /\ cust \in [Customers -> Profiles]
    /\ today \in Nat \ {0}

-----------------------------------------------------------------------------
(* Safety *)

\* Each series is used without gap and without repetition: every number below
\* the next one belongs to exactly one document, and no document holds a number
\* that was not allocated (allocateNextNumber and its two siblings; a refused or
\* rolled back transaction must not consume a number).
NumbersSound ==
    \A s \in Series :
        /\ \A d \in Docs : num[d][s] < seq[s]
        /\ \A d, e \in Docs : (num[d][s] = num[e][s] /\ num[d][s] # 0) => d = e
        /\ \A n \in 1..(seq[s] - 1) : \E d \in Docs : num[d][s] = n

\* Invoices are numbered in the order of their documentary dates, also when some
\* are confirmed directly and others come from a conduce recognised days before.
NumbersChronological ==
    \A d, e \in Docs :
        /\ (0 < num[d]["FAC"] /\ num[d]["FAC"] < num[e]["FAC"])
             => snap[d].issuedAt <= snap[e].issuedAt
        /\ (0 < num[d]["CON"] /\ num[d]["CON"] < num[e]["CON"])
             => snap[d].confirmedAt <= snap[e].confirmedAt
        /\ (0 < num[d]["COT"] /\ num[d]["COT"] < num[e]["COT"])
             => snap[d].expires <= snap[e].expires

\* The shape the database demands of a row in each status (the CHECK constraints
\* of the migrations): a handler that wrote another one would fail with an error
\* of the database instead of an answer of the service.
RowShape ==
    \A d \in Docs :
        LET n == num[d]  t == snap[d]  st == doc[d].status
            recognised == /\ t.confirmedAt # 0 /\ t.dueDate >= t.confirmedAt
                          /\ t.type = "CASH" => t.term = 0
                          /\ t.type = "CREDIT" => t.term \in Terms
                          /\ t.type # "NONE" /\ t.by # "NONE"
        IN  /\ (n["FAC"] = 0) <=> (t.issuedAt = 0)
            /\ (n["COT"] = 0) <=> (t.expires = 0)
            /\ t.issuedAt # 0 => t.issuedAt >= t.confirmedAt
            /\ st \in Editable \cup {"NONE"} => n = [s \in Series |-> 0] /\ t = NoSnap
            /\ st = "QUOTE_ISSUED" => /\ n["COT"] # 0 /\ n["CON"] = 0 /\ n["FAC"] = 0
                                      /\ t.confirmedAt = 0 /\ t.dueDate = 0 /\ t.type = "NONE"
            /\ st = "CONDUCE" => recognised /\ n["CON"] # 0 /\ n["FAC"] = 0
            /\ st = "COMPLETED" => recognised /\ n["FAC"] # 0
            /\ st = "CANCELLED" => recognised /\ (n["FAC"] # 0 \/ n["CON"] # 0)

\* Never more is collected than the document is worth, never more given back
\* than was collected, and money only ever moves on a recognised sale.
MoneyBounded ==
    \A d \in Docs :
        /\ money[d].refunded <= money[d].paid
        /\ money[d].paid <= doc[d].gross
        /\ money[d].refunded > 0 => doc[d].status = "CANCELLED"
        /\ money[d].paid > 0 => doc[d].status \in Recognised \cup {"CANCELLED"}

\* The movements stored are the money received and given back: one row per key.
MovementsAddUp ==
    \A d \in Docs :
        LET Total(kind) == MapThenSumSet(LAMBDA k : rows[d][k].amount,
                                         {k \in Keys : rows[d][k].kind = kind})
        IN  money[d] = [paid |-> Total("PAYMENT"), refunded |-> Total("REFUND")]

\* A fiscal document always names a taxpayer: an issued quote or an invoice, live
\* or cancelled, that is fiscal carries a frozen RNC and is never for the generic
\* customer, whatever happened to the customer since (CUST-002, CON-003).
FiscalIdentityFrozen ==
    \A d \in Docs :
        (doc[d].fiscal /\ doc[d].status \in Recognised \cup {"QUOTE_ISSUED", "CANCELLED"})
            => doc[d].customer # DefaultCustomer /\ snap[d].rnc

\* An open balance was granted by the rules: to a CREDIT customer in DOP, or by
\* an administrator to a named cash customer on a conduce (CON-002), which may
\* have become an invoice since.
OpenBalanceAuthorised ==
    \A d \in Docs : Balance(d) > 0 =>
        \/ snap[d].type = "CREDIT" /\ doc[d].currency = "DOP"
        \/ /\ snap[d].type = "CASH" /\ doc[d].customer # DefaultCustomer
           /\ num[d]["CON"] # 0 /\ snap[d].by = "ADMINISTRATOR"

\* A customer who is a cash customer now owes nothing on terms granted as a
\* CREDIT customer (CREDIT_TO_CASH_OPEN_BALANCE_MESSAGE).
NoCreditLeftBehind ==
    \A d \in Docs :
        (Balance(d) > 0 /\ cust[doc[d].customer].type = "CASH") => snap[d].type = "CASH"

\* The due date: the frozen term for CREDIT in DOP, else the day of recognition,
\* which only an administrator may move forward, for a named cash customer's
\* conduce (resolveConduceDueDate).
TermsHonoured ==
    \A d \in Docs : doc[d].status \in Recognised =>
        LET days == IF snap[d].type = "CREDIT" /\ doc[d].currency = "DOP"
                    THEN snap[d].term ELSE 0
        IN  \/ snap[d].dueDate = snap[d].confirmedAt + days
            \/ /\ snap[d].dueDate > snap[d].confirmedAt
               /\ snap[d].type = "CASH" /\ doc[d].customer # DefaultCustomer
               /\ num[d]["CON"] # 0 /\ snap[d].by = "ADMINISTRATOR"

\* Credit is what the rules grant, to whom they grant it and for as long as they grant
\* it, also after the conduce has become an invoice and the customer was changed.
CreditHonoured == OpenBalanceAuthorised /\ TermsHonoured

-----------------------------------------------------------------------------
(* Action properties *)

\* What a CREDIT customer owes grows only up to the limit, across all documents
\* and handlers; lowering a limit below what is owed is allowed, growing it past
\* the limit is not (SALE-005, CON-002).
ExposureGrowsWithinLimit ==
    [][\A c \in Customers :
         (cust[c].type = "CREDIT" /\ Exposure(c)' > Exposure(c))
            => Exposure(c)' <= cust[c].limit]_vars

\* What was recognised stays as it was recognised: total, customer, currency,
\* dates, terms, actor and numbers never change again, the document never goes
\* back to a draft or a quote, and a cancelled one is final.
Frozen(d) == <<doc[d].gross, doc[d].customer, doc[d].currency, doc[d].lines, num[d]["CON"],
               num[d]["COT"], [snap[d] EXCEPT !.issuedAt = 0]>>

RecognitionFinal ==
    [][\A d \in Docs :
        /\ doc[d].status \in Recognised \cup {"CANCELLED"} => Frozen(d)' = Frozen(d)
        /\ doc[d].status = "CONDUCE" => doc'[d].status \in Recognised \cup {"CANCELLED"}
        /\ doc[d].status = "COMPLETED" => /\ doc'[d].status \in {"COMPLETED", "CANCELLED"}
                                          /\ doc'[d].fiscal = doc[d].fiscal
        /\ doc[d].status = "CANCELLED" => doc'[d] = doc[d] /\ money'[d] = money[d]
        /\ num[d]["FAC"] # 0 => num'[d] = num[d] /\ snap'[d] = snap[d]]_vars

-----------------------------------------------------------------------------
(* The sales service implements the ledger *)

Account ==
    [d \in Docs |->
        [state |-> IF doc[d].status \in Recognised THEN "owed"
                   ELSE IF doc[d].status = "CANCELLED" THEN "closed" ELSE "open",
         due |-> IF doc[d].status \in Recognised \cup {"CANCELLED"} THEN doc[d].gross ELSE 0,
         paid |-> money[d].paid,
         refunded |-> money[d].refunded]]

Ledger == INSTANCE SaleLedger WITH account <- Account

\* Every behaviour of the service is one the ledger allows.
LedgerImplemented == Ledger!Spec
=============================================================================
