-------------------------------- MODULE Books --------------------------------
(***************************************************************************)
(* The sales of the business and every report made of them.  Receivables   *)
(* are worked out by SQL, by the API over each sale's payments and by the  *)
(* assistant; sales and collections by the seller report, by the assistant *)
(* and by the browser.  Amounts are whole numbers and instants are         *)
(* business days.                                                          *)
(***************************************************************************)
EXTENDS Integers, Sequences, FiniteSets, SequencesExt, FiniteSetsExt

CONSTANTS
    Ids,          \* the sales that may be made
    Deal,         \* what each is: [customer, currency, gross, quotedBy, soldBy, term, cost]
    DopPerUsd,    \* the rate that is published
    LastDay,      \* bound
    MaxPayments   \* bound on the payments of a sale

ASSUME BooksAssumption ==
    /\ DopPerUsd \in Nat \ {0} /\ LastDay \in Nat \ {0} /\ MaxPayments \in Nat
    /\ \A s \in Ids: Deal[s].gross \in Nat \ {0} /\ Deal[s].term \in Nat

VARIABLES
    book,    \* of each sale: its status, its days, its rate and its payments
    today

bookVars == <<book, today>>

Unmade == [status |-> "DRAFT", quotedOn |-> 0, confirmedOn |-> 0, invoicedOn |-> 0,
           rated |-> FALSE, payments |-> <<>>]

BooksInit ==
    /\ book = [s \in Ids |-> Unmade]
    /\ today = 1

AmountOf(kind, payments) ==
    FoldLeft(LAMBDA total, p: total + (IF p.kind = kind THEN p.amount ELSE 0), 0, payments)
Paid(s) == AmountOf("PAYMENT", book[s].payments)
Over(S, f(_)) == MapThenSumSet(f, S)
---------------------------------------------------------------------------
(* What the API works out of one sale.                                     *)
isRecognizedSale(s) == book[s].status \in {"COMPLETED", "CONDUCE"}
dueDate(s) == book[s].confirmedOn + (IF Deal[s].currency = "DOP" THEN Deal[s].term ELSE 0)

\* The day by which the payments, in the order of their dates, make the total.
settlementDate(s) ==
    LET by(d) == AmountOf("PAYMENT", SelectSeq(book[s].payments, LAMBDA p: p.day <= d))
        days == {d \in 1..today: by(d) >= Deal[s].gross}
    IN IF days = {} THEN 0 ELSE Min(days)

isOverdue(s, day) == day > dueDate(s)

summarizePayments(s) ==
    LET balance == IF book[s].status = "CANCELLED" THEN 0 ELSE Max({Deal[s].gross - Paid(s), 0})
        overdue == balance > 0 /\ isOverdue(s, today)
    IN [balance |-> balance,
        state |-> IF book[s].status = "CANCELLED" THEN "CANCELLED"
                  ELSE IF balance = 0
                  THEN IF settlementDate(s) > dueDate(s) THEN "PAID_LATE" ELSE "PAID"
                  ELSE IF Paid(s) > 0
                  THEN IF overdue THEN "PARTIALLY_PAID_OVERDUE" ELSE "PARTIALLY_PAID"
                  ELSE IF overdue THEN "OVERDUE" ELSE "PENDING"]
OpenStates == {"PENDING", "PARTIALLY_PAID", "OVERDUE", "PARTIALLY_PAID_OVERDUE"}

\* Cash is what the confirmation paid in full.
saleCondition(s) ==
    IF \E i \in DOMAIN book[s].payments:
         book[s].payments[i].initial /\ book[s].payments[i].amount = Deal[s].gross
    THEN "CASH" ELSE "CREDIT"

\* Profit in pesos: -1 while it is not known, -2 while it waits for a rate.
UNKNOWN_COST == -1
PENDING_FX_RATE == -2
inDop(s, amount) == IF Deal[s].currency = "USD" THEN amount * DopPerUsd ELSE amount
reportedProfit(s) ==
    IF Deal[s].currency = "USD" /\ ~book[s].rated THEN PENDING_FX_RATE
    ELSE IF Deal[s].cost = UNKNOWN_COST THEN UNKNOWN_COST
    ELSE inDop(s, Deal[s].gross) - Deal[s].cost
---------------------------------------------------------------------------
IssueTheQuote(s) ==
    /\ book[s].status = "DRAFT"
    /\ book' = [book EXCEPT ![s].status = "QUOTE_ISSUED", ![s].quotedOn = today]
    /\ UNCHANGED today

\* Confirmation, with an initial payment dated that day or none; dollars are paid in full.
RecogniseSale(s, status, amount, rated) ==
    /\ book[s].status \in {"DRAFT", "QUOTE_ISSUED"}
    /\ Deal[s].currency = "USD" => amount = Deal[s].gross
    /\ rated => Deal[s].currency = "USD"
    /\ book' = [book EXCEPT ![s] = [@ EXCEPT
         !.status = status, !.confirmedOn = today, !.rated = rated,
         !.invoicedOn = IF status = "COMPLETED" THEN today ELSE 0,
         !.payments = IF amount = 0 THEN <<>>
                      ELSE <<[kind |-> "PAYMENT", amount |-> amount, day |-> today, initial |-> TRUE]>>]]
    /\ UNCHANGED today

ConvertConduce(s) ==
    /\ book[s].status = "CONDUCE"
    /\ book' = [book EXCEPT ![s].status = "COMPLETED", ![s].invoicedOn = today]
    /\ UNCHANGED today

\* addPayment: dated from the day of the sale to today.
AddPaymentOf(s, amount, day) ==
    /\ isRecognizedSale(s) /\ Len(book[s].payments) < MaxPayments
    /\ amount <= summarizePayments(s).balance
    /\ book[s].confirmedOn <= day /\ day <= today
    /\ book' = [book EXCEPT ![s].payments =
         Append(@, [kind |-> "PAYMENT", amount |-> amount, day |-> day, initial |-> FALSE])]
    /\ UNCHANGED today

\* cancel: what was paid is refunded, today.
CancelSale(s) ==
    /\ isRecognizedSale(s)
    /\ book' = [book EXCEPT ![s] = [@ EXCEPT !.status = "CANCELLED",
         !.payments = IF Paid(s) = 0 THEN @
                      ELSE Append(@, [kind |-> "REFUND", amount |-> Paid(s), day |-> today,
                                      initial |-> FALSE])]]
    /\ UNCHANGED today

RateArrives(s) ==
    /\ isRecognizedSale(s) /\ Deal[s].currency = "USD" /\ ~book[s].rated
    /\ book' = [book EXCEPT ![s].rated = TRUE]
    /\ UNCHANGED today

NextDay ==
    /\ today < LastDay
    /\ today' = today + 1
    /\ UNCHANGED book

DealOf(s) ==
    \/ IssueTheQuote(s) \/ ConvertConduce(s) \/ CancelSale(s) \/ RateArrives(s)
    \/ \E status \in {"CONDUCE", "COMPLETED"}, amount \in 0..Deal[s].gross, rated \in BOOLEAN:
         RecogniseSale(s, status, amount, rated)
    \/ \E amount \in 1..Deal[s].gross, day \in 1..today: AddPaymentOf(s, amount, day)

BooksNext == NextDay \/ \E s \in Ids: DealOf(s)

BooksSpec == BooksInit /\ [][BooksNext]_bookVars
---------------------------------------------------------------------------
(* Receivables, five times.                                                *)
Customers == {Deal[s].customer: s \in Ids}
Currencies == {"DOP", "USD"}
Of(customer, currency) == {s \in Ids: Deal[s].customer = customer /\ Deal[s].currency = currency}

\* receivableBalances: the SQL of the receivables screen.
receivableBalances == {s \in Ids: isRecognizedSale(s) /\ Deal[s].gross > Paid(s)}
listReceivables(customer, currency) ==
    Over(receivableBalances \cap Of(customer, currency), LAMBDA s: Deal[s].gross - Paid(s))

\* The account statement: those rows, each summarised again.
AccountStatement(customer) ==
    Over({s \in receivableBalances \cap Of(customer, "DOP"):
            summarizePayments(s).balance > 0 /\ summarizePayments(s).state \in OpenStates},
         LAMBDA s: summarizePayments(s).balance)

\* The assistant's summary of a customer, and the exposure a confirmation adds to.
CommercialSummary(customer, currency) ==
    Over({s \in Of(customer, currency): isRecognizedSale(s) /\ summarizePayments(s).state \in OpenStates},
         LAMBDA s: summarizePayments(s).balance)
openExposure(customer) ==
    Over({s \in Of(customer, "DOP"): isRecognizedSale(s)}, LAMBDA s: summarizePayments(s).balance)

\* The assistant's receivables: payments up to the UTC day of the end of the business day.
PaidBy(s, cutOff) == AmountOf("PAYMENT", SelectSeq(book[s].payments, LAMBDA p: p.day <= cutOff + 1))
assistantReceivableBalances(cutOff) ==
    {s \in Ids: isRecognizedSale(s) /\ Deal[s].gross > PaidBy(s, cutOff)}
assistantState(s, cutOff) ==
    LET overdue == dueDate(s) < cutOff
    IN IF PaidBy(s, cutOff) > 0
       THEN IF overdue THEN "PARTIALLY_PAID_OVERDUE" ELSE "PARTIALLY_PAID"
       ELSE IF overdue THEN "OVERDUE" ELSE "PENDING"
---------------------------------------------------------------------------
(* Sales and collections.                                                  *)
\* Rows of the seller report: an invoice and the conduce it came from are one sale.
ByInvoiceDay(s) == IF book[s].status = "COMPLETED" THEN book[s].invoicedOn ELSE book[s].confirmedOn
documentDate(s) == IF book[s].status = "QUOTE_ISSUED" THEN book[s].quotedOn ELSE book[s].confirmedOn
sellerOf(s) == IF book[s].status = "QUOTE_ISSUED" THEN Deal[s].quotedBy ELSE Deal[s].soldBy
SellerRows(from, to) ==
    {s \in Ids: (isRecognizedSale(s) \/ book[s].status = "QUOTE_ISSUED") /\ documentDate(s) \in from..to}
SellerTotal(seller, currency, from, to) ==
    Over({s \in SellerRows(from, to): sellerOf(s) = seller /\ Deal[s].currency = currency},
         LAMBDA s: Deal[s].gross)
Sellers == {Deal[s].soldBy: s \in Ids} \cup {Deal[s].quotedBy: s \in Ids}

\* What counts for the figures of the screen, and in pesos.
Counted(items) == {s \in items: isRecognizedSale(s)}
HasRate(s) == Deal[s].currency = "DOP" \/ book[s].rated
Signed(s, days) ==
    FoldLeft(LAMBDA total, p: total + (IF p.day \notin days THEN 0
                                       ELSE IF p.kind = "REFUND" THEN -p.amount ELSE p.amount),
             0, book[s].payments)
CollectedOn(days) ==
    Over({s \in Counted(Ids): HasRate(s)}, LAMBDA s: inDop(s, Signed(s, days)))
InvoicedOn(condition, days) ==
    Over({s \in Counted(Ids): HasRate(s) /\ saleCondition(s) = condition /\ book[s].confirmedOn \in days},
         LAMBDA s: inDop(s, Deal[s].gross))
ProfitOn(days) ==
    Over({s \in Counted(Ids): reportedProfit(s) >= 0 /\ book[s].confirmedOn \in days}, reportedProfit)
invoicesMissingProfit == Cardinality({s \in Counted(Ids): reportedProfit(s) < 0})
omittedUsdReceipts ==
    Over({s \in Counted(Ids): ~HasRate(s)}, LAMBDA s: Len(book[s].payments))

\* The axis of the charts: from the first sale that was ever confirmed to today.
chartDays ==
    LET confirmed == {book[s].confirmedOn: s \in {s \in Ids: book[s].confirmedOn > 0}}
    IN IF confirmed = {} THEN {} ELSE Min(confirmed)..today

\* The assistant's summary of the sales confirmed in a range, one currency at a time.
AssistantProfit(from, to) ==
    LET sales == {s \in Ids: isRecognizedSale(s) /\ book[s].confirmedOn \in from..to}
    IN [profit |-> Over({s \in sales: reportedProfit(s) >= 0}, reportedProfit),
        collected |-> Over({s \in sales: HasRate(s)}, LAMBDA s: inDop(s, Signed(s, 1..today))),
        pending |-> Cardinality({s \in sales: reportedProfit(s) = PENDING_FX_RATE}),
        missing |-> Cardinality({s \in sales: reportedProfit(s) = UNKNOWN_COST}),
        omitted |-> Over({s \in sales: ~HasRate(s)}, LAMBDA s: Len(book[s].payments))]
---------------------------------------------------------------------------
(* What customers owe is the same wherever it is worked out: the SQL of    *)
(* the receivables screen, the statement a customer is given, what the     *)
(* assistant says of a customer and of the business, and the exposure a    *)
(* credit sale is checked against; and each open sale is in the same state *)
(* for the assistant as for the screen.                                    *)
ReceivablesAgree ==
    /\ \A c \in Customers:
         /\ listReceivables(c, "DOP") = AccountStatement(c)
         /\ listReceivables(c, "DOP") = openExposure(c)
         /\ \A currency \in Currencies: listReceivables(c, currency) = CommercialSummary(c, currency)
    /\ receivableBalances = assistantReceivableBalances(today)
    /\ \A s \in receivableBalances: assistantState(s, today) = summarizePayments(s).state

(* Every peso collected and sold that the screen totals is in one of the   *)
(* days of its charts, although a payment may be dated back.               *)
TotalsAreCharted ==
    /\ CollectedOn(1..today) = CollectedOn(chartDays)
    /\ \A c \in {"CASH", "CREDIT"}: InvoicedOn(c, 1..today) = InvoicedOn(c, chartDays)

(* For the same sales the assistant tells an administrator the figures of  *)
(* the profitability screen; the sales without profit are those the one    *)
(* calls missing and those it calls pending.                               *)
AssistantTellsTheScreen ==
    LET told == AssistantProfit(1, today)
    IN /\ told.profit = ProfitOn(1..today) /\ told.collected = CollectedOn(1..today)
       /\ told.pending + told.missing = invoicesMissingProfit
       /\ told.omitted = omittedUsdReceipts

(* A conduce that becomes an invoice stays one sale of its day: whatever   *)
(* the range and the seller, no total of sales, collections or profit      *)
(* changes when it is converted (CON-006).                                 *)
ConversionCountsOnce ==
    [][\A s \in Ids: book[s].status = "CONDUCE" /\ book'[s].status = "COMPLETED" =>
         /\ \A from, to \in 1..LastDay:
              /\ \A seller \in Sellers, c \in Currencies:
                   SellerTotal(seller, c, from, to)' = SellerTotal(seller, c, from, to)
              /\ \A c \in {"CASH", "CREDIT"}: InvoicedOn(c, from..to)' = InvoicedOn(c, from..to)
              /\ CollectedOn(from..to)' = CollectedOn(from..to)
              /\ ProfitOn(from..to)' = ProfitOn(from..to)
         /\ receivableBalances' = receivableBalances]_bookVars

(* One book, whoever reads it: what is owed, collected, sold and earned is *)
(* the same on every screen, on every day and for the assistant, before    *)
(* and after a conduce becomes an invoice.                                 *)
ReportsAgree ==
    /\ [](ReceivablesAgree /\ TotalsAreCharted /\ AssistantTellsTheScreen)
    /\ ConversionCountsOnce
=============================================================================
