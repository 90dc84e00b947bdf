----------------------------- MODULE SaleFigures -----------------------------
(***************************************************************************)
(* The figures of one sale, from the first line of its draft to its        *)
(* profit: line money is rounded line by line, the discount is taken from  *)
(* the sum, issuing or recognising a document freezes both, and every      *)
(* later document and report derives what it prints from the frozen ones.  *)
(* Amounts are cents, quantities and rates hundredths, percents hundredths *)
(* of a percent.                                                           *)
(***************************************************************************)
EXTENDS Integers, Sequences, FiniteSets, SequencesExt

CONSTANTS
    Entries,         \* lines a seller may add: [type, unit, qty]
    Percents,        \* discounts of the invoice
    Costs,           \* acquisition costs that rows stored by inventory carry
    Rates,           \* pesos per dollar
    ManualProfits,   \* amounts an administrator judges
    MaxLines         \* bound

ASSUME FiguresAssumption ==
    /\ Entries \subseteq [type: {"GENERIC", "EXTERNAL", "ITEM", "QTY", "SERVICE", "DELIVERY"},
                          unit: Nat, qty: Nat]
    /\ Percents \subseteq 0..10000
    /\ Costs \subseteq Nat /\ Rates \subseteq Nat \ {0} /\ ManualProfits \subseteq Int
    /\ MaxLines \in Nat \ {0}

VARIABLE sale   \* the row of the sale and its lines

figureVars == <<sale>>

NotStored == [stored |-> FALSE]
UNKNOWN == [known |-> FALSE]
Known(c) == [known |-> TRUE, dop |-> c]

\* ROUND_HALF_UP of n / d: halves go away from zero.
RoundMoney(n, d) == IF n >= 0 THEN (2 * n + d) \div (2 * d) ELSE -((d - 2 * n) \div (2 * d))

Sum(f(_), seq) == FoldLeft(LAMBDA total, x: total + f(x), 0, seq)
Bases(moneys) == Sum(LAMBDA money: money.base, moneys)
ItbisOf(moneys) == Sum(LAMBDA money: money.itbis, moneys)

TAXABLE_LINE_TYPES == {"GENERIC", "EXTERNAL", "ITEM", "QTY"}
NO_COGS_LINE_TYPES == {"SERVICE", "DELIVERY"}

calculateLineMoney(line, applyItbis) ==
    LET base == RoundMoney(line.unit * line.qty, 100)
        itbis == IF applyItbis /\ line.type \in TAXABLE_LINE_TYPES
                 THEN RoundMoney(base * 18, 100) ELSE 0
    IN [gross |-> base + itbis, base |-> base, itbis |-> itbis]

\* The discount is taken from every base; the tax is the lines' own and is not discounted.
applyInvoiceDiscount(moneys, percent, applyItbis) ==
    LET discount == RoundMoney(Bases(moneys) * percent, 10000)
        base == Bases(moneys) - discount
        itbis == IF applyItbis THEN ItbisOf(moneys) ELSE 0
    IN [discount |-> discount, base |-> base, itbis |-> itbis, gross |-> base + itbis]

\* A line shows its frozen money, or what it comes to now.
LineMoney(line) == IF line.money # NotStored THEN line.money
                   ELSE calculateLineMoney(line, sale.applyItbis)
LineMoneys == [i \in DOMAIN sale.lines |-> LineMoney(sale.lines[i])]

invoiceTotals ==
    LET derived == applyInvoiceDiscount(LineMoneys, sale.percent, sale.applyItbis)
    IN IF sale.header = NotStored THEN derived
       ELSE [sale.header EXCEPT !.discount = derived.discount]
---------------------------------------------------------------------------
isEditableDraftStatusOrIssued(status) == status \in {"DRAFT", "QUOTE_DRAFT", "QUOTE_ISSUED"}
isEditableDraftStatus(status) == status \in {"DRAFT", "QUOTE_DRAFT"}
isRecognizedSaleStatus(status) == status \in {"COMPLETED", "CONDUCE"}

\* A draft with no line, or with one that inventory gave a cost.
FiguresInit ==
    \E status \in {"DRAFT", "QUOTE_DRAFT"}, currency \in {"DOP", "USD"}, entry \in Entries, c \in Costs:
      \E lines \in {<<>>, <<[type |-> entry.type, unit |-> entry.unit, qty |-> entry.qty,
                             cost |-> Known(c), money |-> NotStored]>>}:
        sale = [status |-> status, currency |-> currency, applyItbis |-> TRUE, percent |-> 0,
                lines |-> lines, header |-> NotStored, rate |-> NotStored, manual |-> NotStored]

\* updateMeta: whether tax is added, and the discount.
UpdateMeta(applyItbis, percent) ==
    /\ isEditableDraftStatus(sale.status)
    /\ sale' = [sale EXCEPT !.applyItbis = applyItbis, !.percent = percent]

\* addLine: at most one delivery; the cost of a line that is sold is not captured.
AddFigureLine(entry) ==
    /\ isEditableDraftStatus(sale.status) /\ Len(sale.lines) < MaxLines
    /\ entry.type = "DELIVERY" => \A i \in DOMAIN sale.lines: sale.lines[i].type # "DELIVERY"
    /\ sale' = [sale EXCEPT !.lines = Append(@,
         [type |-> entry.type, unit |-> entry.unit, qty |-> entry.qty,
          cost |-> UNKNOWN, money |-> NotStored])]

SetLinePrice(i, unit) ==
    /\ isEditableDraftStatus(sale.status)
    /\ sale' = [sale EXCEPT !.lines[i].unit = unit]

RemoveFigureLine(i) ==
    /\ isEditableDraftStatus(sale.status)
    /\ sale' = [sale EXCEPT !.lines = RemoveAt(@, i)]

\* Line money and header are stored together; an issued quote's lines keep what they have.
Frozen(status) ==
    LET stored == [i \in DOMAIN sale.lines |->
                     IF sale.status = "QUOTE_ISSUED" THEN sale.lines[i].money
                     ELSE calculateLineMoney(sale.lines[i], sale.applyItbis)]
    IN [sale EXCEPT !.status = status,
                    !.header = applyInvoiceDiscount(stored, sale.percent, sale.applyItbis),
                    !.lines = [i \in DOMAIN @ |-> [@[i] EXCEPT !.money = stored[i]]]]

IssueQuoteFigures ==
    /\ sale.status = "QUOTE_DRAFT" /\ sale.lines # <<>>
    /\ sale' = Frozen("QUOTE_ISSUED")

\* duplicateAsQuoteDraft: the copy, followed from here, has the lines without their money.
DuplicateFigures ==
    /\ sale.status = "QUOTE_ISSUED"
    /\ sale' = [sale EXCEPT !.status = "QUOTE_DRAFT", !.header = NotStored,
                            !.lines = [i \in DOMAIN @ |-> [@[i] EXCEPT !.money = NotStored]]]

\* confirm, convertQuote, issueConduce and convertQuoteToConduce.
RecogniseFigures(status) ==
    /\ sale.status \in {"DRAFT", "QUOTE_ISSUED"} /\ sale.lines # <<>>
    /\ sale' = Frozen(status)

ConvertConduceFigures ==
    /\ sale.status = "CONDUCE"
    /\ sale' = [sale EXCEPT !.status = "COMPLETED"]

CancelFigures ==
    /\ isRecognizedSaleStatus(sale.status)
    /\ sale' = [sale EXCEPT !.status = "CANCELLED"]

\* recordUsdFxRate: only where there is none.
StoreRate(rate) ==
    /\ sale.currency = "USD" /\ isRecognizedSaleStatus(sale.status) /\ sale.rate = NotStored
    /\ sale' = [sale EXCEPT !.rate = [stored |-> TRUE, dop |-> rate]]
---------------------------------------------------------------------------
(* Profit in pesos.  A line's is UNAVAILABLE when its cost is unknown, and *)
(* a service has none.                                                     *)
UNAVAILABLE(reason) == [status |-> "UNAVAILABLE", reason |-> reason]
CALCULATED(profit) == [status |-> "CALCULATED", dop |-> profit]

sellingPriceOf(line) == IF sale.applyItbis THEN LineMoney(line).base ELSE LineMoney(line).gross

\* A dollar line: price and cost are carried at full precision, and rounded in pesos.
LineProfit(line) ==
    LET rate == IF sale.currency = "USD" THEN sale.rate.dop ELSE 100
        cost == IF line.type \in NO_COGS_LINE_TYPES THEN Known(0) ELSE line.cost
    IN IF cost = UNKNOWN THEN UNAVAILABLE("UNKNOWN_COST")
       ELSE CALCULATED(RoundMoney(sellingPriceOf(line) * rate - cost.dop * 100, 100))

\* A part of the profit is never shown as the whole.
sumCalculatedProfit(profits) ==
    IF \E i \in DOMAIN profits: profits[i].status = "UNAVAILABLE"
    THEN UNAVAILABLE("UNKNOWN_COST")
    ELSE CALCULATED(Sum(LAMBDA p: p.dop, profits))

calculatedCompletedProfitability ==
    IF sale.currency = "USD" /\ sale.rate = NotStored
    THEN UNAVAILABLE("PENDING_FX_RATE")
    ELSE sumCalculatedProfit([i \in DOMAIN sale.lines |-> LineProfit(sale.lines[i])])

\* What is calculated wins, and what waits for a rate is shown as waiting.
reportedInvoiceProfitability ==
    LET calculated == calculatedCompletedProfitability
    IN IF calculated = UNAVAILABLE("UNKNOWN_COST") /\ sale.manual # NotStored
       THEN [status |-> "MANUAL", dop |-> sale.manual.dop]
       ELSE calculated

\* recordManualGrossProfit: refused while a rate is awaited and where profit is calculated.
RecordManualGrossProfit(profit) ==
    /\ isRecognizedSaleStatus(sale.status)
    /\ calculatedCompletedProfitability = UNAVAILABLE("UNKNOWN_COST")
    /\ sale' = [sale EXCEPT !.manual = [stored |-> TRUE, dop |-> profit]]

FiguresNext ==
    \/ \E applyItbis \in BOOLEAN, percent \in Percents: UpdateMeta(applyItbis, percent)
    \/ \E entry \in Entries: AddFigureLine(entry)
    \/ \E i \in DOMAIN sale.lines:
         RemoveFigureLine(i) \/ \E entry \in Entries: SetLinePrice(i, entry.unit)
    \/ IssueQuoteFigures \/ DuplicateFigures
    \/ \E status \in {"CONDUCE", "COMPLETED"}: RecogniseFigures(status)
    \/ ConvertConduceFigures \/ CancelFigures
    \/ \E rate \in Rates: StoreRate(rate)
    \/ \E profit \in ManualProfits: RecordManualGrossProfit(profit)

FiguresSpec == FiguresInit /\ [][FiguresNext]_figureVars
---------------------------------------------------------------------------
(* Whatever is shown of a sale adds up to the cent: the subtotal of its    *)
(* bases, less the discount, plus the tax, is its total, on the screen     *)
(* (which sums the lines) and on the printed document (which adds the      *)
(* discount back to the header), before and after its money is frozen.     *)
DocumentAddsUp ==
    LET shown == invoiceTotals
    IN /\ Bases(LineMoneys) - shown.discount + shown.itbis = shown.gross
       /\ shown.base + shown.discount = Bases(LineMoneys)
       /\ shown.discount \in 0..Bases(LineMoneys) /\ shown.gross >= shown.itbis

(* Rounding line by line never drifts: the total differs from the exact    *)
(* one by at most half a cent for each rounded figure, and by at most 18%  *)
(* of half a cent more where a rounded base is taxed.                      *)
RoundingIsBounded ==
    LET n == Len(sale.lines)
        exact == Sum(LAMBDA line: line.unit * line.qty *
                       (IF sale.applyItbis /\ line.type \in TAXABLE_LINE_TYPES
                        THEN 11800 ELSE 10000), sale.lines)
                 - Sum(LAMBDA line: line.unit * line.qty * sale.percent, sale.lines)
        off == invoiceTotals.gross * 1000000 - exact
    IN 2 * off \in -(2180000 * n + 1000000)..(2180000 * n + 1000000)

(* A profit is reported only of the whole sale: with every cost and the    *)
(* rate known, and then it is the exact one but for half a cent per line.  *)
ProfitIsWhole ==
    isRecognizedSaleStatus(sale.status) =>
      LET reported == reportedInvoiceProfitability
          sold == {i \in DOMAIN sale.lines: sale.lines[i].type \notin NO_COGS_LINE_TYPES}
          rate == IF sale.currency = "USD" THEN sale.rate.dop ELSE 100
          exact == Sum(LAMBDA line: sellingPriceOf(line) * rate
                         - (IF line.type \in NO_COGS_LINE_TYPES THEN 0 ELSE line.cost.dop * 100),
                       sale.lines)
      IN /\ reported.status = "CALCULATED" <=>
              /\ \A i \in sold: sale.lines[i].cost # UNKNOWN
              /\ sale.currency = "USD" => sale.rate # NotStored
         /\ reported.status = "CALCULATED" =>
              2 * (reported.dop * 100 - exact) \in -(100 * Len(sale.lines))..(100 * Len(sale.lines))

(* A profit an administrator recorded is the one that is reported, for as  *)
(* long as the sale stands: nothing that happens later overrules it.       *)
ManualIsReported ==
    isRecognizedSaleStatus(sale.status) /\ sale.manual # NotStored =>
        reportedInvoiceProfitability = [status |-> "MANUAL", dop |-> sale.manual.dop]

(* A customer is charged what the quote said: once issued, a document's    *)
(* total and lines never change, through its conversions and its           *)
(* cancellation; only a copy, a new draft, has figures of its own.         *)
IssuedFiguresFinal ==
    [][sale.header # NotStored =>
         \/ sale'.header = sale.header /\ sale'.lines = sale.lines /\ sale'.percent = sale.percent
         \/ sale'.status = "QUOTE_DRAFT" /\ sale.status = "QUOTE_ISSUED"]_figureVars

(* The figures of a sale add up, in both directions: from the lines to the *)
(* total, and from the total to the profit that is reported of it, which   *)
(* stands once it was issued or recorded.                                  *)
FiguresAddUp ==
    /\ [](DocumentAddsUp /\ RoundingIsBounded /\ ProfitIsWhole /\ ManualIsReported)
    /\ IssuedFiguresFinal
=============================================================================
