----------------------------- MODULE SalesProofs -----------------------------
(***************************************************************************)
(* Theorems about Sales, for every set of documents, customers, keys,      *)
(* limits and terms, and every bound on amounts and days.                  *)
(*                                                                         *)
(* The actions of Sales that touch a document touch that one only, and the *)
(* editing handlers (drafts, lines, discard, duplicate) have one effect in *)
(* common: the document is a draft or absent before and after, and nothing *)
(* but its content changes.  The lemmas of the first part say so; each     *)
(* invariant then has one step for editing and one for each other handler. *)
(*                                                                         *)
(* The rules that tie a sale to what was granted when it was recognised    *)
(* need less: a handler changes one document, in one of seven ways.  The   *)
(* second part says which fields each way sets and which it leaves, and    *)
(* lemma StepEffect that every step of the service is one of them; each    *)
(* rule is then a matter of seven cases on fields.                         *)
(*                                                                         *)
(* The last part is about sums: what a customer owes over all documents,   *)
(* and the movements of a sale over all keys (module SumLemmas).           *)
(***************************************************************************)
EXTENDS Sales, SumLemmas

-----------------------------------------------------------------------------
(* What the steps of Sales write has the right type *)

\* A number and the sequence stay natural numbers (Allocate).
LEMMA AllocateType ==
    ASSUME TypeOK, NEW d \in Docs, NEW s \in Series, Allocate(d, s)
    PROVE  num' \in [Docs -> [Series -> Nat]] /\ seq' \in [Series -> Nat \ {0}]
<1>1. num \in [Docs -> [Series -> Nat]] /\ seq \in [Series -> Nat \ {0}]
  BY DEF TypeOK
<1>2. seq[s] \in Nat /\ seq[s] + 1 \in Nat \ {0}
  BY <1>1
<1>3. num' \in [Docs -> [Series -> Nat]]
  BY <1>1, <1>2 DEF Allocate
<1>4. seq' = [seq EXCEPT ![s] = seq[s] + 1]
  BY DEF Allocate
<1>5. seq' \in [Series -> Nat \ {0}]
  BY <1>1, <1>2, <1>4
<1> QED
  BY <1>3, <1>5

\* A movement is a row of the table (AddRow).
LEMMA AddRowType ==
    ASSUME TypeOK, NEW d \in Docs, NEW k \in Keys, NEW kind \in {"PAYMENT", "REFUND"},
           NEW amount \in Nat, NEW day \in Nat, AddRow(d, k, kind, amount, day)
    PROVE  rows' \in [Docs -> [Keys -> RowType]]
<1>1. [kind |-> kind, amount |-> amount, day |-> day] \in RowType
  BY DEF RowType
<1>2. rows \in [Docs -> [Keys -> RowType]]
  BY DEF TypeOK
<1> QED
  BY <1>1, <1>2 DEF AddRow

\* Money received and money given back stay natural numbers.
LEMMA MoneyType ==
    ASSUME TypeOK, NEW d \in Docs, NEW a \in Nat
    PROVE  /\ [money EXCEPT ![d].paid = @ + a] \in [Docs -> [paid: Nat, refunded: Nat]]
           /\ [money EXCEPT ![d].refunded = @ + a] \in [Docs -> [paid: Nat, refunded: Nat]]
<1>1. money \in [Docs -> [paid: Nat, refunded: Nat]]
  BY DEF TypeOK
<1>2. [money EXCEPT ![d].paid = @ + a] \in [Docs -> [paid: Nat, refunded: Nat]]
  BY <1>1
<1>3. [money EXCEPT ![d].refunded = @ + a] \in [Docs -> [paid: Nat, refunded: Nat]]
  BY <1>1
<1> QED
  BY <1>2, <1>3

\* The movement made on recognition, if any, keeps the tables of money typed.
LEMMA InitialPaymentType ==
    ASSUME TypeOK, NEW d \in Docs, NEW pay \in Nat, InitialPayment(d, pay)
    PROVE  /\ money' \in [Docs -> [paid: Nat, refunded: Nat]]
           /\ rows' \in [Docs -> [Keys -> RowType]]
<1>1. today \in Nat /\ ConfirmKey \in Keys
  BY SalesAssumptions DEF TypeOK
<1>2. CASE pay = 0
  BY <1>2 DEF InitialPayment, TypeOK
<1>3. CASE pay # 0
  <2>1. /\ money' = [money EXCEPT ![d].paid = @ + pay]
        /\ AddRow(d, ConfirmKey, "PAYMENT", pay, today)
    BY <1>3 DEF InitialPayment
  <2>2. rows' \in [Docs -> [Keys -> RowType]]
    BY <2>1, <1>1, AddRowType
  <2>3. money' \in [Docs -> [paid: Nat, refunded: Nat]]
    BY <2>1, MoneyType
  <2> QED
    BY <2>2, <2>3
<1> QED
  BY <1>2, <1>3

\* The fields of a customer's profile.
LEMMA ProfileType ==
    ASSUME TypeOK, NEW c \in Customers
    PROVE  /\ cust[c].rnc \in BOOLEAN
           /\ cust[c].type \in {"CASH", "CREDIT"}
           /\ cust[c].term \in Nat
           /\ cust[c].type = "CASH" => cust[c].term = 0
           /\ cust[c].type = "CREDIT" => cust[c].term \in Terms
<1> DEFINE p == cust[c]
<1>1. p \in Profiles
  BY DEF TypeOK
<1> HIDE DEF p
<1>2. p.rnc \in BOOLEAN /\ p.type \in {"CASH", "CREDIT"}
  BY <1>1 DEF Profiles, CashProfiles, CreditProfiles
<1>3. p.type = "CASH" => p.term = 0
  BY <1>1 DEF Profiles, CashProfiles, CreditProfiles
<1>4. p.type = "CREDIT" => p.term \in Terms
  BY <1>1 DEF Profiles, CashProfiles, CreditProfiles
<1>5. Terms \subseteq Nat
  BY SalesAssumptions
<1>6. p.term \in Nat
  <2>1. CASE p.type = "CASH"
    BY <2>1, <1>3
  <2>2. CASE p.type = "CREDIT"
    BY <2>2, <1>4, <1>5
  <2> QED
    BY <2>1, <2>2, <1>2
<1> QED
  BY <1>2, <1>3, <1>4, <1>6 DEF p

\* What recognition freezes of the customer is a snapshot (recognitionCustomerSnapshot).
LEMMA SnapshotType ==
    ASSUME TypeOK, NEW d \in Docs, NEW source \in {"DRAFT", "QUOTE_ISSUED"},
           NEW role \in Roles, NEW due \in Nat
    PROVE  RecognitionSnapshot(d, source, role, due) \in SnapType
<1> DEFINE c == doc[d].customer
<1>1. c \in Customers /\ snap[d] \in SnapType /\ today \in Nat
  BY DEF TypeOK, DocType
<1>2. cust[c].rnc \in BOOLEAN /\ cust[c].type \in {"CASH", "CREDIT"} /\ cust[c].term \in Nat
  BY <1>1, ProfileType
<1>3. (IF source = "QUOTE_ISSUED" THEN snap[d].rnc ELSE cust[c].rnc) \in BOOLEAN
  BY <1>1, <1>2 DEF SnapType
<1> QED
  BY <1>1, <1>2, <1>3 DEF RecognitionSnapshot, SnapType

\* What issuing a quote freezes is a snapshot (issueQuote).
LEMMA QuoteSnapshotType ==
    ASSUME NEW t \in SnapType, NEW rnc \in BOOLEAN, NEW expires \in Nat
    PROVE  [t EXCEPT !.rnc = rnc, !.expires = expires] \in SnapType
BY DEF SnapType

\* A document whose fields are overwritten with values of their types.
LEMMA DocUpdateType ==
    ASSUME NEW r \in DocType, NEW st \in Statuses, NEW c \in Customers,
           NEW currency \in Currencies \cup {"DOP"}, NEW fiscal \in BOOLEAN,
           NEW lines \in BOOLEAN, NEW gross \in Amounts
    PROVE  /\ [r EXCEPT !.status = st] \in DocType
           /\ [r EXCEPT !.status = st, !.fiscal = fiscal] \in DocType
           /\ [r EXCEPT !.gross = gross] \in DocType
           /\ [r EXCEPT !.lines = lines, !.gross = gross] \in DocType
           /\ [r EXCEPT !.customer = c, !.currency = currency, !.fiscal = fiscal,
                        !.gross = gross] \in DocType
<1> USE DEF DocType
<1>1. [r EXCEPT !.status = st] \in DocType
  OBVIOUS
<1>2. [r EXCEPT !.status = st, !.fiscal = fiscal] \in DocType
  OBVIOUS
<1>3. [r EXCEPT !.gross = gross] \in DocType
  OBVIOUS
<1>4. [r EXCEPT !.lines = lines, !.gross = gross] \in DocType
  OBVIOUS
<1>5. [r EXCEPT !.customer = c, !.currency = currency, !.fiscal = fiscal,
                !.gross = gross] \in DocType
  OBVIOUS
<1> QED
  BY <1>1, <1>2, <1>3, <1>4, <1>5

\* A document that is created.
LEMMA NewDocType ==
    ASSUME NEW r \in DocType, NEW st \in Statuses, NEW c \in Customers,
           NEW currency \in Currencies \cup {"DOP"}, NEW fiscal \in BOOLEAN
    PROVE  [r EXCEPT !.status = st, !.customer = c, !.currency = currency,
                     !.fiscal = fiscal] \in DocType
BY DEF DocType

\* The values the steps are taken with have the types the lemmas ask for.
LEMMA ConstantTypes ==
    /\ Amounts \subseteq Nat /\ 0 \in Amounts /\ Days \subseteq Nat
    /\ Currencies \subseteq {"DOP", "USD"} /\ FiscalChoices \subseteq BOOLEAN
    /\ ClientKeys \subseteq Keys /\ ConfirmKey \in Keys
    /\ DefaultCustomer \in Customers
    /\ {"NONE", "CANCELLED", "QUOTE_ISSUED", "DRAFT", "QUOTE_DRAFT", "CONDUCE", "COMPLETED"}
         = Statuses
    /\ QuoteValidity \in Nat
BY SalesAssumptions DEF Amounts, Days, Statuses, Editable, Recognised

\* The common effect of the editing handlers.
LEMMA Editing ==
    ASSUME TypeOK, NEW d \in Docs, EditDraft(d)
    PROVE  /\ doc[d].status \in Editable \cup {"NONE"}
           /\ \E r \in DocType : /\ r.status \in Editable \cup {"NONE"}
                                /\ doc' = [doc EXCEPT ![d] = r]
           /\ UNCHANGED <<num, seq, snap, money, rows, cust, today>>
<1> DEFINE Effect == /\ doc[d].status \in Editable \cup {"NONE"}
                     /\ \E r \in DocType : /\ r.status \in Editable \cup {"NONE"}
                                          /\ doc' = [doc EXCEPT ![d] = r]
                     /\ UNCHANGED <<num, seq, snap, money, rows, cust, today>>
<1>1. doc[d] \in DocType
  BY DEF TypeOK
<1>2. NoDoc \in DocType /\ NoDoc.status = "NONE"
  BY ConstantTypes DEF NoDoc, DocType
<1>3. ASSUME NEW status \in Editable, NEW c \in Customers, NEW currency \in Currencies,
             NEW fiscal \in FiscalChoices, NewDocument(d, status, c, currency, fiscal)
      PROVE  Effect
  <2> DEFINE r == [NoDoc EXCEPT !.status = status, !.customer = c, !.currency = currency,
                                !.fiscal = fiscal]
  <2>1. /\ status \in Statuses /\ currency \in Currencies \cup {"DOP"}
        /\ fiscal \in BOOLEAN
    BY ConstantTypes DEF Statuses
  <2>2. r \in DocType
    BY <1>2, <2>1, NewDocType
  <2>3. r.status = status
    BY DEF NoDoc
  <2> QED
    BY <1>3, <2>2, <2>3 DEF NewDocument
<1>4. ASSUME NEW c \in Customers, NEW currency \in Currencies, NEW fiscal \in FiscalChoices,
             NEW gross \in Amounts, UpdateMeta(d, c, currency, fiscal, gross)
      PROVE  Effect
  <2> DEFINE r == [doc[d] EXCEPT !.customer = c, !.currency = currency, !.fiscal = fiscal,
                                 !.gross = gross]
  <2>1. r \in DocType
    BY <1>1, ConstantTypes, DocUpdateType
  <2>2. r.status = doc[d].status
    BY <1>1 DEF DocType
  <2> QED
    BY <1>4, <2>1, <2>2 DEF UpdateMeta
<1>5. ASSUME NEW gross \in Amounts, AddLine(d, gross)
      PROVE  Effect
  <2> DEFINE r == [doc[d] EXCEPT !.lines = TRUE, !.gross = gross]
  <2>1. r \in DocType
    BY <1>1, ConstantTypes, DocUpdateType
  <2>2. r.status = doc[d].status
    BY <1>1 DEF DocType
  <2> QED
    BY <1>5, <2>1, <2>2 DEF AddLine
<1>6. ASSUME NEW gross \in Amounts, SetLinePrice(d, gross)
      PROVE  Effect
  <2> DEFINE r == [doc[d] EXCEPT !.gross = gross]
  <2>1. r \in DocType
    BY <1>1, ConstantTypes, DocUpdateType
  <2>2. r.status = doc[d].status
    BY <1>1 DEF DocType
  <2> QED
    BY <1>6, <2>1, <2>2 DEF SetLinePrice
<1>7. ASSUME NEW gross \in Amounts, NEW remain \in BOOLEAN, RemoveLine(d, gross, remain)
      PROVE  Effect
  <2> DEFINE r == [doc[d] EXCEPT !.lines = remain, !.gross = gross]
  <2>1. r \in DocType
    BY <1>1, ConstantTypes, DocUpdateType
  <2>2. r.status = doc[d].status
    BY <1>1 DEF DocType
  <2> QED
    BY <1>7, <2>1, <2>2 DEF RemoveLine
<1>8. CASE Discard(d)
  BY <1>2, <1>8 DEF Discard
<1>9. ASSUME NEW source \in Docs, DuplicateQuote(source, d)
      PROVE  Effect
  <2> DEFINE r == [doc[source] EXCEPT !.status = "QUOTE_DRAFT"]
  <2>1. doc[source] \in DocType
    BY DEF TypeOK
  <2>2. r \in DocType
    BY <2>1, ConstantTypes, DocUpdateType
  <2>3. r.status = "QUOTE_DRAFT"
    BY <2>1 DEF DocType
  <2> QED
    BY <1>9, <2>2, <2>3 DEF DuplicateQuote, Editable
<1> QED
  BY <1>3, <1>4, <1>5, <1>6, <1>7, <1>8, <1>9
     DEF EditDraft, CreateDraft, CreateQuote, Editable

\* Type correctness: every variable keeps the shape of its table.
THEOREM TypeCorrect == Spec => []TypeOK
<1>1. Init => TypeOK
  <2> SUFFICES ASSUME Init PROVE TypeOK
    OBVIOUS
  <2>1. doc \in [Docs -> DocType]
    BY ConstantTypes DEF Init, NoDoc, DocType
  <2>2. snap \in [Docs -> SnapType] /\ rows \in [Docs -> [Keys -> RowType]]
    BY DEF Init, NoSnap, NoRow, SnapType, RowType
  <2>3. cust \in [Customers -> Profiles]
    BY DEF Init, Profiles, CashProfiles
  <2> QED
    BY <2>1, <2>2, <2>3 DEF Init, TypeOK
<1>2. TypeOK /\ [Next]_vars => TypeOK'
  <2> SUFFICES ASSUME TypeOK, [Next]_vars PROVE TypeOK'
    OBVIOUS
  <2> USE ConstantTypes
  <2>0. /\ doc \in [Docs -> DocType] /\ snap \in [Docs -> SnapType]
        /\ cust \in [Customers -> Profiles] /\ today \in Nat \ {0}
    BY DEF TypeOK
  <2>1. ASSUME NEW d \in Docs, EditDraft(d)
        PROVE  TypeOK'
    <3>1. /\ \E r \in DocType : doc' = [doc EXCEPT ![d] = r]
          /\ UNCHANGED <<num, seq, snap, money, rows, cust, today>>
      BY <2>1, Editing
    <3>2. doc' \in [Docs -> DocType]
      BY <2>0, <3>1
    <3> QED
      BY <3>1, <3>2 DEF TypeOK
  <2>2. ASSUME NEW d \in Docs, IssueQuote(d)
        PROVE  TypeOK'
    <3>1. doc' \in [Docs -> DocType]
      BY <2>0, <2>2, DocUpdateType DEF IssueQuote
    <3>2. snap' \in [Docs -> SnapType]
      <4>1. doc[d].customer \in Customers
        BY <2>0 DEF DocType
      <4>2. cust[doc[d].customer].rnc \in BOOLEAN /\ today + QuoteValidity \in Nat
        BY <2>0, <4>1, ProfileType
      <4>3. snap' = [snap EXCEPT ![d].rnc = cust[doc[d].customer].rnc,
                                 ![d].expires = today + QuoteValidity]
        BY <2>2 DEF IssueQuote
      <4>4. [snap[d] EXCEPT !.rnc = cust[doc[d].customer].rnc,
                            !.expires = today + QuoteValidity] \in SnapType
        BY <2>0, <4>2, QuoteSnapshotType
      <4> QED
        BY <2>0, <4>3, <4>4
    <3>3. num' \in [Docs -> [Series -> Nat]] /\ seq' \in [Series -> Nat \ {0}]
      BY <2>2, AllocateType DEF IssueQuote, Series
    <3> QED
      BY <2>2, <3>1, <3>2, <3>3 DEF TypeOK, IssueQuote
  <2>3. ASSUME NEW d \in Docs, NEW source \in {"DRAFT", "QUOTE_ISSUED"}, NEW role \in Roles,
               NEW pay \in Amounts, CompleteSale(d, source, role, pay)
        PROVE  TypeOK'
    <3> DEFINE due == today + TermDays(doc[d].customer, doc[d].currency)
    <3>1. doc' \in [Docs -> DocType]
      BY <2>0, <2>3, DocUpdateType DEF CompleteSale
    <3>2. snap' \in [Docs -> SnapType]
      <4>1. doc[d].customer \in Customers
        BY <2>0 DEF DocType
      <4>2. due \in Nat
        BY <2>0, <4>1, ProfileType DEF TermDays
      <4>3. RecognitionSnapshot(d, source, role, due) \in SnapType
        BY <4>2, SnapshotType
      <4>4. [RecognitionSnapshot(d, source, role, due) EXCEPT !.issuedAt = today] \in SnapType
        BY <2>0, <4>3 DEF SnapType
      <4> QED
        BY <2>0, <2>3, <4>4 DEF CompleteSale
    <3>3. num' \in [Docs -> [Series -> Nat]] /\ seq' \in [Series -> Nat \ {0}]
      BY <2>3, AllocateType DEF CompleteSale, Series
    <3>4. money' \in [Docs -> [paid: Nat, refunded: Nat]] /\ rows' \in [Docs -> [Keys -> RowType]]
      BY <2>3, InitialPaymentType DEF CompleteSale
    <3> QED
      BY <2>3, <3>1, <3>2, <3>3, <3>4 DEF TypeOK, CompleteSale
  <2>4. ASSUME NEW d \in Docs, NEW source \in {"DRAFT", "QUOTE_ISSUED"}, NEW role \in Roles,
               NEW pay \in Amounts, NEW asked \in Days \cup {0},
               IssueConduceSale(d, source, role, pay, asked)
        PROVE  TypeOK'
    <3> DEFINE due == ConduceDueDate(doc[d].customer, doc[d].currency, asked)
    <3>1. doc' \in [Docs -> DocType]
      BY <2>0, <2>4, DocUpdateType DEF IssueConduceSale
    <3>2. snap' \in [Docs -> SnapType]
      <4>1. doc[d].customer \in Customers
        BY <2>0 DEF DocType
      <4>2. due \in Nat
        BY <2>0, <4>1, ProfileType DEF TermDays, ConduceDueDate
      <4>3. RecognitionSnapshot(d, source, role, due) \in SnapType
        BY <4>2, SnapshotType
      <4> QED
        BY <2>0, <2>4, <4>3 DEF IssueConduceSale
    <3>3. num' \in [Docs -> [Series -> Nat]] /\ seq' \in [Series -> Nat \ {0}]
      BY <2>4, AllocateType DEF IssueConduceSale, Series
    <3>4. money' \in [Docs -> [paid: Nat, refunded: Nat]] /\ rows' \in [Docs -> [Keys -> RowType]]
      BY <2>4, InitialPaymentType DEF IssueConduceSale
    <3> QED
      BY <2>4, <3>1, <3>2, <3>3, <3>4 DEF TypeOK, IssueConduceSale
  <2>5. ASSUME NEW d \in Docs, NEW fiscal \in FiscalChoices, ConvertConduceToInvoice(d, fiscal)
        PROVE  TypeOK'
    <3>1. doc' \in [Docs -> DocType]
      BY <2>0, <2>5, DocUpdateType DEF ConvertConduceToInvoice
    <3>2. snap' \in [Docs -> SnapType]
      BY <2>0, <2>5 DEF ConvertConduceToInvoice, SnapType
    <3>3. num' \in [Docs -> [Series -> Nat]] /\ seq' \in [Series -> Nat \ {0}]
      BY <2>5, AllocateType DEF ConvertConduceToInvoice, Series
    <3> QED
      BY <2>5, <3>1, <3>2, <3>3 DEF TypeOK, ConvertConduceToInvoice
  <2>6. ASSUME NEW d \in Docs, NEW k \in ClientKeys, NEW amount \in Amounts, NEW day \in Days,
               AddPayment(d, k, amount, day)
        PROVE  TypeOK'
    <3>1. rows' \in [Docs -> [Keys -> RowType]]
      BY <2>6, AddRowType DEF AddPayment
    <3>2. money' \in [Docs -> [paid: Nat, refunded: Nat]]
      BY <2>6, MoneyType DEF AddPayment
    <3> QED
      BY <2>6, <3>1, <3>2 DEF TypeOK, AddPayment
  <2>7. ASSUME NEW d \in Docs, NEW k \in ClientKeys, NEW refund \in Amounts, Cancel(d, k, refund)
        PROVE  TypeOK'
    <3>1. doc' \in [Docs -> DocType]
      BY <2>0, <2>7, DocUpdateType DEF Cancel
    <3>2. CASE refund = 0
      BY <2>7, <3>1, <3>2 DEF TypeOK, Cancel
    <3>3. CASE refund # 0
      <4>1. rows' \in [Docs -> [Keys -> RowType]]
        BY <2>0, <2>7, <3>3, AddRowType DEF Cancel
      <4>2. money' = [money EXCEPT ![d].refunded = @ + refund]
        BY <2>7, <3>3 DEF Cancel
      <4>3. money' \in [Docs -> [paid: Nat, refunded: Nat]]
        BY <4>2, MoneyType
      <4> QED
        BY <2>7, <3>1, <4>1, <4>3 DEF TypeOK, Cancel
    <3> QED
      BY <3>2, <3>3
  <2>8. ASSUME NEW c \in Customers, NEW role \in Roles, NEW profile \in Profiles,
               UpdateCustomer(c, role, profile)
        PROVE  TypeOK'
    BY <2>0, <2>8 DEF TypeOK, UpdateCustomer
  <2>9. CASE NextDay
    BY <2>0, <2>9 DEF TypeOK, NextDay
  <2>10. CASE UNCHANGED vars
    BY <2>10 DEF TypeOK, vars
  <2> QED
    BY <2>1, <2>2, <2>3, <2>4, <2>5, <2>6, <2>7, <2>8, <2>9, <2>10
       DEF Next, Recognise, Settle
<1> QED
  BY <1>1, <1>2, PTL DEF Spec

-----------------------------------------------------------------------------
(* Money *)

\* Balance is what is still owed, and a payment within it does not over-collect.
LEMMA BalanceBound ==
    ASSUME TypeOK, NEW d \in Docs, money[d].paid <= doc[d].gross
    PROVE  Balance(d) \in Nat /\ money[d].paid + Balance(d) <= doc[d].gross
<1>1. doc[d].gross \in Nat /\ money[d].paid \in Nat
  BY ConstantTypes DEF TypeOK, DocType
<1>2. Balance(d) \in Nat
  BY <1>1 DEF Balance
<1>3. money[d].paid + Balance(d) <= doc[d].gross
  BY <1>1 DEF Balance
<1> QED
  BY <1>2, <1>3

\* Never more is collected than a document is worth nor given back than was
\* collected, and no money moves on a draft or a quote (addPayment, cancel,
\* recordInitialRecognitionPayment).  MoneyBounded is inductive with TypeOK:
\* its last two conjuncts say that a document being edited has no money.
THEOREM MoneyIsBounded == Spec => []MoneyBounded
<1>1. Init => MoneyBounded
  BY DEF Init, MoneyBounded, NoDoc
<1>2. TypeOK /\ MoneyBounded /\ [Next]_vars => MoneyBounded'
  <2> SUFFICES ASSUME TypeOK, MoneyBounded, [Next]_vars, NEW e \in Docs
               PROVE  /\ money'[e].refunded <= money'[e].paid
                      /\ money'[e].paid <= doc'[e].gross
                      /\ money'[e].refunded > 0 => doc'[e].status = "CANCELLED"
                      /\ money'[e].paid > 0 => doc'[e].status \in Recognised \cup {"CANCELLED"}
    BY DEF MoneyBounded
  <2> DEFINE Goal == /\ money'[e].refunded <= money'[e].paid
                     /\ money'[e].paid <= doc'[e].gross
                     /\ money'[e].refunded > 0 => doc'[e].status = "CANCELLED"
                     /\ money'[e].paid > 0 => doc'[e].status \in Recognised \cup {"CANCELLED"}
  <2>a. /\ doc \in [Docs -> DocType] /\ money \in [Docs -> [paid: Nat, refunded: Nat]]
        /\ doc[e].gross \in Nat /\ Amounts \subseteq Nat
    BY ConstantTypes DEF TypeOK, DocType
  <2>b. /\ money[e].refunded <= money[e].paid
        /\ money[e].paid <= doc[e].gross
        /\ money[e].refunded > 0 => doc[e].status = "CANCELLED"
        /\ money[e].paid > 0 => doc[e].status \in Recognised \cup {"CANCELLED"}
    BY DEF MoneyBounded
  <2>c. ASSUME doc'[e] = doc[e], money'[e] = money[e]
        PROVE  Goal
    BY <2>b, <2>c
  <2>1. ASSUME NEW d \in Docs, EditDraft(d)
        PROVE  Goal
    <3>1. PICK r \in DocType : /\ r.status \in Editable \cup {"NONE"}
                              /\ doc' = [doc EXCEPT ![d] = r]
      BY <2>1, Editing
    <3>2. doc[d].status \in Editable \cup {"NONE"} /\ money' = money
      BY <2>1, Editing
    <3>3. CASE d # e
      BY <2>a, <2>c, <3>1, <3>2, <3>3
    <3>4. CASE d = e
      <4>1. money[e].paid = 0 /\ money[e].refunded = 0
        BY <2>a, <2>b, <3>2, <3>4 DEF Editable, Recognised
      <4>2. doc'[e].gross \in Nat
        BY <2>a, <3>1, <3>4 DEF DocType
      <4> QED
        BY <3>2, <4>1, <4>2
    <3> QED
      BY <3>3, <3>4
  <2>2. ASSUME NEW d \in Docs, IssueQuote(d)
        PROVE  Goal
    <3>1. /\ doc[d].status = "QUOTE_DRAFT" /\ money' = money
          /\ doc' = [doc EXCEPT ![d].status = "QUOTE_ISSUED"]
      BY <2>2 DEF IssueQuote
    <3>2. doc'[e].gross = doc[e].gross /\ (d # e => doc'[e] = doc[e])
      BY <2>a, <3>1 DEF DocType
    <3>3. d = e => money[e].paid = 0 /\ money[e].refunded = 0
      BY <2>a, <2>b, <3>1 DEF Recognised
    <3> QED
      BY <2>a, <2>b, <3>1, <3>2, <3>3
  <2>3. ASSUME NEW d \in Docs, NEW pay \in Amounts, pay <= doc[d].gross,
               doc[d].status \in {"DRAFT", "QUOTE_ISSUED"}, InitialPayment(d, pay),
               doc'[d].status \in Recognised, doc'[d].gross = doc[d].gross,
               d # e => doc'[e] = doc[e]
        PROVE  Goal
    <3>1. CASE d # e
      <4>1. money'[e] = money[e]
        BY <2>a, <2>3, <3>1 DEF InitialPayment
      <4> QED
        BY <2>3, <2>c, <3>1, <4>1
    <3>2. CASE d = e
      <4>1. money[e].paid = 0 /\ money[e].refunded = 0
        BY <2>a, <2>b, <2>3, <3>2 DEF Recognised
      <4>2. money'[e].paid = pay /\ money'[e].refunded = 0
        BY <2>a, <2>3, <3>2, <4>1 DEF InitialPayment
      <4> QED
        BY <2>a, <2>3, <3>2, <4>2
    <3> QED
      BY <3>1, <3>2
  <2>4. ASSUME NEW d \in Docs, NEW source \in {"DRAFT", "QUOTE_ISSUED"}, NEW role \in Roles,
               NEW pay \in Amounts, CompleteSale(d, source, role, pay)
        PROVE  Goal
    <3>1. /\ pay <= doc[d].gross /\ doc[d].status = source /\ InitialPayment(d, pay)
          /\ doc' = [doc EXCEPT ![d].status = "COMPLETED"]
      BY <2>4 DEF CompleteSale
    <3>2. /\ doc'[d].status = "COMPLETED" /\ doc'[d].gross = doc[d].gross
          /\ d # e => doc'[e] = doc[e]
      BY <2>a, <3>1 DEF DocType
    <3> QED
      BY <2>3, <3>1, <3>2 DEF Recognised
  <2>5. ASSUME NEW d \in Docs, NEW source \in {"DRAFT", "QUOTE_ISSUED"}, NEW role \in Roles,
               NEW pay \in Amounts, NEW asked \in Days \cup {0},
               IssueConduceSale(d, source, role, pay, asked)
        PROVE  Goal
    <3>1. /\ pay <= doc[d].gross /\ doc[d].status = source /\ InitialPayment(d, pay)
          /\ doc' = [doc EXCEPT ![d].status = "CONDUCE", ![d].fiscal = FALSE]
      BY <2>5 DEF IssueConduceSale
    <3>2. /\ doc'[d].status = "CONDUCE" /\ doc'[d].gross = doc[d].gross
          /\ d # e => doc'[e] = doc[e]
      BY <2>a, <3>1 DEF DocType
    <3> QED
      BY <2>3, <3>1, <3>2 DEF Recognised
  <2>6. ASSUME NEW d \in Docs, NEW fiscal \in FiscalChoices, ConvertConduceToInvoice(d, fiscal)
        PROVE  Goal
    <3>1. /\ doc[d].status = "CONDUCE" /\ money' = money
          /\ doc' = [doc EXCEPT ![d].status = "COMPLETED", ![d].fiscal = fiscal]
      BY <2>6 DEF ConvertConduceToInvoice
    <3>2. /\ doc'[e].gross = doc[e].gross
          /\ IF d = e THEN doc'[e].status = "COMPLETED" ELSE doc'[e].status = doc[e].status
      BY <2>a, <3>1 DEF DocType
    <3> QED
      BY <2>a, <2>b, <3>1, <3>2 DEF Recognised
  <2>7. ASSUME NEW d \in Docs, NEW k \in ClientKeys, NEW amount \in Amounts, NEW day \in Days,
               AddPayment(d, k, amount, day)
        PROVE  Goal
    <3>1. /\ doc[d].status \in Recognised /\ amount <= Balance(d) /\ doc' = doc
          /\ money' = [money EXCEPT ![d].paid = @ + amount]
      BY <2>7 DEF AddPayment
    <3>2. CASE d # e
      BY <2>a, <2>c, <3>1, <3>2
    <3>3. CASE d = e
      <4>1. money'[e].paid = money[e].paid + amount /\ money'[e].refunded = money[e].refunded
        BY <2>a, <3>1, <3>3
      <4>2. money[e].paid + Balance(e) <= doc[e].gross
        BY <2>b, BalanceBound
      <4>3. Balance(e) \in Nat
        BY <2>a DEF Balance
      <4> QED
        BY <2>a, <2>b, <3>1, <3>3, <4>1, <4>2, <4>3
    <3> QED
      BY <3>2, <3>3
  <2>8. ASSUME NEW d \in Docs, NEW k \in ClientKeys, NEW refund \in Amounts, Cancel(d, k, refund)
        PROVE  Goal
    <3>1. /\ doc[d].status \in Recognised
          /\ refund <= money[d].paid - money[d].refunded
          /\ doc' = [doc EXCEPT ![d].status = "CANCELLED"]
          /\ IF refund = 0 THEN money' = money
                           ELSE money' = [money EXCEPT ![d].refunded = @ + refund]
      BY <2>8 DEF Cancel
    <3>2. CASE d # e
      BY <2>a, <2>c, <3>1, <3>2
    <3>3. CASE d = e
      <4>1. doc'[e].status = "CANCELLED" /\ doc'[e].gross = doc[e].gross
        BY <2>a, <3>1, <3>3 DEF DocType
      <4>2. money'[e].paid = money[e].paid /\ money'[e].refunded = money[e].refunded + refund
        BY <2>a, <3>1, <3>3
      <4> QED
        BY <2>a, <2>b, <3>1, <3>3, <4>1, <4>2
    <3> QED
      BY <3>2, <3>3
  <2>9. ASSUME NEW c \in Customers, NEW role \in Roles, NEW profile \in Profiles,
               UpdateCustomer(c, role, profile)
        PROVE  Goal
    BY <2>9, <2>c DEF UpdateCustomer
  <2>10. CASE NextDay \/ UNCHANGED vars
    BY <2>10, <2>c DEF NextDay, vars
  <2> QED
    BY <2>1, <2>2, <2>4, <2>5, <2>6, <2>7, <2>8, <2>9, <2>10 DEF Next, Recognise, Settle
<1> QED
  BY <1>1, <1>2, TypeCorrect, PTL DEF Spec

-----------------------------------------------------------------------------
(* Fiscal identity *)

\* A fiscal document always names a taxpayer, by the RNC frozen with it: updating
\* or reclassifying the customer later cannot take it away (assertFiscalCustomer,
\* recognitionCustomerSnapshot, convertConduceToInvoice).  The invariant is
\* inductive as it stands because a conduce is never fiscal and a conversion
\* looks at the frozen RNC.
THEOREM FiscalIdentityIsFrozen == Spec => []FiscalIdentityFrozen
<1> DEFINE Issued == Recognised \cup {"QUOTE_ISSUED", "CANCELLED"}
           Fiscal(e) == (doc[e].fiscal /\ doc[e].status \in Issued)
                           => doc[e].customer # DefaultCustomer /\ snap[e].rnc
<1>1. Init => FiscalIdentityFrozen
  BY DEF Init, FiscalIdentityFrozen, NoDoc
<1>2. TypeOK /\ FiscalIdentityFrozen /\ [Next]_vars => FiscalIdentityFrozen'
  <2> SUFFICES ASSUME TypeOK, FiscalIdentityFrozen, [Next]_vars, NEW e \in Docs
               PROVE  Fiscal(e)'
    BY DEF FiscalIdentityFrozen
  <2>a. /\ doc \in [Docs -> DocType] /\ snap \in [Docs -> SnapType]
        /\ FiscalChoices \subseteq BOOLEAN
    BY ConstantTypes DEF TypeOK
  <2>b. Fiscal(e)
    BY DEF FiscalIdentityFrozen
  <2>c. ASSUME doc'[e] = doc[e], snap'[e] = snap[e]
        PROVE  Fiscal(e)'
    BY <2>b, <2>c
  <2>1. ASSUME NEW d \in Docs, EditDraft(d)
        PROVE  Fiscal(e)'
    <3>1. PICK r \in DocType : /\ r.status \in Editable \cup {"NONE"}
                              /\ doc' = [doc EXCEPT ![d] = r]
      BY <2>1, Editing
    <3>2. snap' = snap
      BY <2>1, Editing
    <3>3. CASE d # e
      BY <2>a, <2>c, <3>1, <3>2, <3>3
    <3>4. CASE d = e
      BY <2>a, <3>1, <3>4 DEF Editable, Recognised
    <3> QED
      BY <3>3, <3>4
  <2>2. ASSUME NEW d \in Docs, IssueQuote(d)
        PROVE  Fiscal(e)'
    <3>1. /\ doc[d].fiscal => FiscalIdentity(doc[d].customer, cust[doc[d].customer].rnc)
          /\ doc' = [doc EXCEPT ![d].status = "QUOTE_ISSUED"]
          /\ snap' = [snap EXCEPT ![d].rnc = cust[doc[d].customer].rnc,
                                  ![d].expires = today + QuoteValidity]
      BY <2>2 DEF IssueQuote
    <3>2. CASE d # e
      BY <2>a, <2>c, <3>1, <3>2
    <3>3. CASE d = e
      <4>1. doc'[e].fiscal = doc[e].fiscal /\ doc'[e].customer = doc[e].customer
        BY <2>a, <3>1, <3>3 DEF DocType
      <4>2. snap'[e].rnc = cust[doc[e].customer].rnc
        BY <2>a, <3>1, <3>3 DEF SnapType
      <4> QED
        BY <3>1, <3>3, <4>1, <4>2 DEF FiscalIdentity
    <3> QED
      BY <3>2, <3>3
  <2>3. ASSUME NEW d \in Docs, NEW source \in {"DRAFT", "QUOTE_ISSUED"}, NEW role \in Roles,
               NEW pay \in Amounts, CompleteSale(d, source, role, pay)
        PROVE  Fiscal(e)'
    <3> DEFINE t == RecognitionSnapshot(d, source, role,
                                        today + TermDays(doc[d].customer, doc[d].currency))
    <3>1. /\ doc[d].status = source
          /\ (source = "DRAFT" /\ doc[d].fiscal)
               => FiscalIdentity(doc[d].customer, cust[doc[d].customer].rnc)
          /\ doc' = [doc EXCEPT ![d].status = "COMPLETED"]
          /\ snap' = [snap EXCEPT ![d] = [t EXCEPT !.issuedAt = today]]
      BY <2>3 DEF CompleteSale
    <3>2. CASE d # e
      BY <2>a, <2>c, <3>1, <3>2
    <3>3. CASE d = e
      <4>1. doc'[e].fiscal = doc[e].fiscal /\ doc'[e].customer = doc[e].customer
        BY <2>a, <3>1, <3>3 DEF DocType
      <4>2. snap'[e].rnc = IF source = "QUOTE_ISSUED" THEN snap[e].rnc
                           ELSE cust[doc[e].customer].rnc
        <5>1. snap'[e] = [t EXCEPT !.issuedAt = today]
          BY <2>a, <3>1, <3>3
        <5>2. [t EXCEPT !.issuedAt = today].rnc = t.rnc
          BY <2>a DEF RecognitionSnapshot, SnapType
        <5>3. t.rnc = IF source = "QUOTE_ISSUED" THEN snap[d].rnc
                      ELSE cust[doc[d].customer].rnc
          BY <2>a DEF RecognitionSnapshot, SnapType
        <5> QED
          BY <5>1, <5>2, <5>3, <3>3
      <4>3. CASE source = "DRAFT"
        BY <3>1, <3>3, <4>1, <4>2, <4>3 DEF FiscalIdentity
      <4>4. CASE source = "QUOTE_ISSUED"
        BY <2>b, <3>1, <3>3, <4>1, <4>2, <4>4
      <4> QED
        BY <4>3, <4>4
    <3> QED
      BY <3>2, <3>3
  <2>4. ASSUME NEW d \in Docs, NEW source \in {"DRAFT", "QUOTE_ISSUED"}, NEW role \in Roles,
               NEW pay \in Amounts, NEW asked \in Days \cup {0},
               IssueConduceSale(d, source, role, pay, asked)
        PROVE  Fiscal(e)'
    <3>1. doc' = [doc EXCEPT ![d].status = "CONDUCE", ![d].fiscal = FALSE]
      BY <2>4 DEF IssueConduceSale
    <3>2. CASE d # e
      <4>1. snap'[e] = snap[e]
        BY <2>a, <2>4, <3>2 DEF IssueConduceSale
      <4> QED
        BY <2>a, <2>c, <3>1, <3>2, <4>1
    <3>3. CASE d = e
      BY <2>a, <3>1, <3>3 DEF DocType
    <3> QED
      BY <3>2, <3>3
  <2>5. ASSUME NEW d \in Docs, NEW fiscal \in FiscalChoices, ConvertConduceToInvoice(d, fiscal)
        PROVE  Fiscal(e)'
    <3>1. /\ fiscal => FiscalIdentity(doc[d].customer, snap[d].rnc)
          /\ doc' = [doc EXCEPT ![d].status = "COMPLETED", ![d].fiscal = fiscal]
          /\ snap' = [snap EXCEPT ![d].issuedAt = today]
      BY <2>5 DEF ConvertConduceToInvoice
    <3>2. CASE d # e
      BY <2>a, <2>c, <3>1, <3>2
    <3>3. CASE d = e
      <4>1. doc'[e].fiscal = fiscal /\ doc'[e].customer = doc[e].customer
        BY <2>a, <3>1, <3>3 DEF DocType
      <4>2. snap'[e].rnc = snap[e].rnc
        BY <2>a, <3>1, <3>3 DEF SnapType
      <4> QED
        BY <3>1, <3>3, <4>1, <4>2 DEF FiscalIdentity
    <3> QED
      BY <3>2, <3>3
  <2>6. ASSUME NEW d \in Docs, NEW k \in ClientKeys, NEW amount \in Amounts, NEW day \in Days,
               AddPayment(d, k, amount, day)
        PROVE  Fiscal(e)'
    BY <2>6, <2>c DEF AddPayment
  <2>7. ASSUME NEW d \in Docs, NEW k \in ClientKeys, NEW refund \in Amounts, Cancel(d, k, refund)
        PROVE  Fiscal(e)'
    <3>1. /\ doc[d].status \in Recognised /\ snap' = snap
          /\ doc' = [doc EXCEPT ![d].status = "CANCELLED"]
      BY <2>7 DEF Cancel
    <3>2. CASE d # e
      BY <2>a, <2>c, <3>1, <3>2
    <3>3. CASE d = e
      <4>1. doc'[e].fiscal = doc[e].fiscal /\ doc'[e].customer = doc[e].customer
        BY <2>a, <3>1, <3>3 DEF DocType
      <4> QED
        BY <2>b, <3>1, <3>3, <4>1
    <3> QED
      BY <3>2, <3>3
  <2>8. ASSUME NEW c \in Customers, NEW role \in Roles, NEW profile \in Profiles,
               UpdateCustomer(c, role, profile)
        PROVE  Fiscal(e)'
    BY <2>8, <2>c DEF UpdateCustomer
  <2>9. CASE NextDay \/ UNCHANGED vars
    BY <2>9, <2>c DEF NextDay, vars
  <2> QED
    BY <2>1, <2>2, <2>3, <2>4, <2>5, <2>6, <2>7, <2>8, <2>9 DEF Next, Recognise, Settle
<1> QED
  BY <1>1, <1>2, TypeCorrect, PTL DEF Spec

-----------------------------------------------------------------------------
(* Numbering *)

\* A document that has not been issued in a series has no number in it: what makes
\* it safe to write the next number into the column (IInv of NumbersAreSound).
SlotsFree ==
    \A d \in Docs :
        /\ doc[d].status \in Editable \cup {"NONE"}
             => num[d]["COT"] = 0 /\ num[d]["CON"] = 0 /\ num[d]["FAC"] = 0
        /\ doc[d].status = "QUOTE_ISSUED" => num[d]["CON"] = 0 /\ num[d]["FAC"] = 0
        /\ doc[d].status = "CONDUCE" => num[d]["FAC"] = 0

\* Writing the next number into an empty column and advancing the sequence keeps
\* the series without gap and without repetition.
LEMMA AllocateSound ==
    ASSUME TypeOK, NumbersSound, NEW d \in Docs, NEW s \in Series, num[d][s] = 0,
           Allocate(d, s)
    PROVE  NumbersSound'
<1>0. /\ num \in [Docs -> [Series -> Nat]] /\ seq \in [Series -> Nat \ {0}]
      /\ num' = [num EXCEPT ![d][s] = seq[s]]
      /\ seq' = [seq EXCEPT ![s] = seq[s] + 1]
  BY DEF TypeOK, Allocate
<1> SUFFICES ASSUME NEW u \in Series
             PROVE  /\ \A e \in Docs : num'[e][u] < seq'[u]
                    /\ \A e, g \in Docs : (num'[e][u] = num'[g][u] /\ num'[e][u] # 0) => e = g
                    /\ \A n \in 1..(seq'[u] - 1) : \E e \in Docs : num'[e][u] = n
  BY DEF NumbersSound
<1>1. /\ \A e \in Docs : num[e][u] < seq[u]
      /\ \A e, g \in Docs : (num[e][u] = num[g][u] /\ num[e][u] # 0) => e = g
      /\ \A n \in 1..(seq[u] - 1) : \E e \in Docs : num[e][u] = n
  BY DEF NumbersSound
<1>2. CASE u # s
  <2>1. seq'[u] = seq[u] /\ \A e \in Docs : num'[e][u] = num[e][u]
    BY <1>0, <1>2
  <2> QED
    BY <1>1, <2>1
<1>3. CASE u = s
  <2>1. /\ seq'[s] = seq[s] + 1 /\ num'[d][s] = seq[s]
        /\ \A e \in Docs : e # d => num'[e][s] = num[e][s]
        /\ seq[s] \in Nat \ {0} /\ \A e \in Docs : num[e][s] \in Nat
    BY <1>0
  <2>2. \A e \in Docs : num'[e][s] < seq'[s]
    BY <1>1, <1>3, <2>1
  <2>3. \A e, g \in Docs : (num'[e][s] = num'[g][s] /\ num'[e][s] # 0) => e = g
    BY <1>1, <1>3, <2>1
  <2>4. ASSUME NEW n \in 1..(seq'[s] - 1)
        PROVE  \E e \in Docs : num'[e][s] = n
    <3>1. CASE n = seq[s]
      BY <2>1, <3>1
    <3>2. CASE n # seq[s]
      <4>1. n \in 1..(seq[s] - 1)
        BY <2>1, <3>2
      <4>2. PICK e \in Docs : num[e][s] = n
        BY <1>1, <1>3, <4>1
      <4>3. e # d
        BY <4>1, <4>2
      <4> QED
        BY <2>1, <4>2, <4>3
    <3> QED
      BY <3>1, <3>2
  <2> QED
    BY <1>3, <2>2, <2>3, <2>4
<1> QED
  BY <1>2, <1>3

\* The columns of other documents and of other series are not touched.
LEMMA AllocateFrame ==
    ASSUME TypeOK, NEW d \in Docs, NEW s \in Series, Allocate(d, s)
    PROVE  \A e \in Docs, u \in Series : (e # d \/ u # s) => num'[e][u] = num[e][u]
BY DEF TypeOK, Allocate

\* Every series is used without gap and without repetition, whatever the handlers
\* refuse, and a number is never given to two documents (allocateNextNumber,
\* allocateNextConduceNumber, allocateNextQuoteNumber).  NumbersSound alone is not
\* inductive: a handler that wrote over a number would leave a gap, so the proof
\* carries SlotsFree along.
THEOREM NumbersAreSound == Spec => []NumbersSound
<1> DEFINE Inv == NumbersSound /\ SlotsFree
           Free(e) == /\ doc[e].status \in Editable \cup {"NONE"}
                           => num[e]["COT"] = 0 /\ num[e]["CON"] = 0 /\ num[e]["FAC"] = 0
                      /\ doc[e].status = "QUOTE_ISSUED" => num[e]["CON"] = 0 /\ num[e]["FAC"] = 0
                      /\ doc[e].status = "CONDUCE" => num[e]["FAC"] = 0
<1>1. Init => Inv
  <2> SUFFICES ASSUME Init PROVE Inv
    OBVIOUS
  <2>1. \A s \in Series : seq[s] = 1 /\ \A d \in Docs : num[d][s] = 0
    BY DEF Init
  <2>2. NumbersSound
    BY <2>1 DEF NumbersSound
  <2>3. SlotsFree
    BY <2>1 DEF SlotsFree, Series
  <2> QED
    BY <2>2, <2>3
<1>2. TypeOK /\ Inv /\ [Next]_vars => Inv'
  <2> SUFFICES ASSUME TypeOK, Inv, [Next]_vars PROVE Inv'
    OBVIOUS
  <2>a. /\ doc \in [Docs -> DocType] /\ num \in [Docs -> [Series -> Nat]]
        /\ "FAC" \in Series /\ "CON" \in Series /\ "COT" \in Series
    BY DEF TypeOK, Series
  <2>b. \A e \in Docs : Free(e)
    BY DEF SlotsFree
  <2>c. (\A e \in Docs : Free(e)') => SlotsFree'
    BY DEF SlotsFree
  <2>d. ASSUME UNCHANGED <<num, seq>>
        PROVE  NumbersSound'
    BY <2>d DEF NumbersSound
  <2>e. ASSUME UNCHANGED <<doc, num, seq>>
        PROVE  Inv'
    BY <2>e, <2>d DEF SlotsFree
  <2>1. ASSUME NEW d \in Docs, EditDraft(d)
        PROVE  Inv'
    <3>1. PICK r \in DocType : /\ r.status \in Editable \cup {"NONE"}
                              /\ doc' = [doc EXCEPT ![d] = r]
      BY <2>1, Editing
    <3>2. doc[d].status \in Editable \cup {"NONE"} /\ UNCHANGED <<num, seq>>
      BY <2>1, Editing
    <3>3. ASSUME NEW e \in Docs
          PROVE  Free(e)'
      <4>1. CASE d # e
        BY <2>a, <2>b, <3>1, <3>2, <4>1
      <4>2. CASE d = e
        BY <2>b, <3>2, <4>2
      <4> QED
        BY <4>1, <4>2
    <3> QED
      BY <2>c, <2>d, <3>2, <3>3
  <2>2. ASSUME NEW d \in Docs, NEW s \in Series, NEW st \in {"QUOTE_ISSUED", "CONDUCE", "COMPLETED"},
               num[d][s] = 0, Allocate(d, s),
               doc'[d].status = st, \A e \in Docs : e # d => doc'[e] = doc[e],
               st = "QUOTE_ISSUED" => s = "COT" /\ num[d]["CON"] = 0 /\ num[d]["FAC"] = 0,
               st = "CONDUCE" => s = "CON" /\ num[d]["FAC"] = 0
        PROVE  Inv'
    <3>1. NumbersSound'
      BY <2>2, AllocateSound
    <3>2. ASSUME NEW e \in Docs
          PROVE  Free(e)'
      <4>1. \A u \in Series : (e # d \/ u # s) => num'[e][u] = num[e][u]
        BY <2>2, AllocateFrame
      <4>2. CASE d # e
        BY <2>a, <2>b, <2>2, <4>1, <4>2
      <4>3. CASE d = e
        BY <2>a, <2>2, <4>1, <4>3 DEF Editable
      <4> QED
        BY <4>2, <4>3
    <3> QED
      BY <2>c, <3>1, <3>2
  <2>3. ASSUME NEW d \in Docs, IssueQuote(d)
        PROVE  Inv'
    <3>1. /\ doc[d].status = "QUOTE_DRAFT" /\ Allocate(d, "COT")
          /\ doc' = [doc EXCEPT ![d].status = "QUOTE_ISSUED"]
      BY <2>3 DEF IssueQuote
    <3>2. doc'[d].status = "QUOTE_ISSUED" /\ \A e \in Docs : e # d => doc'[e] = doc[e]
      BY <2>a, <3>1 DEF DocType
    <3>3. num[d]["COT"] = 0 /\ num[d]["CON"] = 0 /\ num[d]["FAC"] = 0
      BY <2>b, <3>1 DEF Editable
    <3> QED
      BY <2>a, <2>2, <3>1, <3>2, <3>3
  <2>4. ASSUME NEW d \in Docs, NEW source \in {"DRAFT", "QUOTE_ISSUED"}, NEW role \in Roles,
               NEW pay \in Amounts, CompleteSale(d, source, role, pay)
        PROVE  Inv'
    <3>1. /\ doc[d].status = source /\ Allocate(d, "FAC")
          /\ doc' = [doc EXCEPT ![d].status = "COMPLETED"]
      BY <2>4 DEF CompleteSale
    <3>2. doc'[d].status = "COMPLETED" /\ \A e \in Docs : e # d => doc'[e] = doc[e]
      BY <2>a, <3>1 DEF DocType
    <3>3. num[d]["FAC"] = 0
      BY <2>b, <3>1 DEF Editable
    <3> QED
      BY <2>a, <2>2, <3>1, <3>2, <3>3
  <2>5. ASSUME NEW d \in Docs, NEW source \in {"DRAFT", "QUOTE_ISSUED"}, NEW role \in Roles,
               NEW pay \in Amounts, NEW asked \in Days \cup {0},
               IssueConduceSale(d, source, role, pay, asked)
        PROVE  Inv'
    <3>1. /\ doc[d].status = source /\ Allocate(d, "CON")
          /\ doc' = [doc EXCEPT ![d].status = "CONDUCE", ![d].fiscal = FALSE]
      BY <2>5 DEF IssueConduceSale
    <3>2. doc'[d].status = "CONDUCE" /\ \A e \in Docs : e # d => doc'[e] = doc[e]
      BY <2>a, <3>1 DEF DocType
    <3>3. num[d]["CON"] = 0 /\ num[d]["FAC"] = 0
      BY <2>b, <3>1 DEF Editable
    <3> QED
      BY <2>a, <2>2, <3>1, <3>2, <3>3
  <2>6. ASSUME NEW d \in Docs, NEW fiscal \in FiscalChoices, ConvertConduceToInvoice(d, fiscal)
        PROVE  Inv'
    <3>1. /\ doc[d].status = "CONDUCE" /\ Allocate(d, "FAC")
          /\ doc' = [doc EXCEPT ![d].status = "COMPLETED", ![d].fiscal = fiscal]
      BY <2>6 DEF ConvertConduceToInvoice
    <3>2. doc'[d].status = "COMPLETED" /\ \A e \in Docs : e # d => doc'[e] = doc[e]
      BY <2>a, <3>1 DEF DocType
    <3>3. num[d]["FAC"] = 0
      BY <2>b, <3>1
    <3> QED
      BY <2>a, <2>2, <3>1, <3>2, <3>3
  <2>7. ASSUME NEW d \in Docs, NEW k \in ClientKeys, NEW amount \in Amounts, NEW day \in Days,
               AddPayment(d, k, amount, day)
        PROVE  Inv'
    BY <2>7, <2>e DEF AddPayment
  <2>8. ASSUME NEW d \in Docs, NEW k \in ClientKeys, NEW refund \in Amounts, Cancel(d, k, refund)
        PROVE  Inv'
    <3>1. doc' = [doc EXCEPT ![d].status = "CANCELLED"] /\ UNCHANGED <<num, seq>>
      BY <2>8 DEF Cancel
    <3>2. ASSUME NEW e \in Docs
          PROVE  Free(e)'
      <4>1. CASE d # e
        BY <2>a, <2>b, <3>1, <4>1
      <4>2. CASE d = e
        BY <2>a, <3>1, <4>2 DEF DocType, Editable
      <4> QED
        BY <4>1, <4>2
    <3> QED
      BY <2>c, <2>d, <3>1, <3>2
  <2>9. ASSUME NEW c \in Customers, NEW role \in Roles, NEW profile \in Profiles,
               UpdateCustomer(c, role, profile)
        PROVE  Inv'
    BY <2>9, <2>e DEF UpdateCustomer
  <2>10. CASE NextDay \/ UNCHANGED vars
    BY <2>10, <2>e DEF NextDay, vars
  <2> QED
    BY <2>1, <2>3, <2>4, <2>5, <2>6, <2>7, <2>8, <2>9, <2>10 DEF Next, Recognise, Settle
<1> QED
  BY <1>1, <1>2, TypeCorrect, PTL DEF Spec

-----------------------------------------------------------------------------
(* The ledger *)

\* Every step of the service is a step of the ledger or leaves it alone: what the
\* mapping Account shows of a document is recognised once, collected up to its
\* total and closed at most once.  The proof needs MoneyBounded for the two steps
\* that the ledger bounds by what was paid before.
THEOREM ServiceImplementsLedger == Spec => LedgerImplemented
<1>1. Init => Ledger!Init
  BY DEF Init, Ledger!Init, Ledger!Blank, Account, NoDoc, Recognised
<1>2. TypeOK /\ MoneyBounded /\ [Next]_vars => [Ledger!Next]_Account
  <2> SUFFICES ASSUME TypeOK, MoneyBounded, [Next]_vars
               PROVE  [Ledger!Next]_Account
    OBVIOUS
  <2> DEFINE Entry(d) ==
        [state |-> IF doc[d].status \in Recognised THEN "owed"
                   ELSE IF doc[d].status = "CANCELLED" THEN "closed" ELSE "open",
         due |-> IF doc[d].status \in Recognised \cup {"CANCELLED"} THEN doc[d].gross ELSE 0,
         paid |-> money[d].paid,
         refunded |-> money[d].refunded]
  <2>a. /\ doc \in [Docs -> DocType] /\ money \in [Docs -> [paid: Nat, refunded: Nat]]
        /\ Amounts \subseteq Nat /\ 0 \in Amounts
    BY ConstantTypes DEF TypeOK
  <2>b. /\ Account = [d \in Docs |-> Entry(d)]
        /\ Account' = [d \in Docs |-> Entry(d)']
    BY DEF Account
  <2>c. ASSUME NEW d \in Docs, \A e \in Docs : e # d => doc'[e] = doc[e] /\ money'[e] = money[e],
               NEW value, Entry(d)' = value
        PROVE  Account' = [Account EXCEPT ![d] = value]
    <3>1. \A e \in Docs : e # d => Entry(e)' = Entry(e)
      BY <2>c
    <3> QED
      BY <2>b, <2>c, <3>1
  <2>d. ASSUME doc' = doc, money' = money
        PROVE  [Ledger!Next]_Account
    BY <2>d DEF Account
  <2>1. ASSUME NEW d \in Docs, EditDraft(d)
        PROVE  [Ledger!Next]_Account
    <3>1. PICK r \in DocType : /\ r.status \in Editable \cup {"NONE"}
                              /\ doc' = [doc EXCEPT ![d] = r]
      BY <2>1, Editing
    <3>2. doc[d].status \in Editable \cup {"NONE"} /\ money' = money
      BY <2>1, Editing
    <3>3. doc'[d].status \in Editable \cup {"NONE"}
      BY <2>a, <3>1
    <3>4. Entry(d)' = Entry(d)
      BY <3>2, <3>3 DEF Editable, Recognised
    <3>5. \A e \in Docs : Entry(e)' = Entry(e)
      BY <2>a, <3>1, <3>2, <3>4
    <3> QED
      BY <2>b, <3>5
  <2>2. ASSUME NEW d \in Docs, IssueQuote(d)
        PROVE  [Ledger!Next]_Account
    <3>1. /\ doc[d].status = "QUOTE_DRAFT" /\ money' = money
          /\ doc' = [doc EXCEPT ![d].status = "QUOTE_ISSUED"]
      BY <2>2 DEF IssueQuote
    <3>2. doc'[d].status = "QUOTE_ISSUED"
      BY <2>a, <3>1 DEF DocType
    <3>3. Entry(d)' = Entry(d)
      BY <3>1, <3>2 DEF Recognised
    <3>4. \A e \in Docs : Entry(e)' = Entry(e)
      BY <2>a, <3>1, <3>3
    <3> QED
      BY <2>b, <3>4
  <2>3. ASSUME NEW d \in Docs, NEW pay \in Amounts, pay <= doc[d].gross,
               doc[d].status \in {"DRAFT", "QUOTE_ISSUED"}, InitialPayment(d, pay),
               doc'[d].status \in Recognised, doc'[d].gross = doc[d].gross,
               \A e \in Docs : e # d => doc'[e] = doc[e]
        PROVE  Ledger!Recognise(d)
    <3>1. money[d].paid = 0 /\ money[d].refunded = 0
      BY <2>a, <2>3 DEF MoneyBounded, Recognised
    <3>2. /\ money'[d].paid = pay /\ money'[d].refunded = 0
          /\ \A e \in Docs : e # d => money'[e] = money[e]
      BY <2>a, <2>3, <3>1 DEF InitialPayment
    <3>3. Account[d].state = "open"
      BY <2>b, <2>3 DEF Recognised
    <3>4. doc[d].gross \in Amounts
      BY <2>a DEF DocType
    <3>5. Entry(d)' = [state |-> "owed", due |-> doc[d].gross, paid |-> pay, refunded |-> 0]
      BY <2>3, <3>2
    <3>6. Account' = [Account EXCEPT ![d] =
                        [state |-> "owed", due |-> doc[d].gross, paid |-> pay, refunded |-> 0]]
      BY <2>3, <2>c, <3>2, <3>5
    <3> QED
      BY <2>3, <3>3, <3>4, <3>6 DEF Ledger!Recognise
  <2>4. ASSUME NEW d \in Docs, NEW source \in {"DRAFT", "QUOTE_ISSUED"}, NEW role \in Roles,
               NEW pay \in Amounts, CompleteSale(d, source, role, pay)
        PROVE  [Ledger!Next]_Account
    <3>1. /\ pay <= doc[d].gross /\ doc[d].status = source /\ InitialPayment(d, pay)
          /\ doc' = [doc EXCEPT ![d].status = "COMPLETED"]
      BY <2>4 DEF CompleteSale
    <3>2. /\ doc'[d].status = "COMPLETED" /\ doc'[d].gross = doc[d].gross
          /\ \A e \in Docs : e # d => doc'[e] = doc[e]
      BY <2>a, <3>1 DEF DocType
    <3>3. Ledger!Recognise(d)
      BY <2>3, <3>1, <3>2 DEF Recognised
    <3> QED
      BY <3>3 DEF Ledger!Next
  <2>5. ASSUME NEW d \in Docs, NEW source \in {"DRAFT", "QUOTE_ISSUED"}, NEW role \in Roles,
               NEW pay \in Amounts, NEW asked \in Days \cup {0},
               IssueConduceSale(d, source, role, pay, asked)
        PROVE  [Ledger!Next]_Account
    <3>1. /\ pay <= doc[d].gross /\ doc[d].status = source /\ InitialPayment(d, pay)
          /\ doc' = [doc EXCEPT ![d].status = "CONDUCE", ![d].fiscal = FALSE]
      BY <2>5 DEF IssueConduceSale
    <3>2. /\ doc'[d].status = "CONDUCE" /\ doc'[d].gross = doc[d].gross
          /\ \A e \in Docs : e # d => doc'[e] = doc[e]
      BY <2>a, <3>1 DEF DocType
    <3>3. Ledger!Recognise(d)
      BY <2>3, <3>1, <3>2 DEF Recognised
    <3> QED
      BY <3>3 DEF Ledger!Next
  <2>6. ASSUME NEW d \in Docs, NEW fiscal \in FiscalChoices, ConvertConduceToInvoice(d, fiscal)
        PROVE  [Ledger!Next]_Account
    <3>1. /\ doc[d].status = "CONDUCE" /\ money' = money
          /\ doc' = [doc EXCEPT ![d].status = "COMPLETED", ![d].fiscal = fiscal]
      BY <2>6 DEF ConvertConduceToInvoice
    <3>2. doc'[d].status = "COMPLETED" /\ doc'[d].gross = doc[d].gross
      BY <2>a, <3>1 DEF DocType
    <3>3. Entry(d)' = Entry(d)
      BY <3>1, <3>2 DEF Recognised
    <3>4. \A e \in Docs : Entry(e)' = Entry(e)
      BY <2>a, <3>1, <3>3
    <3> QED
      BY <2>b, <3>4
  <2>7. ASSUME NEW d \in Docs, NEW k \in ClientKeys, NEW amount \in Amounts, NEW day \in Days,
               AddPayment(d, k, amount, day)
        PROVE  [Ledger!Next]_Account
    <3>1. /\ doc[d].status \in Recognised /\ amount > 0 /\ amount <= Balance(d) /\ doc' = doc
          /\ money' = [money EXCEPT ![d].paid = @ + amount]
      BY <2>7 DEF AddPayment
    <3>2. /\ money[d].paid <= doc[d].gross /\ doc[d].gross \in Nat
          /\ money[d].paid \in Nat /\ amount \in Nat /\ Balance(d) \in Nat
      <4>1. doc[d].gross \in Amounts /\ money[d].paid \in Nat
        BY <2>a DEF DocType
      <4>2. money[d].paid <= doc[d].gross
        BY DEF MoneyBounded
      <4> QED
        BY <2>a, <4>1, <4>2, BalanceBound
    <3>3. money[d].paid + amount <= doc[d].gross
      <4>1. money[d].paid + Balance(d) <= doc[d].gross
        BY <3>2, BalanceBound
      <4> QED
        BY <3>1, <3>2, <4>1
    <3>4. /\ money'[d].paid = money[d].paid + amount /\ money'[d].refunded = money[d].refunded
          /\ \A e \in Docs : e # d => money'[e] = money[e]
      BY <2>a, <3>1
    <3>5. /\ Account[d] = Entry(d) /\ Account[d].state = "owed"
          /\ Account[d].paid = money[d].paid /\ Account[d].due = doc[d].gross
          /\ Account[d].refunded = money[d].refunded
      BY <2>b, <3>1
    <3>6. Entry(d)' = [state |-> "owed", due |-> Account[d].due,
                       paid |-> Account[d].paid + amount, refunded |-> Account[d].refunded]
      BY <3>1, <3>4, <3>5
    <3>7. Account' = [Account EXCEPT ![d] =
                        [state |-> "owed", due |-> Account[d].due,
                         paid |-> Account[d].paid + amount, refunded |-> Account[d].refunded]]
      BY <2>c, <3>1, <3>4, <3>6
    <3>9. amount \in Amounts \ {0} /\ Account[d].paid + amount <= Account[d].due
      BY <3>1, <3>2, <3>3, <3>5
    <3>10. Ledger!Collect(d)
      BY <3>5, <3>7, <3>9 DEF Ledger!Collect
    <3> QED
      BY <3>10 DEF Ledger!Next
  <2>8. ASSUME NEW d \in Docs, NEW k \in ClientKeys, NEW refund \in Amounts, Cancel(d, k, refund)
        PROVE  [Ledger!Next]_Account
    <3>1. /\ doc[d].status \in Recognised
          /\ refund <= money[d].paid - money[d].refunded
          /\ doc' = [doc EXCEPT ![d].status = "CANCELLED"]
          /\ IF refund = 0 THEN money' = money
                           ELSE money' = [money EXCEPT ![d].refunded = @ + refund]
      BY <2>8 DEF Cancel
    <3>2. money[d].refunded = 0 /\ money[d].paid \in Nat /\ refund \in Nat
      BY <2>a, <3>1 DEF MoneyBounded, Recognised
    <3>3. /\ doc'[d].status = "CANCELLED" /\ doc'[d].gross = doc[d].gross
          /\ \A e \in Docs : e # d => doc'[e] = doc[e]
      BY <2>a, <3>1 DEF DocType
    <3>4. /\ money'[d].paid = money[d].paid /\ money'[d].refunded = refund
          /\ \A e \in Docs : e # d => money'[e] = money[e]
      BY <2>a, <3>1, <3>2
    <3>5. /\ Account[d] = Entry(d) /\ Account[d].state = "owed"
          /\ Account[d].paid = money[d].paid /\ Account[d].due = doc[d].gross
      BY <2>b, <3>1
    <3>6. Entry(d)' = [state |-> "closed", due |-> Account[d].due,
                       paid |-> Account[d].paid, refunded |-> refund]
      BY <3>3, <3>4, <3>5 DEF Recognised
    <3>7. Account' = [Account EXCEPT ![d] =
                        [state |-> "closed", due |-> Account[d].due,
                         paid |-> Account[d].paid, refunded |-> refund]]
      BY <2>c, <3>3, <3>4, <3>6
    <3>8. refund \in {a \in Amounts : a <= Account[d].paid}
      BY <3>1, <3>2, <3>5
    <3>9. Ledger!Close(d)
      BY <3>5, <3>7, <3>8 DEF Ledger!Close
    <3> QED
      BY <3>9 DEF Ledger!Next
  <2>9. ASSUME NEW c \in Customers, NEW role \in Roles, NEW profile \in Profiles,
               UpdateCustomer(c, role, profile)
        PROVE  [Ledger!Next]_Account
    BY <2>9, <2>d DEF UpdateCustomer
  <2>10. CASE NextDay \/ UNCHANGED vars
    BY <2>10, <2>d DEF NextDay, vars
  <2> QED
    BY <2>1, <2>2, <2>4, <2>5, <2>6, <2>7, <2>8, <2>9, <2>10 DEF Next, Recognise, Settle
<1> QED
  BY <1>1, <1>2, TypeCorrect, MoneyIsBounded, PTL DEF Spec, LedgerImplemented, Ledger!Spec

-----------------------------------------------------------------------------
(* What a step does to a document *)

Kept(e) ==
    doc'[e] = doc[e] /\ num'[e] = num[e] /\ snap'[e] = snap[e] /\ money'[e] = money[e]

\* The commercial content stays.
SameDeal(e) ==
    /\ doc'[e].customer = doc[e].customer /\ doc'[e].currency = doc[e].currency
    /\ doc'[e].gross = doc[e].gross /\ doc'[e].lines = doc[e].lines

\* The terms of the sale stay.
SameTerms(e) ==
    /\ snap'[e].confirmedAt = snap[e].confirmedAt /\ snap'[e].dueDate = snap[e].dueDate
    /\ snap'[e].type = snap[e].type /\ snap'[e].term = snap[e].term
    /\ snap'[e].by = snap[e].by

\* The editing handlers.
Edited(e) ==
    /\ doc[e].status \in Editable \cup {"NONE"} /\ doc'[e].status \in Editable \cup {"NONE"}
    /\ num'[e] = num[e] /\ snap'[e] = snap[e] /\ money'[e] = money[e]

\* issueQuote.
Quoted(e) ==
    /\ doc[e].status = "QUOTE_DRAFT" /\ doc'[e].status = "QUOTE_ISSUED"
    /\ SameDeal(e) /\ SameTerms(e) /\ money'[e] = money[e]
    /\ num'[e] = [num[e] EXCEPT !["COT"] = seq["COT"]]
    /\ snap'[e].expires = today + QuoteValidity /\ snap'[e].issuedAt = snap[e].issuedAt

\* What both recognitions freeze, with the terms granted and the money received.
Granted(e, role, pay, due) ==
    /\ doc[e].status \in {"DRAFT", "QUOTE_ISSUED"} /\ SameDeal(e)
    /\ money'[e].paid = money[e].paid + pay /\ money'[e].refunded = money[e].refunded
    /\ snap'[e].expires = snap[e].expires
    /\ snap'[e].confirmedAt = today /\ snap'[e].dueDate = due
    /\ snap'[e].type = cust[doc[e].customer].type
    /\ snap'[e].term = cust[doc[e].customer].term
    /\ snap'[e].by = role

\* confirm and convertQuote.
Sold(e) ==
    \E role \in Roles, pay \in Amounts :
        /\ Granted(e, role, pay, today + TermDays(doc[e].customer, doc[e].currency))
        /\ InitialPaymentPolicy(doc[e].customer, doc[e].currency, role, doc[e].gross, pay)
        /\ WithinCreditLimit(doc[e].customer, doc[e].currency, doc[e].gross - pay)
        /\ pay <= doc[e].gross
        /\ doc'[e].status = "COMPLETED" /\ snap'[e].issuedAt = today
        /\ num'[e] = [num[e] EXCEPT !["FAC"] = seq["FAC"]]

\* issueConduce and convertQuoteToConduce.
Delivered(e) ==
    \E role \in Roles, pay \in Amounts, asked \in Days \cup {0} :
        /\ Granted(e, role, pay, ConduceDueDate(doc[e].customer, doc[e].currency, asked))
        /\ ConducePaymentPolicy(doc[e].customer, doc[e].currency, role, doc[e].gross, pay)
        /\ WithinCreditLimit(doc[e].customer, doc[e].currency, doc[e].gross - pay)
        /\ ConduceDueDateAllowed(doc[e].customer, role, doc[e].gross - pay, asked)
        /\ pay <= doc[e].gross
        /\ doc'[e].status = "CONDUCE" /\ snap'[e].issuedAt = snap[e].issuedAt
        /\ num'[e] = [num[e] EXCEPT !["CON"] = seq["CON"]]

\* convertConduceToInvoice.
Invoiced(e) ==
    /\ doc[e].status = "CONDUCE" /\ doc'[e].status = "COMPLETED"
    /\ SameDeal(e) /\ money'[e] = money[e]
    /\ num'[e] = [num[e] EXCEPT !["FAC"] = seq["FAC"]]
    /\ snap'[e] = [snap[e] EXCEPT !.issuedAt = today]

\* addPayment.
Collected(e) ==
    /\ doc[e].status \in Recognised
    /\ doc'[e] = doc[e] /\ num'[e] = num[e] /\ snap'[e] = snap[e]
    /\ money'[e].paid \in Nat /\ money'[e].paid >= money[e].paid

\* cancel.
Closed(e) ==
    /\ doc[e].status \in Recognised /\ doc'[e].status = "CANCELLED"
    /\ doc'[e].fiscal = doc[e].fiscal /\ SameDeal(e)
    /\ num'[e] = num[e] /\ snap'[e] = snap[e]

Changed(d) ==
    Edited(d) \/ Quoted(d) \/ Sold(d) \/ Delivered(d) \/ Invoiced(d) \/ Collected(d) \/ Closed(d)

\* One document changes, or only customers and the day do.
OneDocument ==
    /\ UNCHANGED <<cust, today>>
    /\ \E d \in Docs : Changed(d) /\ \A e \in Docs : e # d => Kept(e)

NoDocument ==
    UNCHANGED <<doc, num, seq, snap, money>> /\ today' \in {today, today + 1}

\* The fields a document, a snapshot and the money of one have.
LEMMA RowTypes ==
    ASSUME TypeOK, NEW e \in Docs
    PROVE  /\ doc[e] \in DocType /\ snap[e] \in SnapType /\ num[e] \in [Series -> Nat]
           /\ money[e] \in [paid: Nat, refunded: Nat]
           /\ money[e].paid \in Nat /\ money[e].refunded \in Nat
           /\ doc[e].customer \in Customers /\ doc[e].gross \in Nat
           /\ doc[e].currency \in {"DOP", "USD"}
BY ConstantTypes DEF TypeOK, DocType

\* Recognition freezes the customer of the moment (recognitionCustomerSnapshot).
LEMMA SnapshotFields ==
    ASSUME TypeOK, NEW d \in Docs, NEW source, NEW role, NEW due
    PROVE  LET t == RecognitionSnapshot(d, source, role, due) IN
           /\ t.expires = snap[d].expires /\ t.confirmedAt = today /\ t.dueDate = due
           /\ t.type = cust[doc[d].customer].type /\ t.term = cust[doc[d].customer].term
           /\ t.by = role /\ t.issuedAt = snap[d].issuedAt
           /\ LET i == [t EXCEPT !.issuedAt = today] IN
              /\ i.expires = snap[d].expires /\ i.confirmedAt = today /\ i.dueDate = due
              /\ i.type = cust[doc[d].customer].type /\ i.term = cust[doc[d].customer].term
              /\ i.by = role /\ i.issuedAt = today
BY RowTypes DEF RecognitionSnapshot, SnapType

\* The money received on recognition (recordInitialRecognitionPayment).
LEMMA InitialPaymentEffect ==
    ASSUME TypeOK, NEW d \in Docs, NEW pay \in Amounts, InitialPayment(d, pay)
    PROVE  /\ money'[d].paid = money[d].paid + pay /\ money'[d].refunded = money[d].refunded
           /\ \A e \in Docs : e # d => money'[e] = money[e]
<1>1. money \in [Docs -> [paid: Nat, refunded: Nat]] /\ Amounts \subseteq Nat
  BY ConstantTypes DEF TypeOK
<1>2. CASE pay = 0
  BY <1>1, <1>2 DEF InitialPayment
<1>3. CASE pay # 0
  <2>1. money' = [money EXCEPT ![d].paid = @ + pay]
    BY <1>3 DEF InitialPayment
  <2> QED
    BY <1>1, <2>1
<1> QED
  BY <1>2, <1>3

\* A number goes to one document (allocateNextNumber).
LEMMA AllocateEffect ==
    ASSUME TypeOK, NEW d \in Docs, NEW s \in Series, Allocate(d, s)
    PROVE  /\ num'[d] = [num[d] EXCEPT ![s] = seq[s]]
           /\ \A e \in Docs : e # d => num'[e] = num[e]
BY DEF TypeOK, Allocate

\* An edit leaves a draft or a quote what it was, with the terms the form sent
\* (SalesService.updateMeta).
LEMMA EditEffect ==
    ASSUME TypeOK, NEW d \in Docs, EditDraft(d)
    PROVE  OneDocument
<1>1. doc \in [Docs -> DocType]
  BY DEF TypeOK
<1>2. /\ doc[d].status \in Editable \cup {"NONE"}
      /\ UNCHANGED <<num, seq, snap, money, rows, cust, today>>
  BY Editing
<1>3. PICK r \in DocType : r.status \in Editable \cup {"NONE"} /\ doc' = [doc EXCEPT ![d] = r]
  BY Editing
<1>4. Edited(d)
  BY <1>1, <1>2, <1>3 DEF Edited
<1>5. \A e \in Docs : e # d => Kept(e)
  BY <1>1, <1>2, <1>3 DEF Kept
<1> QED
  BY <1>2, <1>4, <1>5 DEF OneDocument, Changed

\* The quote's number comes with its issue (issueQuote), and goes on a copy (createQuoteVersion).
LEMMA QuoteEffect ==
    ASSUME TypeOK, NEW d \in Docs, IssueQuote(d)
    PROVE  OneDocument
<1>1. doc \in [Docs -> DocType] /\ snap \in [Docs -> SnapType]
  BY DEF TypeOK
<1>2. /\ doc[d].status = "QUOTE_DRAFT" /\ Allocate(d, "COT")
      /\ doc' = [doc EXCEPT ![d].status = "QUOTE_ISSUED"]
      /\ snap' = [snap EXCEPT ![d].rnc = cust[doc[d].customer].rnc,
                              ![d].expires = today + QuoteValidity]
      /\ UNCHANGED <<money, rows, cust, today>>
  BY DEF IssueQuote
<1>3. doc'[d].status = "QUOTE_ISSUED" /\ SameDeal(d)
  BY <1>1, <1>2 DEF DocType, SameDeal
<1>4. /\ SameTerms(d) /\ snap'[d].expires = today + QuoteValidity
      /\ snap'[d].issuedAt = snap[d].issuedAt
  BY <1>1, <1>2 DEF SnapType, SameTerms
<1>5. /\ num'[d] = [num[d] EXCEPT !["COT"] = seq["COT"]]
      /\ \A e \in Docs : e # d => num'[e] = num[e]
  BY <1>2, AllocateEffect DEF Series
<1>6. \A e \in Docs : e # d => doc'[e] = doc[e] /\ snap'[e] = snap[e]
  BY <1>1, <1>2
<1> QED
  BY <1>2, <1>3, <1>4, <1>5, <1>6 DEF OneDocument, Changed, Quoted, Kept

\* A sale is recognised, invoiced and paid what was received, in one commit (complete).
LEMMA CompleteEffect ==
    ASSUME TypeOK, NEW d \in Docs, NEW source \in {"DRAFT", "QUOTE_ISSUED"}, NEW role \in Roles,
           NEW pay \in Amounts, CompleteSale(d, source, role, pay)
    PROVE  OneDocument
<1> DEFINE due == today + TermDays(doc[d].customer, doc[d].currency)
           t == RecognitionSnapshot(d, source, role, due)
<1>1. doc \in [Docs -> DocType] /\ snap \in [Docs -> SnapType]
  BY DEF TypeOK
<1>2. /\ doc[d].status = source /\ Allocate(d, "FAC") /\ pay <= doc[d].gross
      /\ InitialPaymentPolicy(doc[d].customer, doc[d].currency, role, doc[d].gross, pay)
      /\ WithinCreditLimit(doc[d].customer, doc[d].currency, doc[d].gross - pay)
      /\ doc' = [doc EXCEPT ![d].status = "COMPLETED"]
      /\ snap' = [snap EXCEPT ![d] = [t EXCEPT !.issuedAt = today]]
      /\ InitialPayment(d, pay)
      /\ UNCHANGED <<cust, today>>
  BY DEF CompleteSale
<1>3. doc'[d].status = "COMPLETED" /\ SameDeal(d)
  BY <1>1, <1>2 DEF DocType, SameDeal
<1>4. snap'[d] = [t EXCEPT !.issuedAt = today]
  BY <1>1, <1>2
<1>5. /\ snap'[d].expires = snap[d].expires
      /\ snap'[d].confirmedAt = today /\ snap'[d].dueDate = due
      /\ snap'[d].type = cust[doc[d].customer].type
      /\ snap'[d].term = cust[doc[d].customer].term
      /\ snap'[d].by = role /\ snap'[d].issuedAt = today
  BY <1>4, SnapshotFields
<1>6. /\ num'[d] = [num[d] EXCEPT !["FAC"] = seq["FAC"]]
      /\ \A e \in Docs : e # d => num'[e] = num[e]
  BY <1>2, AllocateEffect DEF Series
<1>7. /\ money'[d].paid = money[d].paid + pay /\ money'[d].refunded = money[d].refunded
      /\ \A e \in Docs : e # d => money'[e] = money[e]
  BY <1>2, InitialPaymentEffect
<1>8. \A e \in Docs : e # d => doc'[e] = doc[e] /\ snap'[e] = snap[e]
  BY <1>1, <1>2
<1>9. Granted(d, role, pay, due)
  BY <1>2, <1>3, <1>5, <1>7 DEF Granted
<1>10. Sold(d)
  BY <1>2, <1>3, <1>5, <1>6, <1>9 DEF Sold
<1> QED
  BY <1>2, <1>6, <1>7, <1>8, <1>10 DEF OneDocument, Changed, Kept

\* A conduce is the same recognition without the invoice (issueConduce).
LEMMA ConduceEffect ==
    ASSUME TypeOK, NEW d \in Docs, NEW source \in {"DRAFT", "QUOTE_ISSUED"}, NEW role \in Roles,
           NEW pay \in Amounts, NEW asked \in Days \cup {0},
           IssueConduceSale(d, source, role, pay, asked)
    PROVE  OneDocument
<1> DEFINE due == ConduceDueDate(doc[d].customer, doc[d].currency, asked)
           t == RecognitionSnapshot(d, source, role, due)
<1>1. doc \in [Docs -> DocType] /\ snap \in [Docs -> SnapType]
  BY DEF TypeOK
<1>2. /\ doc[d].status = source /\ Allocate(d, "CON") /\ pay <= doc[d].gross
      /\ ConducePaymentPolicy(doc[d].customer, doc[d].currency, role, doc[d].gross, pay)
      /\ WithinCreditLimit(doc[d].customer, doc[d].currency, doc[d].gross - pay)
      /\ ConduceDueDateAllowed(doc[d].customer, role, doc[d].gross - pay, asked)
      /\ doc' = [doc EXCEPT ![d].status = "CONDUCE", ![d].fiscal = FALSE]
      /\ snap' = [snap EXCEPT ![d] = t]
      /\ InitialPayment(d, pay)
      /\ UNCHANGED <<cust, today>>
  BY DEF IssueConduceSale
<1>3. doc'[d].status = "CONDUCE" /\ SameDeal(d)
  BY <1>1, <1>2 DEF DocType, SameDeal
<1>4. snap'[d] = t
  BY <1>1, <1>2
<1>5. /\ snap'[d].expires = snap[d].expires
      /\ snap'[d].confirmedAt = today /\ snap'[d].dueDate = due
      /\ snap'[d].type = cust[doc[d].customer].type
      /\ snap'[d].term = cust[doc[d].customer].term
      /\ snap'[d].by = role /\ snap'[d].issuedAt = snap[d].issuedAt
  BY <1>4, SnapshotFields
<1>6. /\ num'[d] = [num[d] EXCEPT !["CON"] = seq["CON"]]
      /\ \A e \in Docs : e # d => num'[e] = num[e]
  BY <1>2, AllocateEffect DEF Series
<1>7. /\ money'[d].paid = money[d].paid + pay /\ money'[d].refunded = money[d].refunded
      /\ \A e \in Docs : e # d => money'[e] = money[e]
  BY <1>2, InitialPaymentEffect
<1>8. \A e \in Docs : e # d => doc'[e] = doc[e] /\ snap'[e] = snap[e]
  BY <1>1, <1>2
<1>9. Granted(d, role, pay, due)
  BY <1>2, <1>3, <1>5, <1>7 DEF Granted
<1>10. Delivered(d)
  BY <1>2, <1>3, <1>5, <1>6, <1>9 DEF Delivered
<1> QED
  BY <1>2, <1>6, <1>7, <1>8, <1>10 DEF OneDocument, Changed, Kept

\* A conversion gives the number and the day of the invoice and nothing else
\* (convertConduceToInvoice).
LEMMA InvoiceEffect ==
    ASSUME TypeOK, NEW d \in Docs, NEW fiscal \in FiscalChoices, ConvertConduceToInvoice(d, fiscal)
    PROVE  OneDocument
<1>1. doc \in [Docs -> DocType] /\ snap \in [Docs -> SnapType]
  BY DEF TypeOK
<1>2. /\ doc[d].status = "CONDUCE" /\ Allocate(d, "FAC")
      /\ doc' = [doc EXCEPT ![d].status = "COMPLETED", ![d].fiscal = fiscal]
      /\ snap' = [snap EXCEPT ![d].issuedAt = today]
      /\ UNCHANGED <<money, rows, cust, today>>
  BY DEF ConvertConduceToInvoice
<1>3. doc'[d].status = "COMPLETED" /\ SameDeal(d)
  BY <1>1, <1>2 DEF DocType, SameDeal
<1>4. snap'[d] = [snap[d] EXCEPT !.issuedAt = today]
  BY <1>1, <1>2
<1>5. /\ num'[d] = [num[d] EXCEPT !["FAC"] = seq["FAC"]]
      /\ \A e \in Docs : e # d => num'[e] = num[e]
  BY <1>2, AllocateEffect DEF Series
<1>6. \A e \in Docs : e # d => doc'[e] = doc[e] /\ snap'[e] = snap[e]
  BY <1>1, <1>2
<1> QED
  BY <1>2, <1>3, <1>4, <1>5, <1>6 DEF OneDocument, Changed, Invoiced, Kept

\* A payment adds one row to the ledger, of no more than is owed (addPayment).
LEMMA PaymentEffect ==
    ASSUME TypeOK, NEW d \in Docs, NEW k \in ClientKeys, NEW amount \in Amounts, NEW day \in Days,
           AddPayment(d, k, amount, day)
    PROVE  OneDocument
<1>1. money \in [Docs -> [paid: Nat, refunded: Nat]] /\ Amounts \subseteq Nat
  BY ConstantTypes DEF TypeOK
<1>2. /\ doc[d].status \in Recognised /\ money' = [money EXCEPT ![d].paid = @ + amount]
      /\ UNCHANGED <<doc, num, seq, snap, cust, today>>
  BY DEF AddPayment
<1>3. money'[d].paid \in Nat /\ money'[d].paid >= money[d].paid
  BY <1>1, <1>2
<1>4. \A e \in Docs : e # d => money'[e] = money[e]
  BY <1>1, <1>2
<1> QED
  BY <1>2, <1>3, <1>4 DEF OneDocument, Changed, Collected, Kept

\* A cancellation gives back what was received of a recognised document (cancel).
LEMMA CancelEffect ==
    ASSUME TypeOK, NEW d \in Docs, NEW k \in ClientKeys, NEW refund \in Amounts,
           Cancel(d, k, refund)
    PROVE  OneDocument
<1>1. doc \in [Docs -> DocType] /\ money \in [Docs -> [paid: Nat, refunded: Nat]]
  BY DEF TypeOK
<1>2. /\ doc[d].status \in Recognised /\ doc' = [doc EXCEPT ![d].status = "CANCELLED"]
      /\ UNCHANGED <<num, seq, snap, cust, today>>
  BY DEF Cancel
<1>3. doc'[d].status = "CANCELLED" /\ doc'[d].fiscal = doc[d].fiscal /\ SameDeal(d)
  BY <1>1, <1>2 DEF DocType, SameDeal
<1>4. \A e \in Docs : e # d => doc'[e] = doc[e]
  BY <1>1, <1>2
<1>5. \A e \in Docs : e # d => money'[e] = money[e]
  BY <1>1 DEF Cancel
<1> QED
  BY <1>2, <1>3, <1>4, <1>5 DEF OneDocument, Changed, Closed, Kept

\* Every step of the service changes one document in one of the seven ways, a customer
\* (CustomerService.update), or the day.
LEMMA StepEffect ==
    ASSUME TypeOK, [Next]_vars
    PROVE  /\ OneDocument \/ NoDocument
           /\ \/ cust' = cust
              \/ \E c \in Customers, role \in Roles, profile \in Profiles :
                   UpdateCustomer(c, role, profile)
<1>1. ASSUME NEW d \in Docs, EditDraft(d) \/ IssueQuote(d) \/ Recognise(d) \/ Settle(d)
      PROVE  OneDocument
  BY <1>1, EditEffect, QuoteEffect, CompleteEffect, ConduceEffect, InvoiceEffect, PaymentEffect,
     CancelEffect DEF Recognise, Settle
<1>2. ASSUME NEW c \in Customers, NEW role \in Roles, NEW profile \in Profiles,
             UpdateCustomer(c, role, profile)
      PROVE  NoDocument
  BY <1>2 DEF UpdateCustomer, NoDocument
<1>3. CASE NextDay \/ UNCHANGED vars
  BY <1>3 DEF NextDay, NoDocument, vars
<1>4. OneDocument => cust' = cust
  BY DEF OneDocument
<1> QED
  BY <1>1, <1>2, <1>3, <1>4 DEF Next

-----------------------------------------------------------------------------
(* The shape of the rows *)

\* Nothing is dated in the future.
DatesPast ==
    \A d \in Docs :
        /\ snap[d].confirmedAt <= today /\ snap[d].issuedAt <= today
        /\ snap[d].expires <= today + QuoteValidity

\* The shape of one row.
ShapeOf(d) ==
    LET n == num[d]  t == snap[d]  st == doc[d].status
        recognised == /\ t.confirmedAt # 0 /\ t.dueDate >= t.confirmedAt
                      /\ t.type = "CASH" => t.term = 0
                      /\ t.type = "CREDIT" => t.term \in Terms
                      /\ t.type # "NONE" /\ t.by # "NONE"
    IN  /\ (n["FAC"] = 0) <=> (t.issuedAt = 0)
        /\ (n["COT"] = 0) <=> (t.expires = 0)
        /\ t.issuedAt # 0 => t.issuedAt >= t.confirmedAt
        /\ st \in Editable \cup {"NONE"} => n = [s \in Series |-> 0] /\ t = NoSnap
        /\ st = "QUOTE_ISSUED" => /\ n["COT"] # 0 /\ n["CON"] = 0 /\ n["FAC"] = 0
                                  /\ t.confirmedAt = 0 /\ t.dueDate = 0 /\ t.type = "NONE"
        /\ st = "CONDUCE" => recognised /\ n["CON"] # 0 /\ n["FAC"] = 0
        /\ st = "COMPLETED" => recognised /\ n["FAC"] # 0
        /\ st = "CANCELLED" => recognised /\ (n["FAC"] # 0 \/ n["CON"] # 0)

\* The constraints of the database, one document at a time.
LEMMA RowShapeIsOfEach == RowShape <=> \A d \in Docs : ShapeOf(d)
BY DEF RowShape, ShapeOf

\* A date of recognition, of issue or of expiry is not in the future after a step either.
LEMMA DatesStep ==
    ASSUME TypeOK, DatesPast, OneDocument \/ NoDocument
    PROVE  DatesPast'
<1> SUFFICES ASSUME NEW e \in Docs
             PROVE  /\ snap'[e].confirmedAt <= today' /\ snap'[e].issuedAt <= today'
                    /\ snap'[e].expires <= today' + QuoteValidity
  BY DEF DatesPast
<1>1. /\ snap[e].confirmedAt <= today /\ snap[e].issuedAt <= today
      /\ snap[e].expires <= today + QuoteValidity
  BY DEF DatesPast
<1>2. /\ snap[e] \in SnapType /\ today \in Nat \ {0} /\ QuoteValidity \in Nat
  BY RowTypes, ConstantTypes DEF TypeOK
<1>3. CASE NoDocument
  BY <1>1, <1>2, <1>3 DEF NoDocument, SnapType
<1>4. CASE OneDocument /\ Kept(e)
  BY <1>1, <1>4 DEF OneDocument, Kept
<1>5. CASE OneDocument /\ Changed(e)
  <2>1. today' = today
    BY <1>5 DEF OneDocument
  <2>2. CASE Edited(e) \/ Collected(e) \/ Closed(e)
    BY <1>1, <2>1, <2>2 DEF Edited, Collected, Closed
  <2>3. CASE Quoted(e)
    BY <1>1, <1>2, <2>1, <2>3 DEF Quoted, SameTerms
  <2>4. CASE Sold(e)
    BY <1>1, <1>2, <2>1, <2>4 DEF Sold, Granted, SnapType
  <2>5. CASE Delivered(e)
    BY <1>1, <1>2, <2>1, <2>5 DEF Delivered, Granted, SnapType
  <2>6. CASE Invoiced(e)
    BY <1>1, <1>2, <2>1, <2>6 DEF Invoiced, SnapType
  <2> QED
    BY <1>5, <2>2, <2>3, <2>4, <2>5, <2>6 DEF Changed
<1> QED
  BY <1>3, <1>4, <1>5 DEF OneDocument

\* The date a sale becomes due is never before its recognition, and an administrator's
\* own date is kept (resolveConduceDueDate).
LEMMA DueDates ==
    ASSUME TypeOK, NEW e \in Docs, NEW asked \in Days \cup {0}, NEW role, NEW balance \in Nat,
           ConduceDueDateAllowed(doc[e].customer, role, balance, asked)
    PROVE  /\ TermDays(doc[e].customer, doc[e].currency) \in Nat
           /\ ConduceDueDate(doc[e].customer, doc[e].currency, asked) \in Nat
           /\ ConduceDueDate(doc[e].customer, doc[e].currency, asked) >= today
<1>1. today \in Nat \ {0} /\ asked \in Nat /\ doc[e].customer \in Customers
  BY RowTypes, ConstantTypes DEF TypeOK
<1>2. TermDays(doc[e].customer, doc[e].currency) \in Nat
  BY <1>1, ProfileType DEF TermDays
<1> QED
  BY <1>1, <1>2 DEF ConduceDueDate, ConduceDueDateAllowed

\* What recognition writes has the shape a recognised row must have.
LEMMA GrantedShape ==
    ASSUME TypeOK, NEW e \in Docs, NEW role \in Roles, NEW pay, NEW due \in Nat, due >= today,
           Granted(e, role, pay, due)
    PROVE  LET t == snap'[e] IN
           /\ t.confirmedAt # 0 /\ t.dueDate >= t.confirmedAt
           /\ t.type = "CASH" => t.term = 0
           /\ t.type = "CREDIT" => t.term \in Terms
           /\ t.type # "NONE" /\ t.by # "NONE"
<1>1. today \in Nat \ {0} /\ doc[e].customer \in Customers
  BY RowTypes DEF TypeOK
<1>2. /\ cust[doc[e].customer].type \in {"CASH", "CREDIT"}
      /\ cust[doc[e].customer].type = "CASH" => cust[doc[e].customer].term = 0
      /\ cust[doc[e].customer].type = "CREDIT" => cust[doc[e].customer].term \in Terms
  BY <1>1, ProfileType
<1> QED
  BY <1>1, <1>2 DEF Granted, Roles

\* No handler, and no order of handlers, writes a row the CHECK constraints refuse.
LEMMA ShapeStep ==
    ASSUME TypeOK, DatesPast, RowShape, OneDocument \/ NoDocument
    PROVE  RowShape'
<1> SUFFICES ASSUME NEW e \in Docs
             PROVE  ShapeOf(e)'
  BY RowShapeIsOfEach DEF RowShape, ShapeOf
<1>1. ShapeOf(e)
  BY RowShapeIsOfEach
<1>2. /\ snap[e] \in SnapType /\ num[e] \in [Series -> Nat] /\ seq \in [Series -> Nat \ {0}]
      /\ today \in Nat \ {0} /\ QuoteValidity \in Nat
  BY RowTypes, ConstantTypes DEF TypeOK
<1>3. /\ snap[e].confirmedAt \in Nat /\ snap[e].issuedAt \in Nat /\ snap[e].expires \in Nat
      /\ snap[e].confirmedAt <= today
      /\ seq["FAC"] \in Nat \ {0} /\ seq["CON"] \in Nat \ {0} /\ seq["COT"] \in Nat \ {0}
  BY <1>2 DEF DatesPast, SnapType, Series
<1>4. CASE NoDocument
  BY <1>1, <1>4 DEF NoDocument, ShapeOf
<1>5. CASE Kept(e)
  BY <1>1, <1>5 DEF Kept, ShapeOf
<1>6. CASE Edited(e)
  BY <1>1, <1>6 DEF Edited, ShapeOf, Editable
<1>7. CASE Quoted(e)
  <2>1. /\ num[e] = [s \in Series |-> 0] /\ snap[e] = NoSnap
    BY <1>1, <1>7 DEF Quoted, ShapeOf, Editable
  <2>2. num'[e]["COT"] = seq["COT"] /\ num'[e]["CON"] = 0 /\ num'[e]["FAC"] = 0
    BY <1>2, <1>7, <2>1 DEF Quoted, Series
  <2>3. /\ snap'[e].expires = today + QuoteValidity /\ snap'[e].issuedAt = 0
        /\ snap'[e].confirmedAt = 0 /\ snap'[e].dueDate = 0 /\ snap'[e].type = "NONE"
    BY <1>7, <2>1 DEF Quoted, SameTerms, NoSnap
  <2> QED
    BY <1>2, <1>3, <1>7, <2>2, <2>3 DEF Quoted, ShapeOf, Editable
<1>8. CASE Sold(e)
  <2>1. PICK role \in Roles, pay \in Amounts :
           /\ Granted(e, role, pay, today + TermDays(doc[e].customer, doc[e].currency))
           /\ doc'[e].status = "COMPLETED" /\ snap'[e].issuedAt = today
           /\ num'[e] = [num[e] EXCEPT !["FAC"] = seq["FAC"]]
    BY <1>8 DEF Sold
  <2>2. /\ TermDays(doc[e].customer, doc[e].currency) \in Nat
    BY RowTypes, ProfileType DEF TermDays
  <2>3. LET t == snap'[e] IN
        /\ t.confirmedAt # 0 /\ t.dueDate >= t.confirmedAt
        /\ t.type = "CASH" => t.term = 0
        /\ t.type = "CREDIT" => t.term \in Terms
        /\ t.type # "NONE" /\ t.by # "NONE"
    BY <1>2, <2>1, <2>2, GrantedShape
  <2>4. num'[e]["FAC"] = seq["FAC"] /\ num'[e]["COT"] = num[e]["COT"]
    BY <1>2, <2>1 DEF Series
  <2>5. snap'[e].expires = snap[e].expires /\ snap'[e].confirmedAt = today
    BY <2>1 DEF Granted
  <2>6. (num[e]["COT"] = 0) <=> (snap[e].expires = 0)
    BY <1>1 DEF ShapeOf
  <2> QED
    BY <1>2, <1>3, <2>1, <2>3, <2>4, <2>5, <2>6 DEF ShapeOf, Editable
<1>9. CASE Delivered(e)
  <2>1. PICK role \in Roles, pay \in Amounts, asked \in Days \cup {0} :
           /\ Granted(e, role, pay, ConduceDueDate(doc[e].customer, doc[e].currency, asked))
           /\ ConduceDueDateAllowed(doc[e].customer, role, doc[e].gross - pay, asked)
           /\ pay <= doc[e].gross
           /\ doc'[e].status = "CONDUCE" /\ snap'[e].issuedAt = snap[e].issuedAt
           /\ num'[e] = [num[e] EXCEPT !["CON"] = seq["CON"]]
    BY <1>9 DEF Delivered
  <2>2. doc[e].gross - pay \in Nat
    BY <2>1, RowTypes, ConstantTypes
  <2>3. /\ ConduceDueDate(doc[e].customer, doc[e].currency, asked) \in Nat
        /\ ConduceDueDate(doc[e].customer, doc[e].currency, asked) >= today
    BY <2>1, <2>2, DueDates
  <2>4. LET t == snap'[e] IN
        /\ t.confirmedAt # 0 /\ t.dueDate >= t.confirmedAt
        /\ t.type = "CASH" => t.term = 0
        /\ t.type = "CREDIT" => t.term \in Terms
        /\ t.type # "NONE" /\ t.by # "NONE"
    BY <2>1, <2>3, GrantedShape
  <2>5. /\ num'[e]["CON"] = seq["CON"] /\ num'[e]["COT"] = num[e]["COT"]
        /\ num'[e]["FAC"] = num[e]["FAC"]
    BY <1>2, <2>1 DEF Series
  <2>6. snap'[e].expires = snap[e].expires /\ snap'[e].confirmedAt = today
    BY <2>1 DEF Granted
  <2>7. /\ (num[e]["COT"] = 0) <=> (snap[e].expires = 0)
        /\ (num[e]["FAC"] = 0) <=> (snap[e].issuedAt = 0)
        /\ num[e]["FAC"] = 0
    <3>1. doc[e].status \in {"DRAFT", "QUOTE_ISSUED"}
      BY <2>1 DEF Granted
    <3>2. CASE doc[e].status = "DRAFT"
      BY <1>1, <3>2 DEF ShapeOf, Editable, Series
    <3>3. CASE doc[e].status = "QUOTE_ISSUED"
      BY <1>1, <3>3 DEF ShapeOf
    <3> QED
      BY <1>1, <3>1, <3>2, <3>3 DEF ShapeOf
  <2> QED
    BY <1>2, <1>3, <2>1, <2>4, <2>5, <2>6, <2>7 DEF ShapeOf, Editable
<1>10. CASE Invoiced(e)
  <2>1. /\ doc[e].status = "CONDUCE" /\ doc'[e].status = "COMPLETED"
        /\ num'[e] = [num[e] EXCEPT !["FAC"] = seq["FAC"]]
        /\ snap'[e] = [snap[e] EXCEPT !.issuedAt = today]
    BY <1>10 DEF Invoiced
  <2>2. num'[e]["FAC"] = seq["FAC"] /\ num'[e]["COT"] = num[e]["COT"]
    BY <1>2, <2>1 DEF Series
  <2>3. /\ snap'[e].issuedAt = today /\ snap'[e].expires = snap[e].expires
        /\ SameTerms(e)
    BY <1>2, <2>1 DEF SnapType, SameTerms
  <2> QED
    BY <1>1, <1>3, <2>1, <2>2, <2>3 DEF ShapeOf, SameTerms, Editable
<1>11. CASE Collected(e)
  BY <1>1, <1>11 DEF Collected, ShapeOf
<1>12. CASE Closed(e)
  <2>1. /\ doc[e].status \in {"CONDUCE", "COMPLETED"} /\ doc'[e].status = "CANCELLED"
        /\ num'[e] = num[e] /\ snap'[e] = snap[e]
    BY <1>12 DEF Closed, Recognised
  <2> QED
    BY <1>1, <2>1 DEF ShapeOf, Editable
<1> QED
  BY <1>4, <1>5, <1>6, <1>7, <1>8, <1>9, <1>10, <1>11, <1>12 DEF OneDocument, Changed

\* The CHECK constraints of the migrations hold of every row, whatever is done to it in
\* whatever order: no path of the service ends in an error of the database. RowShape is
\* inductive once nothing is dated in the future, which a conversion needs: it dates the
\* invoice today, and a conduce recognised later than that would be refused.
LEMMA RowsAndDates == Spec => [](RowShape /\ DatesPast)
<1>1. Init => RowShape /\ DatesPast
  <2> SUFFICES ASSUME Init PROVE RowShape /\ DatesPast
    OBVIOUS
  <2>1. QuoteValidity \in Nat
    BY ConstantTypes
  <2>2. DatesPast
    BY <2>1 DEF Init, DatesPast, NoSnap
  <2>3. RowShape
    BY DEF Init, RowShape, NoSnap, NoDoc, Series, Editable
  <2> QED
    BY <2>2, <2>3
<1>2. TypeOK /\ RowShape /\ DatesPast /\ [Next]_vars => (RowShape /\ DatesPast)'
  BY StepEffect, DatesStep, ShapeStep
<1> QED
  BY <1>1, <1>2, TypeCorrect, PTL DEF Spec

\* The constraints of the database are never what refuses a handler.
THEOREM RowsAreWellShaped == Spec => []RowShape
BY RowsAndDates, PTL

-----------------------------------------------------------------------------
(* Credit *)

\* A cancelled document and one that is not recognised owe nothing; money received
\* lowers the balance, and a payment of the total leaves none.
LEMMA BalanceFacts ==
    ASSUME TypeOK, NEW e \in Docs
    PROVE  /\ Balance(e) \in Nat
           /\ Balance(e) > 0 => doc[e].status \in Recognised /\ money[e].paid < doc[e].gross
BY RowTypes DEF Balance

\* The grant behind the open balance of one sale.
GrantOf(d) ==
    \/ snap[d].type = "CREDIT" /\ doc[d].currency = "DOP"
    \/ /\ snap[d].type = "CASH" /\ doc[d].customer # DefaultCustomer
       /\ num[d]["CON"] # 0 /\ snap[d].by = "ADMINISTRATOR"

TermsOf(d) ==
    LET days == IF snap[d].type = "CREDIT" /\ doc[d].currency = "DOP"
                THEN snap[d].term ELSE 0
    IN  \/ snap[d].dueDate = snap[d].confirmedAt + days
        \/ /\ snap[d].dueDate > snap[d].confirmedAt
           /\ snap[d].type = "CASH" /\ doc[d].customer # DefaultCustomer
           /\ num[d]["CON"] # 0 /\ snap[d].by = "ADMINISTRATOR"

\* A document about to be recognised has no money.
LEMMA NoMoneyYet ==
    ASSUME TypeOK, MoneyBounded, NEW e \in Docs, doc[e].status \in {"DRAFT", "QUOTE_ISSUED"}
    PROVE  money[e].paid = 0
BY RowTypes DEF MoneyBounded, Recognised

\* A balance left open on recognition is granted, by the credit of the customer or by
\* an administrator on a conduce (assertInitialPaymentPolicy and its conduce sibling).
LEMMA RecognitionGrants ==
    ASSUME TypeOK, MoneyBounded, NEW e \in Docs, Sold(e) \/ Delivered(e), Balance(e)' > 0
    PROVE  GrantOf(e)'
<1>1. /\ money[e].paid = 0 /\ doc'[e].gross = doc[e].gross
      /\ doc'[e].customer = doc[e].customer /\ doc'[e].currency = doc[e].currency
      /\ snap'[e].type = cust[doc[e].customer].type
  BY NoMoneyYet DEF Sold, Delivered, Granted, SameDeal
<1>2. /\ doc[e].gross \in Nat /\ doc[e].currency \in {"DOP", "USD"} /\ Amounts \subseteq Nat
      /\ cust[doc[e].customer].type \in {"CASH", "CREDIT"}
      /\ seq["CON"] \in Nat \ {0}
      /\ num[e] \in [Series -> Nat]
  BY RowTypes, ProfileType, ConstantTypes DEF TypeOK, Series
<1>3. money'[e].paid # doc'[e].gross
  BY <1>1, <1>2 DEF Balance
<1>4. CASE Sold(e)
  <2>1. PICK role \in Roles, pay \in Amounts :
           /\ money'[e].paid = money[e].paid + pay
           /\ InitialPaymentPolicy(doc[e].customer, doc[e].currency, role, doc[e].gross, pay)
    BY <1>4 DEF Sold, Granted
  <2>2. pay # doc[e].gross
    BY <1>1, <1>2, <1>3, <2>1
  <2>3. ~RequiresFullSettlement(doc[e].customer, doc[e].currency)
    BY <2>1, <2>2 DEF InitialPaymentPolicy
  <2> QED
    BY <1>1, <1>2, <2>3 DEF RequiresFullSettlement, GrantOf
<1>5. CASE Delivered(e)
  <2>1. PICK role \in Roles, pay \in Amounts :
           /\ money'[e].paid = money[e].paid + pay /\ snap'[e].by = role
           /\ ConducePaymentPolicy(doc[e].customer, doc[e].currency, role, doc[e].gross, pay)
           /\ num'[e] = [num[e] EXCEPT !["CON"] = seq["CON"]]
    BY <1>5 DEF Delivered, Granted
  <2>2. pay # doc[e].gross
    BY <1>1, <1>2, <1>3, <2>1
  <2>3. num'[e]["CON"] # 0
    BY <1>2, <2>1 DEF Series
  <2>4. CASE role = "ADMINISTRATOR" /\ NamedCash(doc[e].customer)
    BY <1>1, <2>1, <2>3, <2>4 DEF NamedCash, GrantOf
  <2>5. CASE ~RequiresFullSettlement(doc[e].customer, doc[e].currency)
    BY <1>1, <1>2, <2>5 DEF RequiresFullSettlement, GrantOf
  <2> QED
    BY <2>1, <2>2, <2>4, <2>5 DEF ConducePaymentPolicy, InitialPaymentPolicy
<1> QED
  BY <1>4, <1>5

\* The due date of recognition is the day itself, the frozen term later, or the date an
\* administrator set for a named cash customer's conduce (resolveConduceDueDate).
LEMMA RecognitionTerms ==
    ASSUME TypeOK, NEW e \in Docs, Sold(e) \/ Delivered(e)
    PROVE  TermsOf(e)'
<1>1. /\ doc'[e].customer = doc[e].customer /\ doc'[e].currency = doc[e].currency
      /\ snap'[e].type = cust[doc[e].customer].type
      /\ snap'[e].term = cust[doc[e].customer].term /\ snap'[e].confirmedAt = today
  BY DEF Sold, Delivered, Granted, SameDeal
<1>2. /\ today \in Nat \ {0} /\ seq["CON"] \in Nat \ {0} /\ num[e] \in [Series -> Nat]
      /\ doc[e].gross \in Nat /\ Amounts \subseteq Nat /\ Days \subseteq Nat
      /\ cust[doc[e].customer].term \in Nat
  BY RowTypes, ProfileType, ConstantTypes DEF TypeOK, Series
<1>3. CASE snap'[e].dueDate = today + TermDays(doc[e].customer, doc[e].currency)
  BY <1>1, <1>2, <1>3 DEF TermDays, TermsOf
<1>4. CASE Sold(e)
  BY <1>3, <1>4 DEF Sold, Granted
<1>5. CASE Delivered(e)
  <2>1. PICK role \in Roles, pay \in Amounts, asked \in Days \cup {0} :
           /\ snap'[e].by = role
           /\ snap'[e].dueDate = ConduceDueDate(doc[e].customer, doc[e].currency, asked)
           /\ ConduceDueDateAllowed(doc[e].customer, role, doc[e].gross - pay, asked)
           /\ num'[e] = [num[e] EXCEPT !["CON"] = seq["CON"]]
    BY <1>5 DEF Delivered, Granted
  <2>2. num'[e]["CON"] # 0
    BY <1>2, <2>1 DEF Series
  <2>3. CASE asked = 0
    BY <1>3, <2>1, <2>3 DEF ConduceDueDate
  <2>4. CASE asked # 0
    <3>1. /\ role = "ADMINISTRATOR" /\ NamedCash(doc[e].customer) /\ asked >= today
          /\ snap'[e].dueDate = asked /\ asked \in Nat
      BY <1>2, <2>1, <2>4 DEF ConduceDueDateAllowed, ConduceDueDate
    <3> QED
      BY <1>1, <1>2, <2>1, <2>2, <3>1 DEF NamedCash, TermsOf
  <2> QED
    BY <2>3, <2>4
<1> QED
  BY <1>4, <1>5

\* After recognition nobody touches the grant: a conversion, a payment, a cancellation
\* and an edit of the customer leave it as it was.
LEMMA GrantKept ==
    ASSUME TypeOK, NEW e \in Docs, Kept(e) \/ Invoiced(e) \/ Collected(e) \/ Closed(e)
    PROVE  /\ GrantOf(e) => GrantOf(e)'
           /\ TermsOf(e) => TermsOf(e)'
           /\ Balance(e)' > 0 => Balance(e) > 0
           /\ doc'[e].status \in Recognised => doc[e].status \in Recognised
           /\ doc'[e].customer = doc[e].customer /\ snap'[e].type = snap[e].type
<1>1. /\ snap[e] \in SnapType /\ num[e] \in [Series -> Nat] /\ money[e].paid \in Nat
      /\ doc[e].gross \in Nat
  BY RowTypes
<1>2. CASE Kept(e)
  BY <1>2 DEF Kept, GrantOf, TermsOf, Balance
<1>3. CASE Invoiced(e)
  <2>1. /\ SameTerms(e) /\ num'[e]["CON"] = num[e]["CON"]
    BY <1>1, <1>3 DEF Invoiced, SnapType, SameTerms, Series
  <2>2. doc[e].status \in Recognised
    BY <1>3 DEF Invoiced, Recognised
  <2> QED
    BY <1>3, <2>1, <2>2 DEF Invoiced, SameTerms, SameDeal, GrantOf, TermsOf, Balance
<1>4. CASE Collected(e)
  <2>1. Balance(e)' > 0 => Balance(e) > 0
    <3>1. /\ money'[e].paid \in Nat /\ money'[e].paid >= money[e].paid
          /\ doc'[e] = doc[e]
      BY <1>4 DEF Collected
    <3> HAVE Balance(e)' > 0
    <3>2. doc[e].gross > money'[e].paid /\ doc[e].status \in Recognised
      BY <3>1 DEF Balance
    <3>3. doc[e].gross > money[e].paid
      BY <1>1, <3>1, <3>2
    <3> QED
      BY <1>1, <3>2, <3>3 DEF Balance
  <2> QED
    BY <1>4, <2>1 DEF Collected, GrantOf, TermsOf
<1>5. CASE Closed(e)
  <2>1. ~(doc'[e].status \in Recognised)
    BY <1>5 DEF Closed, Recognised
  <2> QED
    BY <1>5, <2>1 DEF Closed, SameDeal, GrantOf, TermsOf, Balance
<1> QED
  BY <1>2, <1>3, <1>4, <1>5

\* Every handler keeps what credit was granted and grants only what the rules allow.
LEMMA CreditStep ==
    ASSUME TypeOK, MoneyBounded, CreditHonoured, OneDocument \/ NoDocument
    PROVE  CreditHonoured'
<1> SUFFICES ASSUME NEW e \in Docs
             PROVE  /\ Balance(e)' > 0 => GrantOf(e)'
                    /\ doc'[e].status \in Recognised => TermsOf(e)'
  BY DEF CreditHonoured, OpenBalanceAuthorised, TermsHonoured, GrantOf, TermsOf
<1>1. /\ Balance(e) > 0 => GrantOf(e)
      /\ doc[e].status \in Recognised => TermsOf(e)
  BY DEF CreditHonoured, OpenBalanceAuthorised, TermsHonoured, GrantOf, TermsOf
<1>2. CASE NoDocument
  BY <1>1, <1>2 DEF NoDocument, Balance, GrantOf, TermsOf
<1>3. CASE Kept(e) \/ Invoiced(e) \/ Collected(e) \/ Closed(e)
  BY <1>1, <1>3, GrantKept
<1>4. CASE Edited(e) \/ Quoted(e)
  <2>1. ~(doc'[e].status \in Recognised)
    BY <1>4 DEF Edited, Quoted, Recognised, Editable
  <2> QED
    BY <2>1 DEF Balance
<1>5. CASE Sold(e) \/ Delivered(e)
  BY <1>5, RecognitionGrants, RecognitionTerms
<1> QED
  BY <1>2, <1>3, <1>4, <1>5 DEF OneDocument, Changed

\* An open sale was granted by the rules, and is due when they say, at any later time:
\* after payments, after the conduce has become an invoice, after the customer was
\* reclassified (credit-confirmation.ts). The invariant is inductive with MoneyBounded,
\* which says that nothing was received before recognition.
THEOREM CreditIsHonoured == Spec => []CreditHonoured
<1>1. Init => CreditHonoured
  BY DEF Init, CreditHonoured, OpenBalanceAuthorised, TermsHonoured, NoDoc, Balance, Recognised
<1>2. TypeOK /\ MoneyBounded /\ CreditHonoured /\ [Next]_vars => CreditHonoured'
  BY StepEffect, CreditStep
<1> QED
  BY <1>1, <1>2, TypeCorrect, MoneyIsBounded, PTL DEF Spec

\* Nobody becomes a cash customer with a balance granted on credit left open: the check
\* of CustomerService.update looks at the customer's open sales in pesos, and by
\* OpenBalanceAuthorised a balance in dollars was not granted on credit.
THEOREM CreditIsNotLeftBehind == Spec => []NoCreditLeftBehind
<1> DEFINE Left(e) == (Balance(e) > 0 /\ cust[doc[e].customer].type = "CASH")
                        => snap[e].type = "CASH"
<1>1. Init => NoCreditLeftBehind
  BY DEF Init, NoCreditLeftBehind, NoDoc, Balance, Recognised
<1>2. TypeOK /\ MoneyBounded /\ CreditHonoured /\ NoCreditLeftBehind /\ [Next]_vars
        => NoCreditLeftBehind'
  <2> SUFFICES ASSUME TypeOK, MoneyBounded, CreditHonoured, NoCreditLeftBehind, [Next]_vars,
                      NEW e \in Docs
               PROVE  Left(e)'
    BY DEF NoCreditLeftBehind
  <2>1. Left(e) /\ doc[e].customer \in Customers /\ cust \in [Customers -> Profiles]
    BY RowTypes DEF NoCreditLeftBehind, TypeOK
  <2>2. ASSUME NEW c \in Customers, NEW role \in Roles, NEW profile \in Profiles,
               UpdateCustomer(c, role, profile)
        PROVE  Left(e)'
    <3>1. /\ cust' = [cust EXCEPT ![c] = profile] /\ UNCHANGED <<doc, snap, money>>
          /\ (cust[c].type = "CREDIT" /\ profile.type = "CASH")
                => \A d \in DopSales(c) : Balance(d) = 0
      BY <2>2 DEF UpdateCustomer
    <3>2. Balance(e)' = Balance(e) /\ snap'[e] = snap[e] /\ doc'[e] = doc[e]
      BY <3>1 DEF Balance
    <3>3. CASE doc[e].customer # c
      <4>1. cust'[doc[e].customer] = cust[doc[e].customer]
        BY <2>1, <3>1, <3>3
      <4> QED
        BY <2>1, <3>2, <4>1
    <3>4. CASE doc[e].customer = c /\ cust[c].type = "CASH"
      BY <2>1, <3>2, <3>4
    <3>5. CASE doc[e].customer = c /\ cust[c].type = "CREDIT"
      <4> SUFFICES ASSUME Balance(e) > 0, profile.type = "CASH" PROVE snap[e].type = "CASH"
        BY <2>1, <3>1, <3>2, <3>5
      <4>1. GrantOf(e)
        BY DEF CreditHonoured, OpenBalanceAuthorised, GrantOf
      <4>2. e \notin DopSales(c)
        BY <3>1, <3>5
      <4>3. doc[e].currency # "DOP"
        BY <3>5, <4>2, BalanceFacts DEF DopSales
      <4> QED
        BY <4>1, <4>3 DEF GrantOf
    <3> QED
      BY <2>1, <3>3, <3>4, <3>5, ProfileType
  <2>3. CASE cust' = cust
    <3>1. OneDocument \/ NoDocument
      BY StepEffect
    <3>2. CASE NoDocument
      BY <2>1, <2>3, <3>2 DEF NoDocument, Balance
    <3>3. CASE Kept(e) \/ Invoiced(e) \/ Collected(e) \/ Closed(e)
      <4>1. /\ Balance(e)' > 0 => Balance(e) > 0
            /\ doc'[e].customer = doc[e].customer /\ snap'[e].type = snap[e].type
        BY <3>3, GrantKept
      <4> QED
        BY <2>1, <2>3, <4>1
    <3>4. CASE Edited(e) \/ Quoted(e)
      <4>1. ~(doc'[e].status \in Recognised)
        BY <3>4 DEF Edited, Quoted, Recognised, Editable
      <4> QED
        BY <4>1 DEF Balance
    <3>5. CASE Sold(e) \/ Delivered(e)
      <4>1. /\ snap'[e].type = cust[doc[e].customer].type
            /\ doc'[e].customer = doc[e].customer
        BY <3>5 DEF Sold, Delivered, Granted, SameDeal
      <4> QED
        BY <2>3, <4>1
    <3> QED
      BY <3>1, <3>2, <3>3, <3>4, <3>5 DEF OneDocument, Changed
  <2> QED
    BY <2>2, <2>3, StepEffect
<1> QED
  BY <1>1, <1>2, TypeCorrect, MoneyIsBounded, CreditIsHonoured, PTL DEF Spec

-----------------------------------------------------------------------------
(* Recognition is final *)

\* What RecognitionFinal asks of one document in one step.
FinalFor(d) ==
    /\ doc[d].status \in Recognised \cup {"CANCELLED"} => Frozen(d)' = Frozen(d)
    /\ doc[d].status = "CONDUCE" => doc'[d].status \in Recognised \cup {"CANCELLED"}
    /\ doc[d].status = "COMPLETED" => /\ doc'[d].status \in {"COMPLETED", "CANCELLED"}
                                      /\ doc'[d].fiscal = doc[d].fiscal
    /\ doc[d].status = "CANCELLED" => doc'[d] = doc[d] /\ money'[d] = money[d]
    /\ num[d]["FAC"] # 0 => num'[d] = num[d] /\ snap'[d] = snap[d]

\* A document that still has no invoice number is in any status but COMPLETED.
LEMMA NoInvoiceYet ==
    ASSUME RowShape, NEW d \in Docs,
           doc[d].status \in Editable \cup {"NONE", "QUOTE_ISSUED", "CONDUCE"}
    PROVE  num[d]["FAC"] = 0
<1>1. ShapeOf(d)
  BY RowShapeIsOfEach
<1> QED
  BY <1>1 DEF ShapeOf, Series

\* No handler goes back on a recognition.
LEMMA FinalStep ==
    ASSUME TypeOK, RowShape, NEW d \in Docs, OneDocument \/ NoDocument
    PROVE  FinalFor(d)
<1>1. snap[d] \in SnapType /\ num[d] \in [Series -> Nat]
  BY RowTypes
<1>2. CASE NoDocument
  BY <1>2 DEF NoDocument, FinalFor, Frozen, Recognised
<1>3. CASE Kept(d)
  BY <1>3 DEF Kept, FinalFor, Frozen, Recognised
<1>4. CASE Edited(d) \/ Quoted(d) \/ Sold(d) \/ Delivered(d)
  <2>1. doc[d].status \in Editable \cup {"NONE", "QUOTE_ISSUED"}
    BY <1>4 DEF Edited, Quoted, Sold, Delivered, Granted, Editable
  <2>2. num[d]["FAC"] = 0
    BY <2>1, NoInvoiceYet
  <2> QED
    BY <2>1, <2>2 DEF FinalFor, Recognised, Editable
<1>5. CASE Invoiced(d)
  <2>1. num[d]["FAC"] = 0
    BY <1>5, NoInvoiceYet DEF Invoiced
  <2>2. /\ num'[d]["CON"] = num[d]["CON"] /\ num'[d]["COT"] = num[d]["COT"]
        /\ [snap'[d] EXCEPT !.issuedAt = 0] = [snap[d] EXCEPT !.issuedAt = 0]
    BY <1>1, <1>5 DEF Invoiced, Series, SnapType
  <2>3. Frozen(d)' = Frozen(d)
    BY <1>5, <2>2 DEF Invoiced, SameDeal, Frozen
  <2> QED
    BY <1>5, <2>1, <2>3 DEF Invoiced, FinalFor, Recognised
<1>6. CASE Collected(d)
  BY <1>6 DEF Collected, FinalFor, Frozen, Recognised
<1>7. CASE Closed(d)
  BY <1>7 DEF Closed, SameDeal, FinalFor, Frozen, Recognised
<1> QED
  BY <1>2, <1>3, <1>4, <1>5, <1>6, <1>7 DEF OneDocument, Changed

\* Whatever sequence of handlers follows, what was recognised is never rewritten, never
\* goes back to a draft or a quote, and a cancelled document is final
\* (assertEditableStatus and the status checks of convert, addPayment and cancel).
THEOREM RecognitionIsFinal == Spec => RecognitionFinal
<1>1. TypeOK /\ RowShape /\ [Next]_vars
        => [\A d \in Docs :
             /\ doc[d].status \in Recognised \cup {"CANCELLED"} => Frozen(d)' = Frozen(d)
             /\ doc[d].status = "CONDUCE" => doc'[d].status \in Recognised \cup {"CANCELLED"}
             /\ doc[d].status = "COMPLETED" => /\ doc'[d].status \in {"COMPLETED", "CANCELLED"}
                                               /\ doc'[d].fiscal = doc[d].fiscal
             /\ doc[d].status = "CANCELLED" => doc'[d] = doc[d] /\ money'[d] = money[d]
             /\ num[d]["FAC"] # 0 => num'[d] = num[d] /\ snap'[d] = snap[d]]_vars
  BY StepEffect, FinalStep DEF FinalFor
<1> QED
  BY <1>1, TypeCorrect, RowsAreWellShaped, PTL DEF Spec, RecognitionFinal

-----------------------------------------------------------------------------
(* Numbers and dates *)

\* What two documents owe the order of their numbers.
InOrder(d, e) ==
    /\ (0 < num[d]["FAC"] /\ num[d]["FAC"] < num[e]["FAC"])
         => snap[d].issuedAt <= snap[e].issuedAt
    /\ (0 < num[d]["CON"] /\ num[d]["CON"] < num[e]["CON"])
         => snap[d].confirmedAt <= snap[e].confirmedAt
    /\ (0 < num[d]["COT"] /\ num[d]["COT"] < num[e]["COT"])
         => snap[d].expires <= snap[e].expires

\* What a step does to the number and to the date of one series: nothing, or the next
\* number with the date of now.
Dated(e, s, was, is, latest) ==
    \/ num'[e][s] = num[e][s] /\ (num[e][s] # 0 => is = was)
    \/ num'[e][s] = seq[s] /\ is = latest

\* Each way a document changes dates the number it draws with today.
LEMMA DatedStep ==
    ASSUME TypeOK, RowShape, NEW e \in Docs, Kept(e) \/ Changed(e)
    PROVE  /\ Dated(e, "FAC", snap[e].issuedAt, snap'[e].issuedAt, today)
           /\ Dated(e, "CON", snap[e].confirmedAt, snap'[e].confirmedAt, today)
           /\ Dated(e, "COT", snap[e].expires, snap'[e].expires, today + QuoteValidity)
<1>1. snap[e] \in SnapType /\ num[e] \in [Series -> Nat]
  BY RowTypes
<1>2. ShapeOf(e)
  BY RowShapeIsOfEach
<1>3. CASE Kept(e) \/ Edited(e) \/ Collected(e) \/ Closed(e)
  BY <1>3 DEF Kept, Edited, Collected, Closed, Dated
<1>4. CASE Quoted(e)
  BY <1>1, <1>4 DEF Quoted, SameTerms, Dated, Series
<1>5. CASE Sold(e) \/ Delivered(e)
  <2>1. /\ num[e]["CON"] = 0 /\ num[e]["FAC"] = 0
        /\ snap'[e].confirmedAt = today /\ snap'[e].expires = snap[e].expires
    <3>1. doc[e].status \in {"DRAFT", "QUOTE_ISSUED"}
      BY <1>5 DEF Sold, Delivered, Granted
    <3>2. CASE doc[e].status = "DRAFT"
      BY <1>2, <1>5, <3>2 DEF ShapeOf, Editable, Series, Sold, Delivered, Granted
    <3>3. CASE doc[e].status = "QUOTE_ISSUED"
      BY <1>2, <1>5, <3>3 DEF ShapeOf, Sold, Delivered, Granted
    <3> QED
      BY <3>1, <3>2, <3>3
  <2>2. CASE Sold(e)
    <3>1. /\ num'[e]["FAC"] = seq["FAC"] /\ num'[e]["CON"] = num[e]["CON"]
          /\ num'[e]["COT"] = num[e]["COT"] /\ snap'[e].issuedAt = today
      BY <1>1, <2>2 DEF Sold, Series
    <3> QED
      BY <2>1, <3>1 DEF Dated
  <2>3. CASE Delivered(e)
    <3>1. /\ num'[e]["CON"] = seq["CON"] /\ num'[e]["FAC"] = num[e]["FAC"]
          /\ num'[e]["COT"] = num[e]["COT"] /\ snap'[e].issuedAt = snap[e].issuedAt
      BY <1>1, <2>3 DEF Delivered, Series
    <3> QED
      BY <2>1, <3>1 DEF Dated
  <2> QED
    BY <1>5, <2>2, <2>3
<1>6. CASE Invoiced(e)
  <2>1. /\ num'[e]["FAC"] = seq["FAC"] /\ num'[e]["CON"] = num[e]["CON"]
        /\ num'[e]["COT"] = num[e]["COT"]
    BY <1>1, <1>6 DEF Invoiced, Series
  <2>2. /\ snap'[e].issuedAt = today /\ snap'[e].expires = snap[e].expires
        /\ snap'[e].confirmedAt = snap[e].confirmedAt
    BY <1>1, <1>6 DEF Invoiced, SnapType
  <2> QED
    BY <2>1, <2>2 DEF Dated
<1> QED
  BY <1>3, <1>4, <1>5, <1>6 DEF Changed

\* The step shared by the three series: the next number is above all others and its date
\* is not before theirs.
LEMMA OrderStep ==
    ASSUME NEW s \in Series, NEW d \in Docs, NEW e \in Docs, NEW was1 \in Nat, NEW was2 \in Nat,
           NEW is1, NEW is2, NEW latest \in Nat,
           num[d][s] \in Nat, num[e][s] \in Nat, seq[s] \in Nat,
           num[d][s] < seq[s], num[e][s] < seq[s],
           was1 <= latest, was2 <= latest,
           Dated(d, s, was1, is1, latest), Dated(e, s, was2, is2, latest),
           (0 < num[d][s] /\ num[d][s] < num[e][s]) => was1 <= was2
    PROVE  (0 < num'[d][s] /\ num'[d][s] < num'[e][s]) => is1 <= is2
<1> SUFFICES ASSUME 0 < num'[d][s], num'[d][s] < num'[e][s] PROVE is1 <= is2
  OBVIOUS
<1>1. CASE num'[d][s] = seq[s] /\ is1 = latest
  BY <1>1 DEF Dated
<1>2. CASE num'[d][s] = num[d][s] /\ (num[d][s] # 0 => is1 = was1)
  BY <1>2 DEF Dated
<1> QED
  BY <1>1, <1>2 DEF Dated

\* Quotes, conduces and invoices are numbered in the order of their documentary dates,
\* although an invoice may come from a conduce recognised days before: the conversion
\* dates it with its own day (invoiceIssuedAt).
THEOREM NumbersFollowDates == Spec => []NumbersChronological
<1>1. Init => NumbersChronological
  BY DEF Init, NumbersChronological, Series
<1>2. /\ TypeOK /\ RowShape /\ DatesPast /\ NumbersSound /\ NumbersChronological
      /\ [Next]_vars
      => NumbersChronological'
  <2> SUFFICES ASSUME TypeOK, RowShape, DatesPast, NumbersSound, NumbersChronological,
                      [Next]_vars, NEW d \in Docs, NEW e \in Docs
               PROVE  InOrder(d, e)'
    BY DEF NumbersChronological, InOrder
  <2>1. InOrder(d, e)
    BY DEF NumbersChronological, InOrder
  <2>2. CASE NoDocument
    BY <2>1, <2>2 DEF NoDocument, InOrder
  <2>3. CASE OneDocument
    <3>1. (Kept(d) \/ Changed(d)) /\ (Kept(e) \/ Changed(e))
      BY <2>3 DEF OneDocument
    <3>2. /\ num[d] \in [Series -> Nat] /\ num[e] \in [Series -> Nat]
          /\ seq \in [Series -> Nat \ {0}] /\ today \in Nat /\ QuoteValidity \in Nat
          /\ snap[d] \in SnapType /\ snap[e] \in SnapType
      BY RowTypes, ConstantTypes DEF TypeOK
    <3>3. \A s \in Series : /\ num[d][s] < seq[s] /\ num[e][s] < seq[s]
                            /\ num[d][s] \in Nat /\ num[e][s] \in Nat /\ seq[s] \in Nat
      BY <3>2 DEF NumbersSound
    <3>4. /\ snap[d].issuedAt <= today /\ snap[e].issuedAt <= today
          /\ snap[d].confirmedAt <= today /\ snap[e].confirmedAt <= today
          /\ snap[d].expires <= today + QuoteValidity /\ snap[e].expires <= today + QuoteValidity
      BY DEF DatesPast
    <3>5. /\ snap[d].issuedAt \in Nat /\ snap[e].issuedAt \in Nat
          /\ snap[d].confirmedAt \in Nat /\ snap[e].confirmedAt \in Nat
          /\ snap[d].expires \in Nat /\ snap[e].expires \in Nat
          /\ today + QuoteValidity \in Nat
          /\ "FAC" \in Series /\ "CON" \in Series /\ "COT" \in Series
      BY <3>2 DEF SnapType, Series
    <3>6. (0 < num'[d]["FAC"] /\ num'[d]["FAC"] < num'[e]["FAC"])
            => snap'[d].issuedAt <= snap'[e].issuedAt
      BY <2>1, <3>1, <3>2, <3>3, <3>4, <3>5, DatedStep, OrderStep DEF InOrder
    <3>7. (0 < num'[d]["CON"] /\ num'[d]["CON"] < num'[e]["CON"])
            => snap'[d].confirmedAt <= snap'[e].confirmedAt
      BY <2>1, <3>1, <3>2, <3>3, <3>4, <3>5, DatedStep, OrderStep DEF InOrder
    <3>8. (0 < num'[d]["COT"] /\ num'[d]["COT"] < num'[e]["COT"])
            => snap'[d].expires <= snap'[e].expires
      BY <2>1, <3>1, <3>2, <3>3, <3>4, <3>5, DatedStep, OrderStep DEF InOrder
    <3> QED
      BY <3>6, <3>7, <3>8 DEF InOrder
  <2> QED
    BY <2>2, <2>3, StepEffect
<1> QED
  BY <1>1, <1>2, TypeCorrect, RowsAndDates, NumbersAreSound, PTL DEF Spec

-----------------------------------------------------------------------------
(* What customers owe                                                      *)

Balances == [d \in Docs |-> Balance(d)]

\* The balances of some sales added up in the order the code meets them are their count.
LEMMA SumOfBalances ==
    ASSUME TypeOK, NEW S \in SUBSET Docs
    PROVE  MapThenSumSet(Balance, S) = Count(S, Balances)
<1> DEFINE it == CHOOSE i : i = [s \in SUBSET S |->
                    IF s = {} THEN 0
                    ELSE Balance(CHOOSE x \in s : TRUE) + i[s \ {CHOOSE x \in s : TRUE}]]
<1>1. MapThenSumSet(Balance, S) = it[S]
  BY DEF MapThenSumSet, MapThenFoldSet
<1>2. IsFiniteSet(S) /\ \A x \in S : Balances[x] \in Nat
  BY SalesAssumptions, FS_Subset, BalanceFacts DEF Balances
<1>3. \A i : Folding(S, Balances, i) <=>
             i = [s \in SUBSET S |->
                    IF s = {} THEN 0
                    ELSE Balance(CHOOSE x \in s : TRUE) + i[s \ {CHOOSE x \in s : TRUE}]]
  <2> TAKE i
  <2>1. \A s \in SUBSET S : s # {} =>
            Balances[CHOOSE x \in s : TRUE] = Balance(CHOOSE x \in s : TRUE)
    BY DEF Balances
  <2>2. [s \in SUBSET S |->
            IF s = {} THEN 0
            ELSE Balances[CHOOSE x \in s : TRUE] + i[s \ {CHOOSE x \in s : TRUE}]]
          = [s \in SUBSET S |->
            IF s = {} THEN 0
            ELSE Balance(CHOOSE x \in s : TRUE) + i[s \ {CHOOSE x \in s : TRUE}]]
    BY <2>1
  <2> QED BY <2>2 DEF Folding
<1>4. \E i : Folding(S, Balances, i)
  BY <1>2, FoldingExists
<1>5. Folding(S, Balances, it)
  BY <1>3, <1>4
<1> HIDE DEF it
<1> QED BY <1>1, <1>2, <1>5, FoldingCounts

LEMMA ExposureCounts ==
    ASSUME TypeOK, NEW c \in Customers
    PROVE  Exposure(c) = Count(DopSales(c), Balances)
BY SumOfBalances DEF Exposure, DopSales

LEMMA NextExposureCounts ==
    ASSUME TypeOK', NEW c \in Customers
    PROVE  Exposure(c)' = Count(DopSales(c)', Balances')
<1>1. (Exposure(c) = Count(DopSales(c), Balances))'
  BY TypeOK', ExposureCounts, PTL
<1> QED BY <1>1

LEMMA NextBalance == ASSUME TypeOK', NEW d \in Docs PROVE Balance(d)' \in Nat
<1>1. doc'[d] \in DocType /\ money'[d].paid \in Nat
  BY TypeOK' DEF TypeOK
<1>2. doc'[d].gross \in Nat
  BY <1>1, ConstantTypes DEF DocType
<1> QED BY <1>1, <1>2 DEF Balance

\* What a customer owes, with one document apart.
OwedBut(c, d) == Count(DopSales(c) \ {d}, Balances)

LEMMA ExposureApart ==
    ASSUME TypeOK, NEW c \in Customers, NEW d \in Docs
    PROVE  /\ OwedBut(c, d) \in Nat
           /\ d \in DopSales(c) => Exposure(c) = Balance(d) + OwedBut(c, d)
           /\ d \notin DopSales(c) => Exposure(c) = OwedBut(c, d)
<1>1. DopSales(c) \subseteq Docs
  BY DEF DopSales
<1>2. \A S \in SUBSET Docs : IsFiniteSet(S) /\ \A x \in S : Balances[x] \in Nat
  BY SalesAssumptions, FS_Subset, BalanceFacts DEF Balances
<1>3. OwedBut(c, d) \in Nat
  BY <1>1, <1>2, CountIsNatural DEF OwedBut
<1>4. CASE d \in DopSales(c)
  <2>1. Count(DopSales(c), Balances) = Balances[d] + OwedBut(c, d)
    BY <1>1, <1>2, <1>4, CountOfOneMore DEF OwedBut
  <2> QED BY <1>3, <1>4, <2>1, ExposureCounts DEF Balances
<1>5. CASE d \notin DopSales(c)
  <2>1. DopSales(c) \ {d} = DopSales(c)
    BY <1>5
  <2> QED BY <1>3, <1>5, <2>1, ExposureCounts DEF OwedBut
<1> QED BY <1>4, <1>5

LEMMA NextExposureApart ==
    ASSUME TypeOK', NEW c \in Customers, NEW d \in Docs
    PROVE  /\ OwedBut(c, d)' \in Nat
           /\ d \in DopSales(c)' => Exposure(c)' = Balance(d)' + OwedBut(c, d)'
           /\ d \notin DopSales(c)' => Exposure(c)' = OwedBut(c, d)'
<1>1. (/\ OwedBut(c, d) \in Nat
       /\ d \in DopSales(c) => Exposure(c) = Balance(d) + OwedBut(c, d)
       /\ d \notin DopSales(c) => Exposure(c) = OwedBut(c, d))'
  BY TypeOK', ExposureApart, PTL
<1> QED BY <1>1

\* A step that keeps every document but one keeps what the customer owes for the others.
LEMMA OthersOweTheSame ==
    ASSUME NEW c \in Customers, NEW d \in Docs, \A e \in Docs : e # d => Kept(e)
    PROVE  OwedBut(c, d)' = OwedBut(c, d)
<1>1. DopSales(c)' \ {d} = DopSales(c) \ {d}
  BY DEF DopSales, Kept
<1>2. \A e \in DopSales(c) \ {d} : Balances'[e] = Balances[e]
  BY DEF DopSales, Kept, Balances, Balance
<1>3. Count(DopSales(c) \ {d}, Balances') = Count(DopSales(c) \ {d}, Balances)
  BY <1>2, CountOfSame
<1> QED BY <1>1, <1>3 DEF OwedBut

\* A document that was recognised before owes its customer no more than it did.
LEMMA OldDebtOnlyFalls ==
    ASSUME TypeOK, TypeOK', NEW d \in Docs, NEW c \in Customers,
           Invoiced(d) \/ Collected(d) \/ Closed(d)
    PROVE  /\ d \in DopSales(c)' => d \in DopSales(c)
           /\ Balance(d)' <= Balance(d)
<1>1. /\ money[d].paid \in Nat /\ doc[d].gross \in Nat
      /\ money'[d].paid \in Nat
  BY RowTypes, TypeOK' DEF TypeOK
<1>2. /\ doc'[d].customer = doc[d].customer /\ doc'[d].currency = doc[d].currency
      /\ doc'[d].gross = doc[d].gross
      /\ doc[d].status \in Recognised
  BY DEF Invoiced, Collected, Closed, SameDeal, Recognised
<1>3. doc'[d].status \in Recognised => money'[d].paid >= money[d].paid
  BY <1>1 DEF Invoiced, Collected, Closed, Recognised
<1> QED BY <1>1, <1>2, <1>3 DEF DopSales, Balance

\* Recognition compares with the limit what the customer owed and the new balance
\* (assertWithinCreditLimit).
LEMMA NewDebtIsWithinLimit ==
    ASSUME TypeOK, MoneyBounded, NEW d \in Docs, Sold(d) \/ Delivered(d),
           NEW c \in Customers, d \in DopSales(c)', Balance(d)' > 0, cust[c].type = "CREDIT"
    PROVE  d \notin DopSales(c) /\ Exposure(c) + Balance(d)' <= cust[c].limit
<1>1. PICK pay \in Amounts :
        /\ WithinCreditLimit(doc[d].customer, doc[d].currency, doc[d].gross - pay)
        /\ money'[d].paid = money[d].paid + pay
        /\ pay <= doc[d].gross
  BY DEF Sold, Delivered, Granted
<1>2. /\ doc'[d].customer = doc[d].customer /\ doc'[d].currency = doc[d].currency
      /\ doc'[d].gross = doc[d].gross
      /\ doc[d].status \in {"DRAFT", "QUOTE_ISSUED"}
  BY DEF Sold, Delivered, Granted, SameDeal
<1>3. /\ money[d].paid = 0 /\ doc[d].gross \in Nat /\ pay \in Nat
  BY <1>2, NoMoneyYet, RowTypes, ConstantTypes
<1>4. Balance(d)' = doc[d].gross - pay
  BY <1>1, <1>2, <1>3 DEF Balance
<1>5. doc[d].customer = c /\ doc[d].currency = "DOP"
  BY <1>2 DEF DopSales
<1>6. Exposure(c) + (doc[d].gross - pay) <= cust[c].limit
  BY <1>1, <1>4, <1>5 DEF WithinCreditLimit
<1>7. d \notin DopSales(c)
  BY <1>2 DEF DopSales, Recognised
<1> QED BY <1>4, <1>6, <1>7

\* What a CREDIT customer owes over all documents grows only up to the limit, whichever
\* handler makes it grow (assertWithinCreditLimit, findCompletedInvoicesWithPayments).
THEOREM CreditStaysWithinLimit == Spec => ExposureGrowsWithinLimit
<1>1. ASSUME TypeOK, TypeOK', MoneyBounded, [Next]_vars,
             NEW c \in Customers, cust[c].type = "CREDIT", Exposure(c)' > Exposure(c)
      PROVE  Exposure(c)' <= cust[c].limit
  <2>1. CASE NoDocument
    <3>1. DopSales(c)' = DopSales(c) /\ Balances' = Balances
      BY <2>1 DEF NoDocument, DopSales, Balances, Balance
    <3>2. Exposure(c)' = Exposure(c)
      BY <1>1, <3>1, ExposureCounts, NextExposureCounts
    <3>3. Exposure(c) \in Nat
      <4>1. DopSales(c) \in SUBSET Docs
        BY DEF DopSales
      <4>2. IsFiniteSet(DopSales(c)) /\ \A x \in DopSales(c) : Balances[x] \in Nat
        BY <1>1, <4>1, SalesAssumptions, FS_Subset, BalanceFacts DEF Balances
      <4> QED BY <1>1, <4>2, CountIsNatural, ExposureCounts
    <3> QED BY <1>1, <3>2, <3>3
  <2>2. CASE OneDocument
    <3>1. PICK d \in Docs : Changed(d) /\ \A e \in Docs : e # d => Kept(e)
      BY <2>2 DEF OneDocument
    <3> DEFINE rest == OwedBut(c, d)
    <3>2. rest \in Nat /\ OwedBut(c, d)' = rest
      BY <1>1, <3>1, ExposureApart, OthersOweTheSame
    <3>3. /\ d \in DopSales(c) => Exposure(c) = Balance(d) + rest
          /\ d \notin DopSales(c) => Exposure(c) = rest
      BY <1>1, ExposureApart
    <3>4. /\ d \in DopSales(c)' => Exposure(c)' = Balance(d)' + rest
          /\ d \notin DopSales(c)' => Exposure(c)' = rest
      BY <1>1, <3>2, NextExposureApart
    <3>5. Balance(d) \in Nat
      BY <1>1, BalanceFacts
    <3>6. Balance(d)' \in Nat
      BY <1>1, NextBalance
    <3> HIDE DEF rest
    <3>7. d \in DopSales(c)'
      BY <1>1, <3>2, <3>3, <3>4, <3>5
    <3>8. ~(Edited(d) \/ Quoted(d))
      BY <3>7 DEF DopSales, Edited, Quoted, Recognised, Editable
    <3>9. ~(Invoiced(d) \/ Collected(d) \/ Closed(d))
      BY <1>1, <3>2, <3>3, <3>4, <3>5, <3>6, <3>7, OldDebtOnlyFalls
    <3>10. Sold(d) \/ Delivered(d)
      BY <3>1, <3>8, <3>9 DEF Changed
    <3>11. Balance(d)' > 0
      BY <1>1, <3>2, <3>3, <3>4, <3>5, <3>6, <3>7
    <3>12. d \notin DopSales(c) /\ Exposure(c) + Balance(d)' <= cust[c].limit
      BY <1>1, <3>7, <3>10, <3>11, NewDebtIsWithinLimit
    <3> QED BY <3>2, <3>3, <3>4, <3>6, <3>7, <3>12
  <2> QED BY <1>1, <2>1, <2>2, StepEffect
<1>2. TypeOK /\ TypeOK' /\ MoneyBounded /\ [Next]_vars =>
        [\A c \in Customers :
           (cust[c].type = "CREDIT" /\ Exposure(c)' > Exposure(c))
              => Exposure(c)' <= cust[c].limit]_vars
  BY <1>1
<1> QED
  BY <1>2, TypeCorrect, MoneyIsBounded, PTL DEF Spec, ExposureGrowsWithinLimit

-----------------------------------------------------------------------------
(* The movements of a sale *)

Unsold == {"NONE", "QUOTE_ISSUED"} \cup Editable

KeysOf(r, kind) == {k \in Keys : r[k].kind = kind}
AmountsOf(r) == [k \in Keys |-> r[k].amount]
Received(r) == Count(KeysOf(r, "PAYMENT"), AmountsOf(r))
GivenBack(r) == Count(KeysOf(r, "REFUND"), AmountsOf(r))

\* The rows of one sale are finitely many and are its money, and there are none until it
\* is recognised.
Booked(r, m) ==
    /\ IsFiniteSet(KeysOf(r, "PAYMENT")) /\ IsFiniteSet(KeysOf(r, "REFUND"))
    /\ m = [paid |-> Received(r), refunded |-> GivenBack(r)]

Blank(r) == \A k \in Keys : r[k] = NoRow

BooksOf(d) ==
    /\ Booked(rows[d], money[d])
    /\ doc[d].status \in Unsold => Blank(rows[d])

\* The amounts of the rows of one kind add up to their count.
LEMMA TotalCounts ==
    ASSUME NEW r \in [Keys -> RowType], NEW kind, IsFiniteSet(KeysOf(r, kind))
    PROVE  MapThenSumSet(LAMBDA k : r[k].amount, {k \in Keys : r[k].kind = kind})
             = Count(KeysOf(r, kind), AmountsOf(r))
<1> DEFINE S == KeysOf(r, kind)
           it == CHOOSE i : i = [s \in SUBSET S |->
                    IF s = {} THEN 0
                    ELSE r[CHOOSE x \in s : TRUE].amount + i[s \ {CHOOSE x \in s : TRUE}]]
<1>1. MapThenSumSet(LAMBDA k : r[k].amount, {k \in Keys : r[k].kind = kind}) = it[S]
  BY DEF MapThenSumSet, MapThenFoldSet, KeysOf
<1>2. IsFiniteSet(S) /\ \A x \in S : AmountsOf(r)[x] \in Nat
  BY DEF KeysOf, AmountsOf, RowType
<1>3. \A i : Folding(S, AmountsOf(r), i) <=>
             i = [s \in SUBSET S |->
                    IF s = {} THEN 0
                    ELSE r[CHOOSE x \in s : TRUE].amount + i[s \ {CHOOSE x \in s : TRUE}]]
  <2> TAKE i
  <2>1. \A s \in SUBSET S : s # {} =>
            AmountsOf(r)[CHOOSE x \in s : TRUE] = r[CHOOSE x \in s : TRUE].amount
    BY DEF AmountsOf, KeysOf
  <2>2. [s \in SUBSET S |->
            IF s = {} THEN 0
            ELSE AmountsOf(r)[CHOOSE x \in s : TRUE] + i[s \ {CHOOSE x \in s : TRUE}]]
          = [s \in SUBSET S |->
            IF s = {} THEN 0
            ELSE r[CHOOSE x \in s : TRUE].amount + i[s \ {CHOOSE x \in s : TRUE}]]
    BY <2>1
  <2> QED BY <2>2 DEF Folding
<1>4. \E i : Folding(S, AmountsOf(r), i)
  BY <1>2, FoldingExists
<1>5. Folding(S, AmountsOf(r), it)
  BY <1>3, <1>4
<1> HIDE DEF it
<1> QED BY <1>1, <1>2, <1>5, FoldingCounts

\* One row more, of some kind, under a key that had none.
LEMMA OneRowMore ==
    ASSUME NEW r \in [Keys -> RowType], NEW k \in Keys, r[k] = NoRow, NEW kind,
           NEW n \in Nat, NEW day, NEW q \in [Keys -> RowType],
           q[k] = [kind |-> kind, amount |-> n, day |-> day],
           \A j \in Keys : j # k => q[j] = r[j], kind # "NONE", IsFiniteSet(KeysOf(r, kind))
    PROVE  /\ IsFiniteSet(KeysOf(q, kind))
           /\ Count(KeysOf(q, kind), AmountsOf(q)) = Count(KeysOf(r, kind), AmountsOf(r)) + n
<1>1. k \notin KeysOf(r, kind)
  BY DEF KeysOf, NoRow
<1>2. /\ \A j \in KeysOf(r, kind) : AmountsOf(q)[j] = AmountsOf(r)[j]
      /\ \A j \in KeysOf(r, kind) : AmountsOf(r)[j] \in Nat
  BY <1>1 DEF KeysOf, AmountsOf, RowType
<1>3. AmountsOf(q)[k] = n
  BY DEF AmountsOf
<1>4. KeysOf(q, kind) = KeysOf(r, kind) \cup {k}
  BY DEF KeysOf, NoRow
<1>5. AmountsOf(q)[k] \in Nat /\ IsFiniteSet(KeysOf(r, kind))
  BY <1>3
<1>6. /\ IsFiniteSet(KeysOf(r, kind) \cup {k})
      /\ Count(KeysOf(r, kind) \cup {k}, AmountsOf(q))
           = Count(KeysOf(r, kind), AmountsOf(r)) + AmountsOf(q)[k]
  BY ONLY <1>1, <1>2, <1>5, CountOfAdded
<1> QED BY <1>3, <1>4, <1>6

LEMMA RowsOfOtherKinds ==
    ASSUME NEW r \in [Keys -> RowType], NEW k \in Keys, r[k] = NoRow, NEW kind,
           NEW q \in [Keys -> RowType], q[k].kind # kind,
           \A j \in Keys : j # k => q[j] = r[j], kind # "NONE"
    PROVE  /\ KeysOf(q, kind) = KeysOf(r, kind)
           /\ Count(KeysOf(q, kind), AmountsOf(q)) = Count(KeysOf(r, kind), AmountsOf(r))
<1>1. KeysOf(q, kind) = KeysOf(r, kind) /\ k \notin KeysOf(r, kind)
  BY DEF KeysOf, NoRow
<1>2. \A j \in KeysOf(r, kind) : AmountsOf(q)[j] = AmountsOf(r)[j]
  BY <1>1 DEF KeysOf, AmountsOf
<1> QED BY <1>1, <1>2, CountOfSame

LEMMA NoRowsAtFirst ==
    ASSUME NEW r, Blank(r)
    PROVE  Booked(r, [paid |-> 0, refunded |-> 0])
<1>1. KeysOf(r, "PAYMENT") = {} /\ KeysOf(r, "REFUND") = {}
  BY DEF KeysOf, Blank, NoRow
<1> QED BY <1>1, FS_EmptySet, CountOfNothing DEF Booked, Received, GivenBack

LEMMA PaymentIsBooked ==
    ASSUME NEW r \in [Keys -> RowType], NEW m, Booked(r, m), NEW k \in Keys, r[k] = NoRow,
           NEW n \in Nat, NEW day \in Nat
    PROVE  Booked([r EXCEPT ![k] = [kind |-> "PAYMENT", amount |-> n, day |-> day]],
                  [m EXCEPT !.paid = @ + n])
<1> DEFINE q == [r EXCEPT ![k] = [kind |-> "PAYMENT", amount |-> n, day |-> day]]
<1>1. /\ q \in [Keys -> RowType] /\ q[k] = [kind |-> "PAYMENT", amount |-> n, day |-> day]
      /\ \A j \in Keys : j # k => q[j] = r[j]
  BY DEF RowType
<1> HIDE DEF q
<1>2. IsFiniteSet(KeysOf(q, "PAYMENT")) /\ Received(q) = Received(r) + n
  BY <1>1, OneRowMore DEF Booked, Received
<1>3. KeysOf(q, "REFUND") = KeysOf(r, "REFUND") /\ GivenBack(q) = GivenBack(r)
  BY <1>1, RowsOfOtherKinds DEF Booked, GivenBack
<1>4. [m EXCEPT !.paid = @ + n] = [paid |-> Received(q), refunded |-> GivenBack(q)]
  BY <1>2, <1>3 DEF Booked
<1>5. Booked(q, [m EXCEPT !.paid = @ + n])
  BY <1>2, <1>3, <1>4 DEF Booked
<1> QED BY <1>5 DEF q

LEMMA RefundIsBooked ==
    ASSUME NEW r \in [Keys -> RowType], NEW m, Booked(r, m), NEW k \in Keys, r[k] = NoRow,
           NEW n \in Nat, NEW day \in Nat
    PROVE  Booked([r EXCEPT ![k] = [kind |-> "REFUND", amount |-> n, day |-> day]],
                  [m EXCEPT !.refunded = @ + n])
<1> DEFINE q == [r EXCEPT ![k] = [kind |-> "REFUND", amount |-> n, day |-> day]]
<1>1. /\ q \in [Keys -> RowType] /\ q[k] = [kind |-> "REFUND", amount |-> n, day |-> day]
      /\ \A j \in Keys : j # k => q[j] = r[j]
  BY DEF RowType
<1> HIDE DEF q
<1>2. IsFiniteSet(KeysOf(q, "REFUND")) /\ GivenBack(q) = GivenBack(r) + n
  BY <1>1, OneRowMore DEF Booked, GivenBack
<1>3. KeysOf(q, "PAYMENT") = KeysOf(r, "PAYMENT") /\ Received(q) = Received(r)
  BY <1>1, RowsOfOtherKinds DEF Booked, Received
<1>4. [m EXCEPT !.refunded = @ + n] = [paid |-> Received(q), refunded |-> GivenBack(q)]
  BY <1>2, <1>3 DEF Booked
<1>5. Booked(q, [m EXCEPT !.refunded = @ + n])
  BY <1>2, <1>3, <1>4 DEF Booked
<1> QED BY <1>5 DEF q

\* A step books one movement of one sale, or none.
Entry(d) ==
    \E k \in Keys, n \in Nat, day \in Nat :
        /\ \/ rows[d][k] = NoRow
           \/ doc[d].status \in Unsold
        /\ \/ /\ rows' = [rows EXCEPT ![d][k] = [kind |-> "PAYMENT", amount |-> n, day |-> day]]
              /\ money' = [money EXCEPT ![d].paid = @ + n]
           \/ /\ rows' = [rows EXCEPT ![d][k] = [kind |-> "REFUND", amount |-> n, day |-> day]]
              /\ money' = [money EXCEPT ![d].refunded = @ + n]
        /\ doc'[d].status \notin Unsold

LEMMA StepBooks ==
    ASSUME TypeOK, [Next]_vars
    PROVE  UNCHANGED <<rows, money>> \/ \E d \in Docs : Entry(d)
<1>1. ASSUME NEW d \in Docs, NEW source \in {"DRAFT", "QUOTE_ISSUED"}, NEW pay \in Amounts,
             doc[d].status = source, InitialPayment(d, pay), doc'[d].status \notin Unsold
      PROVE  UNCHANGED <<rows, money>> \/ Entry(d)
  <2>1. today \in Nat /\ pay \in Nat /\ ConfirmKey \in Keys /\ doc[d].status \in Unsold
    BY <1>1, ConstantTypes, SalesAssumptions DEF TypeOK, Unsold, Editable
  <2> QED BY <1>1, <2>1 DEF InitialPayment, AddRow, Entry
<1>2. ASSUME NEW d \in Docs, Recognise(d)
      PROVE  UNCHANGED <<rows, money>> \/ Entry(d)
  <2>1. PICK source \in {"DRAFT", "QUOTE_ISSUED"}, pay \in Amounts :
          /\ doc[d].status = source /\ InitialPayment(d, pay)
          /\ \/ doc' = [doc EXCEPT ![d].status = "COMPLETED"]
             \/ doc' = [doc EXCEPT ![d].status = "CONDUCE", ![d].fiscal = FALSE]
    BY <1>2 DEF Recognise, CompleteSale, IssueConduceSale
  <2>2. doc'[d].status \in {"COMPLETED", "CONDUCE"}
    BY <2>1 DEF TypeOK, DocType
  <2> QED BY <1>1, <2>1, <2>2 DEF Unsold, Editable
<1>3. ASSUME NEW d \in Docs, NEW k \in ClientKeys, NEW amount \in Amounts, NEW day \in Days,
             AddPayment(d, k, amount, day)
      PROVE  Entry(d)
  <2>1. k \in Keys /\ amount \in Nat /\ day \in Nat
    BY ConstantTypes, SalesAssumptions DEF Days
  <2>2. doc'[d].status \notin Unsold
    BY <1>3 DEF AddPayment, Unsold, Editable, Recognised
  <2> QED BY <1>3, <2>1, <2>2 DEF AddPayment, AddRow, Entry
<1>4. ASSUME NEW d \in Docs, NEW k \in ClientKeys, NEW refund \in Amounts, Cancel(d, k, refund)
      PROVE  UNCHANGED <<rows, money>> \/ Entry(d)
  <2>1. k \in Keys /\ refund \in Nat /\ today \in Nat
    BY ConstantTypes, SalesAssumptions DEF TypeOK
  <2>2. doc'[d].status \notin Unsold
    BY <1>4 DEF Cancel, Unsold, Editable, TypeOK, DocType
  <2> QED BY <1>4, <2>1, <2>2 DEF Cancel, AddRow, Entry
<1>5. ASSUME NEW d \in Docs, EditDraft(d)
      PROVE  UNCHANGED <<rows, money>>
  BY <1>5, Editing
<1>6. CASE \E d \in Docs : EditDraft(d) \/ IssueQuote(d) \/ Recognise(d) \/ Settle(d)
  BY <1>2, <1>3, <1>4, <1>5, <1>6 DEF IssueQuote, Settle, ConvertConduceToInvoice
<1>7. CASE NextDay \/ UNCHANGED vars
  BY <1>7 DEF NextDay, vars
<1>8. CASE \E c \in Customers, role \in Roles, profile \in Profiles :
             UpdateCustomer(c, role, profile)
  BY <1>8 DEF UpdateCustomer
<1> QED BY <1>6, <1>7, <1>8 DEF Next

\* A sale that was recognised is never a draft again.
LEMMA NeverUnsold ==
    ASSUME TypeOK, [Next]_vars, NEW e \in Docs, doc'[e].status \in Unsold
    PROVE  doc[e].status \in Unsold
<1>1. CASE NoDocument
  BY <1>1 DEF NoDocument
<1>2. CASE OneDocument
  <2>1. PICK d \in Docs : Changed(d) /\ \A x \in Docs : x # d => Kept(x)
    BY <1>2 DEF OneDocument
  <2>2. CASE e # d
    BY <2>1, <2>2 DEF Kept
  <2>3. CASE e = d
    BY <2>1, <2>3 DEF Changed, Edited, Quoted, Sold, Delivered, Invoiced, Collected, Closed,
       Granted, Unsold, Editable, Recognised
  <2> QED BY <2>2, <2>3
<1> QED BY <1>1, <1>2, StepEffect

LEMMA EntryIsBooked ==
    ASSUME TypeOK, NEW d \in Docs, BooksOf(d), Entry(d)
    PROVE  BooksOf(d)'
<1>1. rows \in [Docs -> [Keys -> RowType]] /\ money \in [Docs -> [paid: Nat, refunded: Nat]]
  BY DEF TypeOK
<1>2. PICK k \in Keys, n \in Nat, day \in Nat :
        /\ rows[d][k] = NoRow \/ doc[d].status \in Unsold
        /\ \/ /\ rows' = [rows EXCEPT ![d][k] = [kind |-> "PAYMENT", amount |-> n, day |-> day]]
              /\ money' = [money EXCEPT ![d].paid = @ + n]
           \/ /\ rows' = [rows EXCEPT ![d][k] = [kind |-> "REFUND", amount |-> n, day |-> day]]
              /\ money' = [money EXCEPT ![d].refunded = @ + n]
        /\ doc'[d].status \notin Unsold
  BY DEF Entry
<1>3. rows[d][k] = NoRow /\ rows[d] \in [Keys -> RowType] /\ Booked(rows[d], money[d])
  BY <1>1, <1>2 DEF BooksOf, Blank
<1>4. CASE /\ rows' = [rows EXCEPT ![d][k] = [kind |-> "PAYMENT", amount |-> n, day |-> day]]
           /\ money' = [money EXCEPT ![d].paid = @ + n]
  <2>1. /\ rows'[d] = [rows[d] EXCEPT ![k] = [kind |-> "PAYMENT", amount |-> n, day |-> day]]
        /\ money'[d] = [money[d] EXCEPT !.paid = @ + n]
    BY <1>1, <1>4
  <2> QED BY <1>2, <1>3, <2>1, PaymentIsBooked DEF BooksOf
<1>5. CASE /\ rows' = [rows EXCEPT ![d][k] = [kind |-> "REFUND", amount |-> n, day |-> day]]
           /\ money' = [money EXCEPT ![d].refunded = @ + n]
  <2>1. /\ rows'[d] = [rows[d] EXCEPT ![k] = [kind |-> "REFUND", amount |-> n, day |-> day]]
        /\ money'[d] = [money[d] EXCEPT !.refunded = @ + n]
    BY <1>1, <1>5
  <2> QED BY <1>2, <1>3, <2>1, RefundIsBooked DEF BooksOf
<1> QED BY <1>2, <1>4, <1>5

LEMMA BooksAreKept == Spec => [](\A d \in Docs : BooksOf(d))
<1>1. Init => \A d \in Docs : BooksOf(d)
  <2> SUFFICES ASSUME Init, NEW d \in Docs PROVE BooksOf(d)
    OBVIOUS
  <2>1. Blank(rows[d]) /\ money[d] = [paid |-> 0, refunded |-> 0]
    BY DEF Init, Blank
  <2> QED BY <2>1, NoRowsAtFirst DEF BooksOf
<1>2. ASSUME TypeOK, [Next]_vars, \A d \in Docs : BooksOf(d), NEW e \in Docs
      PROVE  BooksOf(e)'
  <2>1. rows \in [Docs -> [Keys -> RowType]] /\ money \in [Docs -> [paid: Nat, refunded: Nat]]
    BY <1>2 DEF TypeOK
  <2>2. CASE rows'[e] = rows[e] /\ money'[e] = money[e]
    BY <1>2, <2>2, NeverUnsold DEF BooksOf
  <2>3. CASE Entry(e)
    BY <1>2, <2>3, EntryIsBooked
  <2>4. ASSUME NEW d \in Docs, d # e, Entry(d)
        PROVE  rows'[e] = rows[e] /\ money'[e] = money[e]
    BY <2>1, <2>4 DEF Entry
  <2>5. CASE UNCHANGED <<rows, money>>
    BY <2>2, <2>5
  <2>6. CASE \E d \in Docs : Entry(d)
    BY <2>2, <2>3, <2>4, <2>6
  <2>7. UNCHANGED <<rows, money>> \/ \E d \in Docs : Entry(d)
    BY <1>2, StepBooks
  <2> QED BY <2>5, <2>6, <2>7
<1>3. TypeOK /\ [Next]_vars /\ (\A d \in Docs : BooksOf(d)) => (\A d \in Docs : BooksOf(d))'
  BY <1>2
<1> QED BY <1>1, <1>3, TypeCorrect, PTL DEF Spec

\* The movements stored for a sale are the money it received and gave back, whatever the
\* keys clients choose and however many movements there are (addPayment, cancel,
\* recordInitialRecognitionPayment).
THEOREM MovementsAreTheMoney == Spec => []MovementsAddUp
<1>1. TypeOK /\ (\A d \in Docs : BooksOf(d)) => MovementsAddUp
  <2> SUFFICES ASSUME TypeOK, NEW d \in Docs, BooksOf(d)
               PROVE  money[d] = [paid |-> MapThenSumSet(LAMBDA k : rows[d][k].amount,
                                             {k \in Keys : rows[d][k].kind = "PAYMENT"}),
                                  refunded |-> MapThenSumSet(LAMBDA k : rows[d][k].amount,
                                             {k \in Keys : rows[d][k].kind = "REFUND"})]
    BY DEF MovementsAddUp
  <2>1. rows[d] \in [Keys -> RowType]
    BY DEF TypeOK
  <2> QED BY <2>1, TotalCounts DEF BooksOf, Booked, Received, GivenBack
<1> QED BY <1>1, BooksAreKept, TypeCorrect, PTL
=============================================================================
