-------------------------- MODULE AfterCommitProofs --------------------------
(***************************************************************************)
(* Theorems about AfterCommit: what was looked up or rendered for a sale   *)
(* is stored with that sale and for good, for every set of documents and   *)
(* of requests at work at once, whatever fails.                            *)
(*                                                                         *)
(* Every step is a step of Sales or leaves the sales alone, so what is     *)
(* proved of Sales holds here.  A request acts on what it read             *)
(* transactions ago; the invariant WorkIsOwed says that what it carries    *)
(* still is true of its sale, because nothing it carries can change once   *)
(* the sale is recognised.                                                 *)
(***************************************************************************)
EXTENDS AfterCommit, SalesProofs

-----------------------------------------------------------------------------
(* The sales *)

\* Work after a commit changes no sale, and a handler with such work is one of Sales.
LEMMA SalesStep == [ACNext]_acVars => [Next]_vars
<1> SUFFICES ASSUME [ACNext]_acVars PROVE [Next]_vars
  OBVIOUS
<1>1. ASSUME NEW d \in Docs, HandleAtOnce(d) PROVE Next
  BY <1>1 DEF HandleAtOnce, Next, Settle
<1>2. ASSUME NEW r \in Requests, NEW d \in Docs, Handle(r, d) PROVE [Next]_vars
  <2>1. ASSUME NEW source \in {"DRAFT", "QUOTE_ISSUED"}, NEW role \in Roles, NEW pay \in Amounts,
               Confirm(r, d, source, role, pay)
        PROVE  Next
    BY <2>1 DEF Confirm, Next, Recognise
  <2>2. ASSUME NEW source \in {"DRAFT", "QUOTE_ISSUED"}, NEW role \in Roles, NEW pay \in Amounts,
               NEW asked \in Days \cup {0}, IssueConduce(r, d, source, role, pay, asked)
        PROVE  Next
    BY <2>2 DEF IssueConduce, Next, Recognise
  <2>3. ASSUME NEW source \in {"DRAFT", "QUOTE_ISSUED"}, NEW pay \in Amounts,
               NEW asked \in Days \cup {0}, RetryConduce(r, d, source, pay, asked)
        PROVE  UNCHANGED vars
    BY <2>3 DEF RetryConduce
  <2>4. ASSUME NEW fiscal \in FiscalChoices, Convert(r, d, fiscal)
        PROVE  Next
    BY <2>4 DEF Convert, Next, Settle
  <2> QED
    BY <1>2, <2>1, <2>2, <2>3, <2>4 DEF Handle, RetryRate, RequestRegeneration
<1>3. ASSUME NEW r \in Requests, Proceed(r) PROVE UNCHANGED vars
  BY <1>3 DEF Proceed, Lookup, StoreRate, StoreRateFails, RenderDocument, RenderOutcomeLost,
              Regenerate
<1>4. Crash => UNCHANGED vars
  BY DEF Crash
<1>5. UNCHANGED acVars => UNCHANGED vars
  BY DEF acVars
<1>6. ASSUME NEW c \in Customers, NEW role \in Roles, NEW profile \in Profiles,
             UpdateCustomer(c, role, profile)
      PROVE  Next
  BY <1>6 DEF Next
<1>7. NextDay => Next
  BY DEF Next
<1> QED
  BY <1>1, <1>2, <1>3, <1>4, <1>5, <1>6, <1>7 DEF ACNext

\* What is proved of every behaviour of Sales holds of these.
LEMMA SalesHold == ACSpec => [](TypeOK /\ RowShape)
<1>1. ACInit => Init
  BY DEF ACInit
<1>2. ACSpec => Spec
  BY <1>1, SalesStep, PTL DEF ACSpec, Spec
<1> QED
  BY <1>2, TypeCorrect, RowsAreWellShaped, PTL

-----------------------------------------------------------------------------
(* Requests *)

\* What a request carries is true of the sale it works for.
Owed(w) ==
    w # Idle =>
      /\ doc[w.doc].status \in Recognised \cup {"CANCELLED"}
      /\ w.rate.asOf # 0 => w.rate.asOf = snap[w.doc].confirmedAt
      /\ w.stage = "STORE" /\ w.rate.asOf # 0 => w.rate.day = w.rate.asOf
      /\ w.stage \in {"RENDER", "REGENERATE"} \/ w.document => num[w.doc]["FAC"] # 0

\* The same of the sale after a step.
OwedThen(w) ==
    w # Idle =>
      /\ doc'[w.doc].status \in Recognised \cup {"CANCELLED"}
      /\ w.rate.asOf # 0 => w.rate.asOf = snap'[w.doc].confirmedAt
      /\ w.stage = "STORE" /\ w.rate.asOf # 0 => w.rate.day = w.rate.asOf
      /\ w.stage \in {"RENDER", "REGENERATE"} \/ w.document => num'[w.doc]["FAC"] # 0

WorkIsOwed == \A r \in Requests : Owed(req[r])

\* The fields of the work a request has.
LEMMA WorkFields ==
    ASSUME NEW stage \in {"LOOKUP", "STORE", "RENDER", "REGENERATE"}, NEW d \in Docs,
           NEW rate \in RateType, NEW document \in BOOLEAN
    PROVE  LET w == Work(stage, d, rate, document)
           IN  /\ w \in WorkType /\ w # Idle
               /\ w.stage = stage /\ w.doc = d /\ w.rate = rate /\ w.document = document
BY DEF Work, WorkType, Idle

\* No rate yet, of any day.
LEMMA NoRateType == NoRate \in RateType /\ NoRate.asOf = 0 /\ NoRate.day = 0
BY DEF NoRate, RateType

\* The work a handler leaves is of its document, with no rate yet; that of a conduce owes
\* no PDF.
LEMMA BeginEffect ==
    ASSUME NEW r \in Requests, NEW d \in Docs, NEW currency
    PROVE  /\ Begin(r, d, currency, TRUE) =>
                \E w \in WorkType : /\ w.doc = d /\ w.rate = NoRate /\ w.stage # "STORE"
                                     /\ req' = [req EXCEPT ![r] = w]
           /\ Begin(r, d, currency, FALSE) =>
                \E w \in WorkType \cup {Idle} :
                    /\ w # Idle => /\ w.doc = d /\ w.rate = NoRate /\ w.stage = "LOOKUP"
                                   /\ ~w.document
                    /\ req' = [req EXCEPT ![r] = w]
<1>1. ASSUME Begin(r, d, currency, TRUE)
      PROVE  \E w \in WorkType : /\ w.doc = d /\ w.rate = NoRate /\ w.stage # "STORE"
                                  /\ req' = [req EXCEPT ![r] = w]
  <2> DEFINE look == Work("LOOKUP", d, NoRate, TRUE)
             render == Work("RENDER", d, NoRate, TRUE)
  <2>1. /\ look \in WorkType /\ look.stage = "LOOKUP" /\ look.doc = d /\ look.rate = NoRate
        /\ render \in WorkType /\ render.stage = "RENDER" /\ render.doc = d
        /\ render.rate = NoRate
    BY NoRateType DEF Work, WorkType
  <2>2. AfterRate(look, TRUE) = render
    BY <2>1 DEF AfterRate
  <2>3. req' = [req EXCEPT ![r] = look] \/ req' = [req EXCEPT ![r] = render]
    BY <1>1, <2>2 DEF Begin
  <2> QED
    BY <2>1, <2>3
<1>2. ASSUME Begin(r, d, currency, FALSE)
      PROVE  \E w \in WorkType \cup {Idle} :
               /\ w # Idle => /\ w.doc = d /\ w.rate = NoRate /\ w.stage = "LOOKUP"
                              /\ ~w.document
               /\ req' = [req EXCEPT ![r] = w]
  <2> DEFINE look == Work("LOOKUP", d, NoRate, FALSE)
  <2>1. /\ look \in WorkType /\ look.stage = "LOOKUP" /\ look.doc = d /\ look.rate = NoRate
        /\ ~look.document
    BY NoRateType DEF Work, WorkType
  <2>2. req' = [req EXCEPT ![r] = look] \/ req' = [req EXCEPT ![r] = Idle]
    BY <1>2 DEF Begin, AfterRate
  <2> QED
    BY <2>1, <2>2
<1> QED
  BY <1>1, <1>2

\* A request goes on with the PDF it owes, or is done.
LEMMA AfterRateEffect ==
    ASSUME NEW w \in WorkType, NEW document \in BOOLEAN, document => w.document
    PROVE  LET after == AfterRate(w, document)
           IN  /\ after \in WorkType \cup {Idle}
               /\ after # Idle => /\ after.stage = "RENDER" /\ after.doc = w.doc
                                  /\ after.rate = w.rate /\ after.document /\ document
BY DEF AfterRate, Work, WorkType, Idle

\* What is owed stays true: a recognised sale keeps its day, its number and its status,
\* whatever handler comes between two steps of a request.
LEMMA OwedStays ==
    ASSUME TypeOK, TypeOK', RowShape, [Next]_vars, NEW w \in WorkType, Owed(w)
    PROVE  /\ doc'[w.doc].status \in Recognised \cup {"CANCELLED"}
           /\ snap'[w.doc].confirmedAt = snap[w.doc].confirmedAt
           /\ num[w.doc]["FAC"] # 0 => num'[w.doc]["FAC"] # 0
<1> DEFINE d == w.doc
<1>1. d \in Docs /\ doc[d].status \in Recognised \cup {"CANCELLED"}
  BY DEF WorkType, Owed, Idle
<1>2. FinalFor(d)
  BY <1>1, StepEffect, FinalStep
<1>3. snap[d] \in SnapType /\ snap'[d] \in SnapType
  BY <1>1 DEF TypeOK
<1>4. snap'[d].confirmedAt = snap[d].confirmedAt
  BY <1>1, <1>2, <1>3 DEF FinalFor, Frozen, SnapType
<1>5. doc'[d].status \in Recognised \cup {"CANCELLED"}
  BY <1>1, <1>2 DEF FinalFor, Recognised
<1> QED
  BY <1>1, <1>2, <1>4, <1>5 DEF FinalFor

\* A number drawn is not zero.
LEMMA DrawnNumber ==
    ASSUME TypeOK, NEW d \in Docs, NEW s \in Series, Allocate(d, s)
    PROVE  num'[d][s] # 0
<1>1. num[d] \in [Series -> Nat] /\ seq[s] \in Nat \ {0}
  BY DEF TypeOK
<1>2. num'[d] = [num[d] EXCEPT ![s] = seq[s]]
  BY AllocateEffect
<1> QED
  BY <1>1, <1>2

\* Each handler leaves work that is true of the document it has just changed.
LEMMA HandlerOwes ==
    ASSUME ACTypeOK, OutcomesBelongToTheirSale, NEW r \in Requests, NEW d \in Docs, Handle(r, d)
    PROVE  \E w \in WorkType \cup {Idle} : req' = [req EXCEPT ![r] = w] /\ OwedThen(w)
<1>1. /\ TypeOK /\ "FAC" \in Series /\ "CON" \in Series
      /\ doc \in [Docs -> DocType] /\ snap \in [Docs -> SnapType]
  BY DEF ACTypeOK, TypeOK, Series
<1>2. ASSUME NEW source \in {"DRAFT", "QUOTE_ISSUED"}, NEW role \in Roles, NEW pay \in Amounts,
             Confirm(r, d, source, role, pay)
      PROVE  \E w \in WorkType \cup {Idle} : req' = [req EXCEPT ![r] = w] /\ OwedThen(w)
  <2>1. /\ doc' = [doc EXCEPT ![d].status = "COMPLETED"] /\ Allocate(d, "FAC")
        /\ Begin(r, d, doc[d].currency, TRUE)
    BY <1>2 DEF Confirm, CompleteSale
  <2>2. doc'[d].status = "COMPLETED" /\ num'[d]["FAC"] # 0
    BY <1>1, <2>1, DrawnNumber DEF DocType
  <2>3. PICK w \in WorkType : /\ w.doc = d /\ w.rate = NoRate /\ w.stage # "STORE"
                                /\ req' = [req EXCEPT ![r] = w]
    BY <2>1, BeginEffect
  <2> QED
    BY <2>2, <2>3, NoRateType DEF OwedThen, Recognised
<1>3. ASSUME NEW source \in {"DRAFT", "QUOTE_ISSUED"}, NEW role \in Roles, NEW pay \in Amounts,
             NEW asked \in Days \cup {0}, IssueConduce(r, d, source, role, pay, asked)
      PROVE  \E w \in WorkType \cup {Idle} : req' = [req EXCEPT ![r] = w] /\ OwedThen(w)
  <2>1. /\ doc' = [doc EXCEPT ![d].status = "CONDUCE", ![d].fiscal = FALSE]
        /\ Begin(r, d, doc[d].currency, FALSE)
    BY <1>3 DEF IssueConduce, IssueConduceSale
  <2>2. doc'[d].status = "CONDUCE"
    BY <1>1, <2>1 DEF DocType
  <2>3. PICK w \in WorkType \cup {Idle} :
             /\ w # Idle => /\ w.doc = d /\ w.rate = NoRate /\ w.stage = "LOOKUP"
                            /\ ~w.document
             /\ req' = [req EXCEPT ![r] = w]
    BY <2>1, BeginEffect
  <2> QED
    BY <2>2, <2>3, NoRateType DEF OwedThen, Recognised
<1>4. ASSUME NEW source \in {"DRAFT", "QUOTE_ISSUED"}, NEW pay \in Amounts,
             NEW asked \in Days \cup {0}, RetryConduce(r, d, source, pay, asked)
      PROVE  \E w \in WorkType \cup {Idle} : req' = [req EXCEPT ![r] = w] /\ OwedThen(w)
  <2>1. doc[d].status = "CONDUCE" /\ UNCHANGED vars /\ Begin(r, d, doc[d].currency, FALSE)
    BY <1>4 DEF RetryConduce
  <2>2. PICK w \in WorkType \cup {Idle} :
             /\ w # Idle => /\ w.doc = d /\ w.rate = NoRate /\ w.stage = "LOOKUP"
                            /\ ~w.document
             /\ req' = [req EXCEPT ![r] = w]
    BY <2>1, BeginEffect
  <2>3. doc' = doc
    BY <2>1 DEF vars
  <2> QED
    BY <2>1, <2>2, <2>3, NoRateType DEF OwedThen, Recognised
<1>5. ASSUME NEW fiscal \in FiscalChoices, Convert(r, d, fiscal)
      PROVE  \E w \in WorkType \cup {Idle} : req' = [req EXCEPT ![r] = w] /\ OwedThen(w)
  <2>1. /\ doc' = [doc EXCEPT ![d].status = "COMPLETED", ![d].fiscal = fiscal]
        /\ Allocate(d, "FAC") /\ req' = [req EXCEPT ![r] = Work("RENDER", d, NoRate, TRUE)]
    BY <1>5 DEF Convert, ConvertConduceToInvoice, BeginDocument
  <2>2. doc'[d].status = "COMPLETED" /\ num'[d]["FAC"] # 0
    BY <1>1, <2>1, DrawnNumber DEF DocType
  <2>3. /\ Work("RENDER", d, NoRate, TRUE) \in WorkType
        /\ Work("RENDER", d, NoRate, TRUE).doc = d
        /\ Work("RENDER", d, NoRate, TRUE).rate = NoRate
        /\ Work("RENDER", d, NoRate, TRUE).stage = "RENDER"
    BY NoRateType DEF Work, WorkType
  <2> QED
    BY <2>1, <2>2, <2>3, NoRateType DEF OwedThen, Recognised
<1>6. ASSUME RetryRate(r, d)
      PROVE  \E w \in WorkType \cup {Idle} : req' = [req EXCEPT ![r] = w] /\ OwedThen(w)
  <2> DEFINE rate == [day |-> 0, asOf |-> snap[d].confirmedAt]
             w == Work("LOOKUP", d, rate, FALSE)
  <2>1. doc[d].status \in Recognised /\ UNCHANGED vars /\ req' = [req EXCEPT ![r] = w]
    BY <1>6 DEF RetryRate
  <2>2. rate \in RateType /\ rate.asOf = snap[d].confirmedAt
    BY <1>1 DEF RateType, SnapType
  <2> HIDE DEF rate
  <2>3. /\ w \in WorkType /\ w.doc = d /\ w.rate = rate /\ w.stage = "LOOKUP"
        /\ w.document = FALSE
    BY <2>2 DEF Work, WorkType
  <2> HIDE DEF w
  <2>4. doc' = doc /\ snap' = snap
    BY <2>1 DEF vars
  <2>5. OwedThen(w)
    BY <2>1, <2>2, <2>3, <2>4 DEF OwedThen
  <2> QED
    BY <2>1, <2>3, <2>5
<1>7. ASSUME RequestRegeneration(r, d)
      PROVE  \E w \in WorkType \cup {Idle} : req' = [req EXCEPT ![r] = w] /\ OwedThen(w)
  <2> DEFINE w == Work("REGENERATE", d, NoRate, FALSE)
  <2>1. pdf[d] = "FAILED" /\ UNCHANGED vars /\ req' = [req EXCEPT ![r] = w]
    BY <1>7 DEF RequestRegeneration
  <2>2. doc[d].status \in Recognised \cup {"CANCELLED"} /\ num[d]["FAC"] # 0
    BY <2>1 DEF OutcomesBelongToTheirSale, AfterCommitShape, Recognised
  <2>3. w \in WorkType /\ w.doc = d /\ w.rate = NoRate /\ w.stage = "REGENERATE"
    BY NoRateType DEF Work, WorkType
  <2> HIDE DEF w
  <2>4. doc' = doc /\ num' = num
    BY <2>1 DEF vars
  <2> QED
    BY <2>1, <2>2, <2>3, <2>4, NoRateType DEF OwedThen
<1> QED
  BY <1>2, <1>3, <1>4, <1>5, <1>6, <1>7 DEF Handle

\* So does each step of a request.
LEMMA ProceedOwes ==
    ASSUME ACTypeOK, NEW r \in Requests, Owed(req[r]), Proceed(r)
    PROVE  \E w \in WorkType \cup {Idle} : req' = [req EXCEPT ![r] = w] /\ OwedThen(w)
<1> DEFINE was == req[r]
           Goal == \E w \in WorkType \cup {Idle} : req' = [req EXCEPT ![r] = w] /\ OwedThen(w)
<1>1. was \in WorkType \cup {Idle} /\ today \in Nat
  BY DEF ACTypeOK, TypeOK
<1>2. was.stage # "IDLE" => was \in WorkType /\ was # Idle
  BY <1>1 DEF Idle
<1>3. UNCHANGED <<doc, num, snap>>
  BY DEF Proceed, Lookup, StoreRate, StoreRateFails, RenderDocument, RenderOutcomeLost,
         Regenerate, vars
<1>4. OwedThen(Idle)
  BY DEF OwedThen
<1>5. ASSUME NEW document \in BOOLEAN, document => was.document, was \in WorkType, was # Idle,
             req' = [req EXCEPT ![r] = AfterRate(was, document)]
      PROVE  Goal
  <2> DEFINE after == AfterRate(was, document)
  <2>1. /\ after \in WorkType \cup {Idle}
        /\ after # Idle => /\ after.stage = "RENDER" /\ after.doc = was.doc
                           /\ after.rate = was.rate /\ document
    BY <1>5, AfterRateEffect
  <2> HIDE DEF after
  <2>2. OwedThen(after)
    BY <1>3, <1>5, <2>1 DEF Owed, OwedThen
  <2>3. req' = [req EXCEPT ![r] = after]
    BY <1>5 DEF after
  <2> QED
    BY <2>1, <2>2, <2>3
<1>6. ASSUME NEW day \in Nat, was \in WorkType, was # Idle,
             was.rate.asOf # 0 => day = was.rate.asOf,
             req' = [req EXCEPT ![r] = RateFound(was, day)]
      PROVE  Goal
  <2> DEFINE found == RateFound(was, day)
  <2>1. /\ found \in WorkType /\ found.stage = "STORE" /\ found.doc = was.doc
        /\ found.rate.asOf = was.rate.asOf /\ found.rate.day = day
        /\ found.document = was.document
    BY <1>6 DEF RateFound, Work, WorkType, RateType
  <2> HIDE DEF found
  <2>2. OwedThen(found)
    BY <1>3, <1>6, <2>1 DEF Owed, OwedThen
  <2>3. req' = [req EXCEPT ![r] = found]
    BY <1>6 DEF found
  <2> QED
    BY <2>1, <2>2, <2>3
<1>7. was \in WorkType => was.document \in BOOLEAN /\ was.rate.asOf \in Nat
  BY DEF WorkType, RateType
<1>8. CASE Lookup(r)
  <2>1. was.stage = "LOOKUP"
    BY <1>8 DEF Lookup
  <2>2. was \in WorkType /\ was # Idle
    BY <1>2, <2>1
  <2>3. CASE req' = [req EXCEPT ![r] = AfterRate(was, was.document)]
    BY <1>5, <1>7, <2>2, <2>3
  <2> DEFINE day == IF was.rate.asOf # 0 THEN was.rate.asOf ELSE today
  <2>4. CASE req' = [req EXCEPT ![r] = RateFound(was, day)]
    <3>1. day \in Nat /\ (was.rate.asOf # 0 => day = was.rate.asOf)
      BY <1>1, <1>7, <2>2
    <3> QED
      BY <1>6, <2>2, <2>4, <3>1
  <2> QED
    BY <1>8, <2>3, <2>4 DEF Lookup
<1>9. CASE StoreRate(r)
  <2>1. was.stage = "STORE"
    BY <1>9 DEF StoreRate
  <2>2. was \in WorkType /\ was # Idle
    BY <1>2, <2>1
  <2> DEFINE document == was.document /\ doc[was.doc].status = "COMPLETED"
  <2>3. req' = [req EXCEPT ![r] = AfterRate(was, document)]
    BY <1>9 DEF StoreRate
  <2>4. document \in BOOLEAN /\ (document => was.document)
    OBVIOUS
  <2> QED
    BY <1>5, <2>2, <2>3, <2>4
<1>10. CASE StoreRateFails(r)
  <2>1. was.stage = "STORE" /\ req' = [req EXCEPT ![r] = AfterRate(was, was.document)]
    BY <1>10 DEF StoreRateFails
  <2>2. was \in WorkType /\ was # Idle
    BY <1>2, <2>1
  <2> QED
    BY <1>5, <1>7, <2>1, <2>2
<1>11. CASE RenderDocument(r) \/ RenderOutcomeLost(r) \/ Regenerate(r)
  <2>1. req' = [req EXCEPT ![r] = Idle]
    BY <1>11 DEF RenderDocument, RenderOutcomeLost, Regenerate
  <2> QED
    BY <1>4, <2>1
<1> QED
  BY <1>8, <1>9, <1>10, <1>11 DEF Proceed

\* One request moves on, all stop, or none is touched.
RequestsMove ==
    \/ \E r \in Requests, w \in WorkType \cup {Idle} :
          req' = [req EXCEPT ![r] = w] /\ OwedThen(w)
    \/ req' = [r \in Requests |-> Idle]
    \/ req' = req

\* Every step moves the requests in one of these ways.
LEMMA RequestsStep ==
    ASSUME ACTypeOK, OutcomesBelongToTheirSale, WorkIsOwed, [ACNext]_acVars
    PROVE  RequestsMove
<1>1. ASSUME NEW r \in Requests, NEW d \in Docs, Handle(r, d) PROVE RequestsMove
  BY <1>1, HandlerOwes DEF RequestsMove
<1>2. ASSUME NEW r \in Requests, Proceed(r) PROVE RequestsMove
  BY <1>2, ProceedOwes DEF RequestsMove, WorkIsOwed
<1>3. Crash => RequestsMove
  BY DEF Crash, RequestsMove
<1>4. req' = req => RequestsMove
  BY DEF RequestsMove
<1> QED
  BY <1>1, <1>2, <1>3, <1>4 DEF ACNext, acVars

\* What requests carry stays true of their sales.
LEMMA WorkStep ==
    ASSUME ACTypeOK, TypeOK', RowShape, OutcomesBelongToTheirSale, WorkIsOwed, [ACNext]_acVars
    PROVE  WorkIsOwed' /\ req' \in [Requests -> WorkType \cup {Idle}]
<1>1. req \in [Requests -> WorkType \cup {Idle}] /\ TypeOK
  BY DEF ACTypeOK
<1>2. ASSUME NEW w \in WorkType \cup {Idle}, Owed(w) PROVE OwedThen(w)
  <2>1. CASE w = Idle
    BY <2>1 DEF OwedThen
  <2>2. CASE w # Idle
    <3>1. w \in WorkType /\ [Next]_vars
      BY <1>2, <2>2, SalesStep
    <3>2. /\ doc'[w.doc].status \in Recognised \cup {"CANCELLED"}
          /\ snap'[w.doc].confirmedAt = snap[w.doc].confirmedAt
          /\ num[w.doc]["FAC"] # 0 => num'[w.doc]["FAC"] # 0
      BY <1>1, <1>2, <3>1, OwedStays
    <3> QED
      BY <1>2, <2>2, <3>2 DEF Owed, OwedThen
  <2> QED
    BY <2>1, <2>2
<1>3. \A q \in Requests : OwedThen(req[q])
  BY <1>1, <1>2 DEF WorkIsOwed
<1>4. OwedThen(Idle)
  BY DEF OwedThen
<1>5. RequestsMove
  BY RequestsStep
<1>6. \A q \in Requests : OwedThen(req'[q])
  BY <1>1, <1>3, <1>4, <1>5 DEF RequestsMove
<1>7. WorkIsOwed'
  BY <1>6 DEF WorkIsOwed, Owed, OwedThen
<1> QED
  BY <1>1, <1>5, <1>7 DEF RequestsMove

-----------------------------------------------------------------------------
(* Outcomes *)

\* One sale is given a rate or a PDF outcome by a request at work on it, or none is.
RateStored ==
    \/ fx' = fx
    \/ \E r \in Requests :
          /\ req[r].stage = "STORE" /\ doc[req[r].doc].status \in Recognised
          /\ doc[req[r].doc].currency = "USD" /\ fx[req[r].doc] = NoRate
          /\ fx' = [fx EXCEPT ![req[r].doc] = req[r].rate]

OutcomeStored ==
    \/ pdf' = pdf
    \/ \E r \in Requests, outcome \in {"READY", "FAILED"} :
          /\ \/ req[r].stage = "RENDER" /\ pdf[req[r].doc] = "NULL"
             \/ req[r].stage = "REGENERATE" /\ pdf[req[r].doc] = "FAILED"
          /\ doc[req[r].doc].status \in {"COMPLETED", "CANCELLED"}
          /\ pdf' = [pdf EXCEPT ![req[r].doc] = outcome]

\* Only the steps that store an outcome store one, and none touches a sale.
LEMMA StoreEffect ==
    ASSUME [ACNext]_acVars
    PROVE  /\ RateStored /\ OutcomeStored
           /\ UNCHANGED <<fx, pdf>> \/ UNCHANGED vars
<1> DEFINE Goal == /\ RateStored /\ OutcomeStored
                   /\ UNCHANGED <<fx, pdf>> \/ UNCHANGED vars
<1>1. fx' = fx /\ pdf' = pdf => Goal
  BY DEF RateStored, OutcomeStored
<1>2. ASSUME NEW r \in Requests, NEW d \in Docs, Handle(r, d) PROVE Goal
  BY <1>1, <1>2 DEF Handle, Confirm, IssueConduce, RetryConduce, Convert, RetryRate,
                    RequestRegeneration
<1>3. ASSUME NEW r \in Requests, Proceed(r) PROVE Goal
  <2>1. CASE Lookup(r) \/ StoreRateFails(r) \/ RenderOutcomeLost(r)
    BY <1>1, <2>1 DEF Lookup, StoreRateFails, RenderOutcomeLost
  <2>2. CASE StoreRate(r)
    <3>1. pdf' = pdf /\ UNCHANGED vars
      BY <2>2 DEF StoreRate
    <3>2. RateStored
      BY <2>2 DEF StoreRate, RateStored
    <3> QED
      BY <3>1, <3>2 DEF OutcomeStored
  <2>3. CASE RenderDocument(r) \/ Regenerate(r)
    <3>1. fx' = fx /\ UNCHANGED vars
      BY <2>3 DEF RenderDocument, Regenerate
    <3>2. OutcomeStored
      BY <2>3 DEF RenderDocument, Regenerate, OutcomeStored
    <3> QED
      BY <3>1, <3>2 DEF RateStored
  <2> QED
    BY <1>3, <2>1, <2>2, <2>3 DEF Proceed
<1>4. Crash => Goal
  BY <1>1 DEF Crash
<1>5. CASE UNCHANGED acVars
  <2>1. fx' = fx /\ pdf' = pdf
    BY <1>5 DEF acVars
  <2> QED
    BY <1>1, <2>1
<1>6. CASE ACNext
  <2>1. \/ fx' = fx /\ pdf' = pdf
        \/ \E r \in Requests : Proceed(r) \/ (\E d \in Docs : Handle(r, d))
        \/ Crash
    BY <1>6 DEF ACNext
  <2> HIDE DEF Goal
  <2>2. Goal
    BY <1>1, <1>2, <1>3, <1>4, <2>1
  <2> QED
    BY <2>2 DEF Goal
<1> QED
  BY <1>5, <1>6

\* What the last commit of a request stores is what its sale was given.
LEMMA OutcomeStep ==
    ASSUME ACTypeOK, TypeOK', RowShape, OutcomesBelongToTheirSale, WorkIsOwed, [ACNext]_acVars
    PROVE  /\ OutcomesBelongToTheirSale'
           /\ fx' \in [Docs -> RateType] /\ pdf' \in [Docs -> {"NULL", "READY", "FAILED"}]
<1>1. /\ fx \in [Docs -> RateType] /\ pdf \in [Docs -> {"NULL", "READY", "FAILED"}]
      /\ req \in [Requests -> WorkType \cup {Idle}] /\ TypeOK
  BY DEF ACTypeOK
<1>2. /\ RateStored /\ OutcomeStored
      /\ UNCHANGED <<fx, pdf>> \/ UNCHANGED vars
  BY StoreEffect
<1>3. ASSUME NEW r \in Requests, req[r].stage # "IDLE"
      PROVE  /\ req[r] \in WorkType /\ req[r] # Idle /\ req[r].doc \in Docs
             /\ req[r].rate \in RateType /\ Owed(req[r])
  BY <1>1, <1>3 DEF Idle, WorkType, WorkIsOwed
<1>4. fx' \in [Docs -> RateType] /\ pdf' \in [Docs -> {"NULL", "READY", "FAILED"}]
  BY <1>1, <1>2, <1>3 DEF RateStored, OutcomeStored
<1>5. ASSUME NEW d \in Docs
      PROVE  /\ fx[d] # NoRate => /\ doc'[d].currency = "USD"
                                  /\ doc'[d].status \in Recognised \cup {"CANCELLED"}
             /\ pdf[d] # "NULL" => /\ num'[d]["FAC"] # 0
                                   /\ doc'[d].status \in {"COMPLETED", "CANCELLED"}
             /\ fx[d].asOf # 0 => fx[d].day = snap'[d].confirmedAt
  <2>1. FinalFor(d)
    BY <1>1, SalesStep, StepEffect, FinalStep
  <2>2. snap[d] \in SnapType /\ snap'[d] \in SnapType
    BY <1>1 DEF TypeOK
  <2>3. doc[d].status \in Recognised \cup {"CANCELLED"} =>
          /\ doc'[d].currency = doc[d].currency /\ doc'[d].status \in Recognised \cup {"CANCELLED"}
          /\ snap'[d].confirmedAt = snap[d].confirmedAt
    BY <2>1, <2>2 DEF FinalFor, Frozen, SnapType, Recognised
  <2>4. fx[d].asOf # 0 => fx[d] # NoRate
    BY DEF NoRate
  <2> QED
    BY <2>1, <2>3, <2>4
       DEF OutcomesBelongToTheirSale, AfterCommitShape, RecoveredRateIsOfSaleDay, FinalFor
<1>6. CASE UNCHANGED <<fx, pdf>>
  BY <1>4, <1>5, <1>6 DEF OutcomesBelongToTheirSale, AfterCommitShape, RecoveredRateIsOfSaleDay
<1>7. CASE UNCHANGED vars
  <2>1. doc' = doc /\ num' = num /\ snap' = snap
    BY <1>7 DEF vars
  <2>2. ASSUME NEW d \in Docs
        PROVE  /\ fx'[d] # NoRate => /\ doc[d].currency = "USD"
                                     /\ doc[d].status \in Recognised \cup {"CANCELLED"}
               /\ fx'[d].asOf # 0 => fx'[d].day = snap[d].confirmedAt
    <3>1. CASE fx'[d] = fx[d]
      BY <1>5, <2>1, <3>1
    <3>2. CASE fx'[d] # fx[d]
      <4>1. PICK r \in Requests :
                 /\ req[r].stage = "STORE" /\ doc[req[r].doc].status \in Recognised
                 /\ doc[req[r].doc].currency = "USD"
                 /\ fx' = [fx EXCEPT ![req[r].doc] = req[r].rate]
        BY <1>2, <3>2 DEF RateStored
      <4>2. d = req[r].doc /\ fx'[d] = req[r].rate
        BY <1>1, <3>2, <4>1
      <4>3. req[r].rate.asOf # 0 => req[r].rate.day = snap[d].confirmedAt
        BY <1>3, <4>1, <4>2 DEF Owed
      <4> QED
        BY <4>1, <4>2, <4>3
    <3> QED
      BY <3>1, <3>2
  <2>3. ASSUME NEW d \in Docs, pdf'[d] # "NULL"
        PROVE  num[d]["FAC"] # 0 /\ doc[d].status \in {"COMPLETED", "CANCELLED"}
    <3>1. CASE pdf'[d] = pdf[d]
      BY <1>5, <2>1, <2>3, <3>1
    <3>2. CASE pdf'[d] # pdf[d]
      <4>1. PICK r \in Requests, outcome \in {"READY", "FAILED"} :
                 /\ req[r].stage \in {"RENDER", "REGENERATE"}
                 /\ doc[req[r].doc].status \in {"COMPLETED", "CANCELLED"}
                 /\ pdf' = [pdf EXCEPT ![req[r].doc] = outcome]
        BY <1>2, <3>2 DEF OutcomeStored
      <4>2. d = req[r].doc
        BY <1>1, <3>2, <4>1
      <4> QED
        BY <1>3, <4>1, <4>2 DEF Owed
    <3> QED
      BY <3>1, <3>2
  <2> QED
    BY <1>4, <2>1, <2>2, <2>3
       DEF OutcomesBelongToTheirSale, AfterCommitShape, RecoveredRateIsOfSaleDay
<1> QED
  BY <1>2, <1>4, <1>6, <1>7

-----------------------------------------------------------------------------
(* The theorems *)

\* The inductive invariant: the types, what requests carry, and what was stored.
ACInv == ACTypeOK /\ WorkIsOwed /\ OutcomesBelongToTheirSale

\* Nothing is owed when the server starts.
LEMMA ACInitial == ACInit /\ TypeOK => ACInv
<1> SUFFICES ASSUME ACInit, TypeOK PROVE ACInv
  OBVIOUS
<1>1. /\ fx = [d \in Docs |-> NoRate] /\ pdf = [d \in Docs |-> "NULL"]
      /\ req = [r \in Requests |-> Idle]
  BY DEF ACInit
<1>2. ACTypeOK
  BY <1>1, NoRateType DEF ACTypeOK
<1>3. WorkIsOwed
  BY <1>1 DEF WorkIsOwed, Owed
<1>4. OutcomesBelongToTheirSale
  BY <1>1, NoRateType DEF OutcomesBelongToTheirSale, AfterCommitShape, RecoveredRateIsOfSaleDay
<1> QED
  BY <1>2, <1>3, <1>4 DEF ACInv

\* Every step keeps the invariant.
LEMMA ACStep ==
    ASSUME ACInv, TypeOK', RowShape, [ACNext]_acVars
    PROVE  ACInv'
<1>1. WorkIsOwed' /\ req' \in [Requests -> WorkType \cup {Idle}]
  BY WorkStep DEF ACInv
<1>2. /\ OutcomesBelongToTheirSale'
      /\ fx' \in [Docs -> RateType] /\ pdf' \in [Docs -> {"NULL", "READY", "FAILED"}]
  BY OutcomeStep DEF ACInv
<1> QED
  BY <1>1, <1>2 DEF ACInv, ACTypeOK, Idle, RateType, WorkType

\* The invariant, which needs that of the sales.
LEMMA ACInvariant == ACSpec => []ACInv
<1>1. ACInit /\ TypeOK => ACInv
  BY ACInitial
<1>2. ACInv /\ TypeOK /\ RowShape /\ TypeOK' /\ [ACNext]_acVars => ACInv'
  BY ACStep
<1> QED
  BY <1>1, <1>2, SalesHold, PTL DEF ACSpec

\* A request holds a document, a rate and whether it owes a PDF, in every interleaving.
THEOREM ACTypeCorrect == ACSpec => []ACTypeOK
<1>1. ACInv => ACTypeOK
  BY DEF ACInv
<1> QED
  BY <1>1, ACInvariant, PTL

\* The rate and the PDF outcome of a sale are its own: they are stored transactions after
\* the sale was read (enrichUsdProfitability, recordInitialGeneration), yet only with a
\* recognised sale in dollars, with an invoice that has its number, and a recovered rate
\* is that of the day of the sale (retryUsdProfitability).
THEOREM OutcomesAreOfTheirSale == ACSpec => []OutcomesBelongToTheirSale
<1>1. ACInv => OutcomesBelongToTheirSale
  BY DEF ACInv
<1> QED
  BY <1>1, ACInvariant, PTL

\* Of two requests that race to store an outcome one does; what is stored stays, and a
\* cancelled sale takes no rate.
THEOREM OutcomesAreFinal == ACSpec => OutcomesFinal
<1>1. ASSUME ACTypeOK, [ACNext]_acVars, NEW d \in Docs
      PROVE  /\ fx[d] # NoRate \/ doc[d].status = "CANCELLED" => fx'[d] = fx[d]
             /\ pdf[d] = "READY" => pdf'[d] = "READY"
             /\ pdf[d] # "NULL" => pdf'[d] # "NULL"
  <2>1. /\ fx \in [Docs -> RateType] /\ pdf \in [Docs -> {"NULL", "READY", "FAILED"}]
    BY <1>1 DEF ACTypeOK
  <2>2. RateStored /\ OutcomeStored
    BY <1>1, StoreEffect
  <2>3. fx[d] # NoRate \/ doc[d].status = "CANCELLED" => fx'[d] = fx[d]
    BY <2>1, <2>2 DEF RateStored, Recognised
  <2>4. (pdf[d] = "READY" => pdf'[d] = "READY") /\ (pdf[d] # "NULL" => pdf'[d] # "NULL")
    BY <2>1, <2>2 DEF OutcomeStored
  <2> QED
    BY <2>3, <2>4
<1>2. ACTypeOK /\ [ACNext]_acVars
        => [\A d \in Docs : /\ fx[d] # NoRate \/ doc[d].status = "CANCELLED" => fx'[d] = fx[d]
                            /\ pdf[d] = "READY" => pdf'[d] = "READY"
                            /\ pdf[d] # "NULL" => pdf'[d] # "NULL"]_acVars
  BY <1>1
<1> QED
  BY <1>2, ACTypeCorrect, PTL DEF ACSpec, OutcomesFinal
=============================================================================
