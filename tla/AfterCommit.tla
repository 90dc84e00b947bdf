----------------------------- MODULE AfterCommit -----------------------------
(***************************************************************************)
(* What the sales service still does for a request after its transaction   *)
(* has committed: it asks the exchange-rate provider for the rate of a USD *)
(* sale and stores it in a second transaction, then renders the PDF of an  *)
(* invoice and stores the outcome in a third one.  Between these steps any *)
(* other request may run, the day may change and the process may stop.     *)
(* The administrator's two recoveries, the retry of the rate and the       *)
(* regeneration of a failed PDF, work in the same way.                     *)
(*                                                                         *)
(* The commercial transaction itself is the step of module Sales; here it  *)
(* also starts the rest of the request.  A rate is known by the day it was *)
(* in force on.                                                            *)
(***************************************************************************)
EXTENDS Sales

CONSTANTS
    Requests,  \* bound: requests the server can be working on at once
    Faults     \* what may go wrong: a later transaction, the process

ASSUME AfterCommitAssumptions == Faults \subseteq {"DATABASE", "PROCESS"}

VARIABLES
    fx,    \* the rate stored with each sale and how it was asked for
    pdf,   \* column pdfStatus, "NULL" before the first outcome
    req,   \* what each request has left to do after its commit
    dropped  \* sales whose PDF outcome was owed when something failed (history)

acVars == <<vars, fx, pdf, req, dropped>>

NoRate == [day |-> 0, asOf |-> 0]
Idle == [stage |-> "IDLE"]

\* A request at work on document d, which still owes it a PDF or not.
Work(stage, d, rate, document) ==
    [stage |-> stage, doc |-> d, rate |-> rate, document |-> document]

\* Where a request goes on when it is done with the rate.
AfterRate(w, document) == IF document THEN Work("RENDER", w.doc, w.rate, TRUE) ELSE Idle

\* A request that was told a rate: the one of `day`.
RateFound(w, day) == Work("STORE", w.doc, [day |-> day, asOf |-> w.rate.asOf], w.document)

-----------------------------------------------------------------------------
(* The request after its commit *)

\* Start working on document d; enrichUsdProfitability has nothing to do for a
\* sale in DOP or one that has its rate.
Begin(r, d, currency, document) ==
    LET new == Work("LOOKUP", d, NoRate, document)
    IN  /\ req[r] = Idle
        /\ req' = [req EXCEPT ![r] = IF currency = "USD" /\ fx[d] = NoRate
                                     THEN new ELSE AfterRate(new, document)]

BeginDocument(r, d) ==
    /\ req[r] = Idle
    /\ req' = [req EXCEPT ![r] = Work("RENDER", d, NoRate, TRUE)]

\* Mistake: the administrator's retry asks for the rate of now.
LookupLive(r) ==
    /\ req[r].stage = "LOOKUP"
    /\ \/ req' = [req EXCEPT ![r] = RateFound(req[r], today)]
       \/ req' = [req EXCEPT ![r] = AfterRate(req[r], req[r].document)]
    /\ UNCHANGED <<vars, fx, pdf>>

\* getUsdToDopRate: the rate in force on `asOf` if one is given, else the one of
\* now; or no rate (no key, timeout, refusal).
Lookup(r) ==
    /\ req[r].stage = "LOOKUP"
    /\ \/ LET asOf == req[r].rate.asOf
          IN  req' = [req EXCEPT ![r] = RateFound(req[r], IF asOf # 0 THEN asOf ELSE today)]
       \/ req' = [req EXCEPT ![r] = AfterRate(req[r], req[r].document)]
    /\ UNCHANGED <<vars, fx, pdf>>

\* The second transaction: only a recognised sale without a rate takes it.  The
\* request goes on with the row it has just read, so a sale cancelled meanwhile
\* is not given a PDF.
StoreRate(r) ==
    LET d == req[r].doc
    IN  /\ req[r].stage = "STORE"
        /\ fx' = IF doc[d].status \in Recognised /\ doc[d].currency = "USD" /\ fx[d] = NoRate
                 THEN [fx EXCEPT ![d] = req[r].rate] ELSE fx
        /\ req' = [req EXCEPT ![r] =
                     AfterRate(req[r], req[r].document /\ doc[d].status = "COMPLETED")]
        /\ UNCHANGED <<vars, pdf>>

\* The second transaction fails: the request goes on with the row of the first.
StoreRateFails(r) ==
    /\ "DATABASE" \in Faults
    /\ req[r].stage = "STORE"
    /\ req' = [req EXCEPT ![r] = AfterRate(req[r], req[r].document)]
    /\ UNCHANGED <<vars, fx, pdf>>

\* recordInitialGeneration: the outcome is stored only while there is none.
RenderDocument(r) ==
    LET d == req[r].doc
    IN  /\ req[r].stage = "RENDER"
        /\ \E outcome \in {"READY", "FAILED"} :
             pdf' = IF pdf[d] = "NULL" /\ doc[d].status \in {"COMPLETED", "CANCELLED"}
                    THEN [pdf EXCEPT ![d] = outcome] ELSE pdf
        /\ req' = [req EXCEPT ![r] = Idle]
        /\ UNCHANGED <<vars, fx>>

\* Neither READY nor FAILED could be stored; the error is logged and dropped.
RenderOutcomeLost(r) ==
    /\ "DATABASE" \in Faults
    /\ req[r].stage = "RENDER"
    /\ req' = [req EXCEPT ![r] = Idle]
    /\ dropped' = dropped \cup {req[r].doc}
    /\ UNCHANGED <<vars, fx, pdf>>

-----------------------------------------------------------------------------
(* The handlers that leave work for after the commit *)

Confirm(r, d, source, role, pay) ==
    /\ CompleteSale(d, source, role, pay)
    /\ Begin(r, d, doc[d].currency, TRUE)
    /\ UNCHANGED <<fx, pdf>>

IssueConduce(r, d, source, role, pay, asked) ==
    /\ IssueConduceSale(d, source, role, pay, asked)
    /\ Begin(r, d, doc[d].currency, FALSE)
    /\ UNCHANGED <<fx, pdf>>

\* assertConduceRetryMatches: the same source, payment and due date as before.
ConduceRetryMatches(d, source, pay, asked) ==
    /\ (source = "QUOTE_ISSUED") <=> (num[d]["COT"] # 0)
    /\ pay = ConfirmationPayment(d)
    /\ IF asked # 0
       THEN asked = snap[d].dueDate
       ELSE ~(/\ snap[d].type = "CASH" /\ doc[d].customer # DefaultCustomer
              /\ doc[d].gross > ConfirmationPayment(d))

\* The replay of an emission changes no sale, but asks for a missing rate again.
RetryConduce(r, d, source, pay, asked) ==
    /\ doc[d].status = "CONDUCE"
    /\ ConduceRetryMatches(d, source, pay, asked)
    /\ doc[d].currency = "USD" /\ fx[d] = NoRate  \* else nothing is left to do
    /\ Begin(r, d, doc[d].currency, FALSE)
    /\ UNCHANGED <<vars, fx, pdf>>

\* Mistake: the PDF is left to the confirmation, which a conduce never had.
ConvertWithoutDocument(r, d, fiscal) ==
    /\ ConvertConduceToInvoice(d, fiscal)
    /\ UNCHANGED <<fx, pdf, req>>

Convert(r, d, fiscal) ==
    /\ ConvertConduceToInvoice(d, fiscal)
    /\ BeginDocument(r, d)
    /\ UNCHANGED <<fx, pdf>>

-----------------------------------------------------------------------------
(* The administrator's recoveries *)

\* retryUsdProfitability: asks for the rate of the day of recognition.
RetryRate(r, d) ==
    /\ doc[d].status \in Recognised /\ doc[d].currency = "USD"
    /\ fx[d] = NoRate
    /\ req[r] = Idle
    /\ req' = [req EXCEPT ![r] =
                 Work("LOOKUP", d, [day |-> 0, asOf |-> snap[d].confirmedAt], FALSE)]
    /\ UNCHANGED <<vars, fx, pdf>>

RequestRegeneration(r, d) ==
    /\ pdf[d] = "FAILED"
    /\ req[r] = Idle
    /\ req' = [req EXCEPT ![r] = Work("REGENERATE", d, NoRate, FALSE)]
    /\ UNCHANGED <<vars, fx, pdf>>

\* Mistake: the outcome is written without asking that the PDF still is FAILED.
RegenerateBlindly(r) ==
    /\ req[r].stage = "REGENERATE"
    /\ \E outcome \in {"READY", "FAILED"} : pdf' = [pdf EXCEPT ![req[r].doc] = outcome]
    /\ req' = [req EXCEPT ![r] = Idle]
    /\ UNCHANGED <<vars, fx>>

\* Another regeneration may have been faster: then this one is refused.
Regenerate(r) ==
    LET d == req[r].doc
    IN  /\ req[r].stage = "REGENERATE"
        /\ \E outcome \in {"READY", "FAILED"} :
             pdf' = IF pdf[d] = "FAILED" /\ doc[d].status \in {"COMPLETED", "CANCELLED"}
                    THEN [pdf EXCEPT ![d] = outcome] ELSE pdf
        /\ req' = [req EXCEPT ![r] = Idle]
        /\ UNCHANGED <<vars, fx>>

\* The process stops: what was left to do after the commits is forgotten.
Crash ==
    /\ "PROCESS" \in Faults
    /\ \E r \in Requests : req[r] # Idle
    /\ req' = [r \in Requests |-> Idle]
    /\ dropped' = dropped \cup {req[r].doc : r \in {q \in Requests : req[q] # Idle}}
    /\ UNCHANGED <<vars, fx, pdf>>

-----------------------------------------------------------------------------
ACInit ==
    /\ Init
    /\ fx = [d \in Docs |-> NoRate]
    /\ pdf = [d \in Docs |-> "NULL"]
    /\ req = [r \in Requests |-> Idle]
    /\ dropped = {}

\* A handler with work left for after its commit.
Handle(r, d) ==
    \/ \E source \in {"DRAFT", "QUOTE_ISSUED"}, role \in Roles, pay \in Amounts :
         \/ Confirm(r, d, source, role, pay)
         \/ \E asked \in Days \cup {0} : \/ IssueConduce(r, d, source, role, pay, asked)
                                         \/ RetryConduce(r, d, source, pay, asked)
    \/ \E fiscal \in FiscalChoices : Convert(r, d, fiscal)
    \/ RetryRate(r, d)
    \/ RequestRegeneration(r, d)

\* A handler that is done when it commits.
HandleAtOnce(d) ==
    \/ EditDraft(d)
    \/ IssueQuote(d)
    \/ \E k \in ClientKeys, amount \in Amounts :
         \/ \E day \in Days : AddPayment(d, k, amount, day)
         \/ Cancel(d, k, amount)

\* What the server does by itself with a request it has taken.
Proceed(r) ==
    \/ (Lookup(r) \/ StoreRate(r) \/ StoreRateFails(r) \/ RenderDocument(r) \/ Regenerate(r))
          /\ UNCHANGED dropped
    \/ RenderOutcomeLost(r)

ACNext ==
    \/ \E d \in Docs : \/ HandleAtOnce(d) /\ UNCHANGED <<fx, pdf, req, dropped>>
                       \/ \E r \in Requests : Handle(r, d) /\ UNCHANGED dropped
    \/ \E c \in Customers, role \in Roles, profile \in Profiles :
         UpdateCustomer(c, role, profile) /\ UNCHANGED <<fx, pdf, req, dropped>>
    \/ NextDay /\ UNCHANGED <<fx, pdf, req, dropped>>
    \/ \E r \in Requests : Proceed(r)
    \/ Crash

\* The server goes on with what it has begun: the lookup has a timeout
\* (AbortSignal.timeout), a transaction commits or throws, a render ends.
ACSpec ==
    /\ ACInit /\ [][ACNext]_acVars
    /\ \A r \in Requests : WF_acVars(Proceed(r))

-----------------------------------------------------------------------------
RateType == [day: Nat, asOf: Nat]
WorkType == [stage: {"LOOKUP", "STORE", "RENDER", "REGENERATE"},
             doc: Docs, rate: RateType, document: BOOLEAN]

ACTypeOK ==
    /\ TypeOK
    /\ fx \in [Docs -> RateType]
    /\ pdf \in [Docs -> {"NULL", "READY", "FAILED"}]
    /\ req \in [Requests -> WorkType \cup {Idle}]

\* What the CHECK constraints of the database ask for: a rate only with a USD
\* sale that was recognised, a PDF outcome only with one that has an invoice
\* number.  The rows are written long after they were read.
AfterCommitShape ==
    \A d \in Docs :
        /\ fx[d] # NoRate => /\ doc[d].currency = "USD"
                             /\ doc[d].status \in Recognised \cup {"CANCELLED"}
        /\ pdf[d] # "NULL" => /\ num[d]["FAC"] # 0
                              /\ doc[d].status \in {"COMPLETED", "CANCELLED"}

\* The rate an administrator recovers is the one of the day of the sale, however
\* late the retry is and whoever else is looking a rate up meanwhile.
RecoveredRateIsOfSaleDay ==
    \A d \in Docs : fx[d].asOf # 0 => fx[d].day = snap[d].confirmedAt

\* What was looked up and rendered for a sale is stored with the sale it is of, though
\* the request that stores it read the sale transactions ago.
OutcomesBelongToTheirSale == AfterCommitShape /\ RecoveredRateIsOfSaleDay

\* A stored rate is never replaced and never lost, a PDF that is READY stays so (of two
\* requests that race to store an outcome only one does), and a cancelled sale takes no
\* rate any more, however late the answer arrives.
OutcomesFinal ==
    [][\A d \in Docs : /\ fx[d] # NoRate \/ doc[d].status = "CANCELLED" => fx'[d] = fx[d]
                       /\ pdf[d] = "READY" => pdf'[d] = "READY"
                       /\ pdf[d] # "NULL" => pdf'[d] # "NULL"]_acVars

\* An invoice gets its PDF outcome unless it is cancelled first, and unless the process
\* stops or the database fails just when the outcome is owed: a rate that cannot be looked
\* up or stored, or another request at work on the sale, does not cost it its document.
InvoiceGetsDocument ==
    \A d \in Docs : doc[d].status = "COMPLETED"
                        ~> (pdf[d] # "NULL" \/ doc[d].status = "CANCELLED" \/ d \in dropped)
=============================================================================
