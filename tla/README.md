# Verification of Solo Camiones

Solo Camiones is the back office of a truck parts and repair business: quotes, delivery notes
("conduces"), invoices, customers on credit, payments, cancellations, profitability in two
currencies, PDF documents, an assistant, and the inventory and work orders of a yard. This
directory holds TLA+ models of the API (`apps/api`) and of the web client (`apps/web`), the TLC
configurations that check them on small instances, and proofs that the TLA+ proof system checks for
every instance. All source references are relative to `src/`; `features/` stands for
`apps/api/src/features/` unless it follows `apps/web`.

Contents: [the system](#1-the-system) · [modules](#2-modules-and-how-they-correspond-to-the-code)
· [runs](#3-runs) · [fairness](#4-fairness) · [proofs](#5-proofs) · [findings](#6-findings) ·
[what is left out](#7-what-is-not-modelled) · [plan](#8-plan)

## 1. The system

One Node.js process serves the API over one PostgreSQL database. Every handler that changes
state runs its reads, checks and writes in one transaction at SERIALIZABLE isolation, retried on a
conflict, with four attempts at most (`features/*/transaction.ts`). So handlers interleave as whole steps;
the interesting concurrency is

- **between transactions of one request**: the exchange rate is looked up and stored after the
  commit of a USD sale, the PDF is rendered and its outcome stored after that; a login verifies a
  password before the transaction that opens the session; a turn of the assistant reserves, streams and
  completes in three transactions. In between, other requests run, the day changes, the process may stop;
- **between transactions of many requests**: rules that relate several rows (a credit limit over
  all documents of a customer, three numbering series, a customer's profile against its open
  sales, the last administrator) must survive any order of handlers;
- **between the API and what it cannot roll back**: the rate provider, the vector store of the
  assistant, the model's stream to the browser;
- **between the browser and the API**: requests and answers that are lost, late or overtaken by
  others, in several tabs, under forms that stay open meanwhile.

The yard (inventory, work orders, counter) has no API yet; its rules are in the web prototype, which
keeps one state object in the browser and runs a command to its end before the next.

| Component | State it keeps | Operations | Talks to | What must be right |
|---|---|---|---|---|
| Sales lifecycle (`features/sales`) | `Invoice`, `InvoiceLine`, `InvoiceSequence` | drafts, quotes, confirm, issue conduce, convert, pay, cancel | customers and payments in its transaction; rates and PDF after it | numbering, what recognition freezes, who may leave a balance open, until when |
| Payments ledger (`features/payments`) | `InvoicePayment` | payment, refund, by idempotency key | called by sales | never over-collected or over-refunded; a retry never counts twice |
| Customers (`features/customers`) | `Customer`: type, RNC, limit, term | create, update | read by recognition; reads sales on CREDIT→CASH | a profile never contradicts the sales granted under it |
| Profitability and FX (`features/profitability`, `infrastructure/fx`) | rate columns, manual profit of `Invoice` | lookup after recognition, administrator's retry, manual profit | rate provider (external, with timeout) | one rate per sale; calculated and manual profit never mixed up |
| Invoice documents (`features/invoice-documents`) | `pdfStatus` of `Invoice` | initial outcome, regenerate, download | renderer | every invoice gets an outcome, a READY one stays |
| Money (`features/sales/money`) | none | line, discount, ITBIS, totals, profit | used by sales | parts add up to totals after rounding |
| Receivables, statements, reports | none (projections) | list, statement, seller report, screens, assistant tools | read sales and payments | all give the same answer |
| Transactions (`features/*/transaction.ts`) | the attempt of a request | run, retry, refuse | PostgreSQL | an effect happens once, under a rule that holds where it happens |
| Access and users (`features/access`, `features/users`) | `Session`, `User`, recovery requests, their events | login, logout, profile, create, update, recover | every handler rereads the actor | last administrator remains; no session outlives its credentials |
| Assistant turns (`features/assistant`) | conversations, messages, runs | reserve, stream, complete, fail, replay, purge | model (external), tools | one run per conversation, quota, what is shown is what is stored |
| Knowledge sync (`features/assistant/knowledge-*.ts`) | document rows, remote files | plan, upload, index, retire | vector store (external) | serves only what was approved; converges after any partial failure |
| Assistant panel (`apps/web/src/features/assistant`) | thread, stream, drafts of one tab | select, ask, retry, delete | the API's stream | text appears in its own conversation, a question is asked once |
| Web client: lists, session, dialogs, invoice page, point of sale | what each hook, page, form and tab holds | load, reload, walk pages, log in and out, edit, confirm, undo | the API, other tabs | what is shown is of now; a command is done once; forms send what they show |
| Yard (`apps/web/src/mocks/services`) | items, stock, orders, reservations, catalog | reception, dismantling, installation, quote, sell, cancel, recover | sales of its own | one tree, holds that belong to lines, stock that adds up |
| Catalog attributes (`apps/web`, catalogs) | definitions and recorded facts | define, rename, register, edit | yard items | facts follow their definition |
| History, health, CLI, HTTP layer, renderers, deployment | | | | no rule across rows, or I/O only |

`PROJECT.json` lists all components with their status, and the hazards of this code with the line
where each bites and the properties that watch it.

## 2. Modules and how they correspond to the code

| Module | Models | Run |
|---|---|---|
| `SaleLedger` | the promise about money: a sale is recognised once, collected up to its amount, closed once (abstract) | `sale` |
| `Sales` | the commercial aggregate: every state-changing handler of `SalesService`, and `CustomerService.update` | `sale`, `sales_pair` |
| `AfterCommit` | extends `Sales` with what a request does after its commit: rate, PDF, retries, crash | `sale` |
| `AtomicRequests` | what a caller may rely on: a request happens once, at one moment, or not at all (abstract) | `web` |
| `Transactions` | the serializable wrapper: snapshot, validation, conflict, four attempts, refusal, crash | `web` |
| `Access` | login, logout, `requireAuth`, role gates, profile, users, recoveries and the events they append | `access_yard` |
| `AssistantTurn` | a question from the HTTP request to the end of its stream; reservation, quotas, completion, failure, replay, purge | `assistant`, `assistant_live`, `stopped_run` |
| `KnowledgeSync` | the sync command call by call against rows and remote files | `assistant`, `assistant_live` |
| `AssistantChat` | the panel of one tab with every call it awaits | `chat`, `assistant_live` |
| `WebPages` | the hooks that load, reload and cancel, and the commands that change what they show | `web` |
| `PageWalk` | a list read page by page while rows come and go | `web` |
| `WebSession` | who the client believes is signed in, in several tabs | `web` |
| `InvoiceDesk` | payments and cancellations sent until answered, by invoice pages and scripts | `counter` |
| `PosTab` | the point of sale in tabs: drafts, forms, confirmation, discard, undo | `counter` |
| `YardTree`, `Yard` | the tree of pieces, and the inventory, work-order and counter commands over it | `access_yard` |
| `SaleFigures` | the figures of one sale in cents, from its lines to its profit | `rules` |
| `Books` | the books of many sales and the five ways they are read | `rules` |
| `Dialogs` | every dialog of the client: what it opens with, checks, sends and does with the answer, and the list behind it | `rules` |
| `Attributes` | attribute definitions of a category and the facts recorded under them | `rules` |
| `MC*` | instances for TLC. Those of several parts extend them all; their initial state chooses one part (`scene`), the others rest | |
| `SumLemmas` | sums over finite sets and induction over their subsets, for the proofs | |
| `SalesProofs`, `AfterCommitProofs`, `AccessProofs`, `AssistantProofs`, `WebProofs`, `ScreenProofs`, `YardProofs` | theorems, see [proofs](#5-proofs) | |

`AfterCommit` composes with `Sales`: its commercial steps are the actions of `Sales` conjoined with the
start of the work that follows. `Transactions` shows what the atomic steps of every other module stand
for. The other compositions are by scene, because the parts share no state; they exist so that one run
checks each.

### Sales

One action per handler: `CreateDraft`, `CreateQuote`, `UpdateMeta`, `AddLine`, `SetLinePrice`,
`RemoveLine`, `Discard`, `IssueQuote`, `DuplicateQuote`, `CompleteSale` (confirm and quote
conversion share it, as in the code), `IssueConduceSale` (likewise), `ConvertConduceToInvoice`,
`AddPayment`, `Cancel`, `UpdateCustomer`, and `NextDay` for the calendar. A guard of an action is
a check of the handler; a handler that throws rolls back and is no step at all.

| Variable | Columns |
|---|---|
| `doc[d]` | `status`, `customerId`, `currency`, `fiscal`, whether there are lines, and `gross`, the total of the lines with discount and ITBIS |
| `num[d]`, `seq` | `number` (FAC), `conduceNumber` (CON), `quoteNumber` (COT), and `InvoiceSequence.nextValue`; 0 is NULL |
| `snap[d]` | what issuing and recognition freeze: RNC, quote expiry, `confirmedAt`, `invoiceIssuedAt`, `dueDate`, customer type and term, role of the actor |
| `rows[d]` | `InvoicePayment` by idempotency key |
| `money[d]` | what `sumKind` adds up from those rows (`MovementsAddUp` checks that it does) |
| `cust[c]` | customer type, presence of a valid RNC, limit, term |
| `today` | the business day |

Abstractions, and why they are faithful:

- *Totals.* The lines of a document are the total they give. An editing handler may set any total
  its effect allows: adding a line never lowers it, removing one never raises it, changing a
  price, the discount or the ITBIS flag may do either; without lines it is 0. A total stays what it was
  between the last edit and recognition because the handlers recompute it from the same lines (and
  an issued quote from its frozen lines); `SaleFigures` looks at that arithmetic.
- *Days.* An instant is its business day. The code distinguishes the business day (America/Santo
  Domingo) from the UTC day in one place, the exchange rate; the model does not, so a sale after
  20:00 local time is a case it does not show.
- *No payment.* An initial payment of 0 stands for a request without one, since the schema refuses
  an amount of 0. A refund of 0 writes no movement, as in the code.
- *Actors* are their role; a handler open to both roles does not mention it. Inactive users and
  users who must change their password are refused before anything happens.
- *Methods, references, reasons, names, notes* decide nothing but the replay of a request, which
  changes nothing: a replay is a stuttering step (`InvoiceDesk` has the replays with their answers).
- *Identity.* `Docs` are the rows that exist at once. A discarded draft frees its identity, as if the
  row had been deleted and another inserted.

### AfterCommit

Adds `fx[d]` (the day whose rate was stored, and the day that was asked for, 0 for the rate of now),
`pdf[d]` (`pdfStatus`) and `req[r]`, what each of a bounded set of requests still has to do:
`LOOKUP` → `STORE` → `RENDER`, or `REGENERATE`. `Confirm`, `IssueConduce` and `Convert` are the
actions of `Sales` conjoined with the start of that work; every other handler of `Sales` is taken
over unchanged. Each step is one `await`: `Lookup` the HTTP call, `StoreRate` the second
transaction, `RenderDocument` the render and the third one, which the code repeats with FAILED if
the first attempt to store the outcome throws. A request keeps what it read: the row of the first
transaction if storing the rate fails, the row read again if it does not. `RetryConduce` is the replay of an emission: it changes no
sale but looks the rate up again. `RetryRate` and `RequestRegeneration` are the administrator's.
`Faults` says what may go wrong: `"DATABASE"` (a later transaction fails), `"PROCESS"` (`Crash`);
`dropped` remembers the documents whose request such a fault ended.

### Transactions and Access

`Transactions` takes one handler, the change of an administrator's role, and gives it the steps of the
wrapper: `BeginAttempt` reads everything from a snapshot, `Commit` requires that the snapshot still
holds (PostgreSQL refuses a serializable transaction otherwise), `Conflict` ends an attempt and begins
the next up to `MaxAttempts`, also without cause, `RefuseRequest` is a rule that does not hold, and
`ProcessStops` a crash. `AtomicRequests` is what remains for a caller.

In `Access` a handler that runs in `accountTransaction` is one step, and what the code reads before it is
a step of its own: `LoginRead`/`LoginCommit` (the password is verified, then the session rotated),
`ResolveSession`/`ResolveUser` (`requireAuth`), then the handler, and `ProfileRead`/`ChangePassword`.
`SetCookie` may lose the answer. Passwords are numbers that never repeat (`lastHash`), tokens are names,
the clock is bounded. `cred` on a session or a recovery is what it was granted under: it is no column but a
history variable, and only properties read it.

### Assistant

`AssistantTurn` has a step per database transaction and per event of the stream; a turn is named by
`(conversationId, clientRequestId)`, as its unique constraint names it. The model and the tools answer,
fail or time out freely; texts are abstracted to what the gate of the evidence tells apart. A request ends in one of five ways:
`refused` before its stream, `ended` with the outcome its client was told, `unknown` (the stream told an error that says
nothing of the turn: the reservation failed, `service.ts:352-371`, or a read of the replay did), `unsettled` (the process stopped
over the run it had reserved, or the database refused to store the failure) and `cut` (it stopped before there was a run). The replay
of an answer reads the message and its sources in two steps, between which the conversation may go.
`KnowledgeSync` has a step per provider call and per statement; any may fail and the command may
die between two (`MaxFaults`, `MaxSwaps` bound it). `AssistantChat` has a step per answer that the
provider component of the panel awaits.

### Web client

`WebPages` holds one record per hook and page (what stays on the screen while it loads, what an answer
does, what is left after an error) and one set of actions for all; `RunEffect` sends a load and cancels
the previous one as the effect's cleanup does. `PageWalk` reads rows and count in two queries, as Prisma
does: the rows first where the repository awaits one after the other, either first where it issues the two together
(`SalesRepository.list`). A row joins a list at its end (users) or anywhere (an older draft that is completed, a customer by name). `WebSession` separates sending, handling and answering of each request, because the cookie counts
when it is sent and the session when it is handled. `InvoiceDesk` lets each command be lost before or after
its execution, and the tab sees the same error. `PosTab` follows `runExclusive`, the address of the page and
the undo notice that outlives it. `Dialogs` describes each dialog by what its fields start with, what its
inputs change, what it checks and what it sends, and what an answer does; values are "nothing, what the page showed,
what I typed, what another wrote". The list behind a dialog loads as the page does (`load`): it reloads after a save or a search, the dialog stays
or goes with it, and a load that fails replaces the page by its error and takes an open dialog along. `Attributes` is in the same style over the definitions of a category.

### Yard

`YardTree` is the tree and what is read off it (roots, holds, completeness); `Yard` has one action per
command. Prices and customers are left out: where a command asks whether a sale may be recognised either
answer is taken. A receipt brings a checklist of pieces staged under one root (`IsNested`: no staged piece is under
itself, as the tree of the form cannot be otherwise), and categories start with names of their own
(`YardAssumption`); that both stay so is shown.

### Figures and books

`SaleFigures` follows one sale from its lines to its profit in integers (cents, hundredths), rounding where
the code rounds. `Books` keeps sales and payments of several days and states each report the way its own code computes it:
SQL, API, assistant and browser.

### Mutants

The operators named for a mistake (`RetryOnceMore`, `StillActive`, `OffsetByOne`, ...) are plausible bugs. None is used
by a specification; `PROJECT.json` says which definition each one replaces to show that a property notices.

## 3. Runs

| Run | Instance | Distinct states |
|---|---|---|
| `sale` | one document, generic and named customer, DOP and USD, fiscal or not, totals 0..2, limits 1 and 2, 3 days, 2 keys; and the same document with two requests after their commit, failing transactions and crashes | 391,062 |
| `sales_pair` | two documents of one customer, one limit, three series, two days | ≈ 1,941,348 |
| `assistant` | three requests about two questions of one conversation, with a failing database; a sync over two documents of two texts with one fault, one swap of the store, three edits | ≈ 1,537,270 |
| `assistant_live` | small instances of turns (two requests of one user over two days, and a process that may stop over them), sync (two faults) and panel, under fairness | 357,035 |
| `chat` | one stored conversation and room for another, two streams, two loads | 3,394,956 |
| `access_yard` | two browsers, two accounts, two tokens, one recovery, two instants; and a truck, its engine, its alternator, and oil, with two orders and three documents | ≈ 508,851 |
| `web` | every page with two queries and three loads; lists of four and five rows in pages of two; two tabs and two users; three requests on three accounts | 266,499 |
| `counter` | two invoice pages and a script, one answer lost; two tabs of the point of sale, two drafts | 1,730,273 |
| `rules` | two lines at every discount; two sales over three days; two dialogs on every page, over loads that may fail (the list of customers searched after its first dialog); two attributes and one piece, three edits of its facts | 517,045 |
| `stopped_run`, `desk_replay`, `pos_late` | small; a counterexample each, see [findings](#6-findings) | |

A property of a run is often the conjunction of named parts, each stated and commented in its module; a
run checks them together.

| Run | Property | What it says, and why it is not obvious |
|---|---|---|
| `sale` | `RowShape`, `OutcomesBelongToTheirSale` | the CHECK constraints of the migrations, for commercial and for rate and PDF columns: no path of the service ends in a database error; a rate recovered later is that of the sale's day |
| | `MoneyBounded`, `MovementsAddUp` | no sale is over-collected or over-refunded whatever the sequence; what is added up is what was stored |
| | `FiscalIdentityFrozen` | survives any edit of the customer between emission and conversion |
| | `CreditHonoured` | for an open sale at any later time there is the grant behind it: frozen type, currency, actor and document kind, not the customer as it is now, and across the conversion of a conduce |
| | `RecognitionFinal`, `LedgerImplemented` | nothing recognised is rewritten by any handler, and the money of a document behaves like the four-action ledger |
| | `OutcomesFinal`, `InvoiceGetsDocument` | two requests whose lookups and transactions interleave on one sale never replace an outcome; every invoice eventually has one unless a fault took its request |
| `sales_pair` | `ExposureGrowsWithinLimit` | an action property over a sum: a limit may be lowered below what is owed, but no step makes a CREDIT customer owe more than the limit of that moment |
| | `NoCreditLeftBehind` | relates the live customer to frozen sales; holds only because the check on CREDIT→CASH counts conduces |
| | `NumbersSound`, `NumbersChronological` | no gap, no repetition, and the order of documentary dates, although conversion draws an invoice number days after recognition |
| `access_yard` | `CredentialsAreCurrent` | no session outlives the password or the activity it was granted under, no recovery a later password; three overlapping requests are needed to break it |
| | `AnAdministratorRemains`, `AccountsChangeByRight` | two administrators let through before either is demoted; authority is of the moment of the change, settled is settled, events replay to the tables |
| | `TreeIsSound`, `HoldsAgree` | one tree, completeness derived, one active order per piece; holds, lines and stock agree after any order of commands |
| `assistant` | `RunsAreSettledOnce`, `AnswersHaveEvidence`, `StreamTellsTheConversation` | one run per conversation, an outcome is kept, `done` was said only of the text that is stored, and `error` of a turn that never gets one, unless the database failed before the turn was there |
| | `CorpusIsApproved` | what can be served was approved, is indexed, and is gone once removed, through any partial failure |
| `assistant_live` | `QuotaHolds`, `InterruptionsEnd`, `RetriesConverge` | the limit is counted before the turn is inserted; runs end although the process may stop, save those it stopped over (`stopped_run` shows them); syncs repeated until they succeed converge |
| `chat` | `PanelTellsItsConversation` | text lands in the conversation it was asked in; a retry takes its draft back once |
| `web` | `ListsAreCurrent`, `WalksAreWhole`, `SessionIsShown` | a late answer never replaces a newer one; a walk misses nothing, and of sales no more rows than joined between a count and its rows; the user shown is one the server has confirmed, and the next user does not inherit the screen |
| | `EffectsAreAtomic`, `SomeAdministratorRemains`, `EverythingIsAnswered` | the wrapper implements `AtomicRequests`; every page, walk, session and request comes to an end |
| `counter` | `DeskTellsTheLedger`, `DraftsAreAsReviewed` | a form moves money once however often it is sent, what the page says is stored is stored; a line is added once per form, what is collected was reviewed |
| `rules` | `FiguresAddUp`, `ReportsAgree`, `DialogsTellTheirRows`, `FactsFollowTheirAttributes` | parts add up to totals after rounding; five ways of counting agree; forms neither overwrite others nor lose what was typed, unless the list behind them fails to load; facts survive edits of their definitions |

**Bounds.** One document reaches every status by every path, and two are what a limit, a series or a
copy of a quote needs to be contended. Totals 0..2 give an unpaid, a partly paid and a paid
document, and a refund that is nothing, part or all. Three days put recognition, conversion and
payment on different days, past the expiry of a quote and past a due date; where only the order of
two events matters two days do. One named customer besides the generic one suffices since no rule
relates two named customers; it takes all profiles in turn. Two requests, browsers, tabs or desks are what a race
needs; three where the third overtakes (turns of the assistant, serializable requests). One fault,
lost answer or edit more than the protocol tolerates shows what a second would. Limits and terms include the boundary
(limit equal to a total, due on the last day, the fourth attempt). Bounds are constants used in guards (`MaxDay`,
`MaxAmount`, `MaxCalls`, ...), never state constraints. Where the second scene of a run is smaller than the first
(`Plain` in `MCSale`) it leaves out what the first one covers.

**Symmetry** is used in `sales_pair`, `assistant`, `access_yard` and `counter`, on names no action singles out, and never
with liveness.

**Deadlock** is checked in `sale`, `sales_pair` and in every run where somebody can always act; runs whose bounded
users may have nothing left to do say `CHECK_DEADLOCK FALSE`.

## 4. Fairness

Users and administrators need not do anything; fairness is stated only of what the server or the
browser goes on doing by itself.

| Where | Fair | Why the code justifies it |
|---|---|---|
| `AfterCommit` (`Proceed(r)`) | a request once taken goes on | the lookup carries `AbortSignal.timeout` (`infrastructure/fx/exchange-rate-api.ts:138`), a transaction commits or throws, a render ends |
| `AssistantTurn` (`Serve(r)`) | a turn in progress goes on, while its process lives | a timeout per request bounds the calls to the provider |
| `KnowledgeSync` (`Work`, `StartSync`) | a command goes on, and the operator runs it again | the runbook asks for it (`docs/assistant-ops/RUNBOOK.md:161`) |
| `AssistantChat` (`Reads`, `QuestionAnswers`) | streams and answers arrive | `fetch` settles, a stream ends or fails |
| `WebPages`, `PageWalk`, `WebSession` | loads are answered | `fetch` settles |
| `Transactions` (`Works`) | an attempt goes on | the loop of the wrapper has a bounded number of turns |

With faults, `InvoiceGetsDocument` says nothing of a document whose request a fault ended (`dropped`): nothing in the code
takes up such a request. `InterruptionsEnd` says as little of a run whose request ended without settling it (`Forsaken`); that such
a run is PENDING for ever is a [finding](#6-findings).

## 5. Proofs

`tlapm` checks the theorems below for every value of the constants: any set of documents, customers,
accounts, requests, any limits, terms and bounds that the named assumptions allow (`SalesAssumptions`,
`AfterCommitAssumptions` and the like: sets are finite, limits and terms are positive, the generic customer is a
customer). TLC evaluates those assumptions on every run that extends the module.

| Module | Theorem | Property | Argument |
|---|---|---|---|
| `SalesProofs` | `TypeCorrect` | `TypeOK` | inductive as it stands, handler by handler |
| | `MoneyIsBounded` | `MoneyBounded` | inductive: every handler that takes or gives back money checks the balance in its own transaction |
| | `FiscalIdentityIsFrozen` | `FiscalIdentityFrozen` | needs that the RNC is frozen with the number and that the generic customer is never fiscal |
| | `NumbersAreSound` | `NumbersSound` | the sequence is above every number, and every number below it is taken; only `Allocate` moves either |
| | `ServiceImplementsLedger` | `LedgerImplemented` | step simulation: each handler is a step of `SaleLedger` or a stutter |
| | `RowsAreWellShaped` | `RowShape` | inductive together with `DatesPast`: a conversion dates the invoice today, and the constraint that the invoice is not earlier than the recognition would fail if a date could lie ahead |
| | `CreditIsHonoured` | `CreditHonoured` | needs `MoneyBounded` and `RowShape`: before recognition nothing was received, so the balance recognition leaves is the one its policy allowed; afterwards it only falls |
| | `CreditIsNotLeftBehind` | `NoCreditLeftBehind` | from `CreditHonoured`: a balance in dollars was never granted on credit, and the check of `UpdateCustomer` sees all others |
| | `RecognitionIsFinal` | `RecognitionFinal` | `FinalStep`: seven cases of `StepEffect`, with `RowShape` for the numbers a status implies |
| | `NumbersFollowDates` | `NumbersChronological` | a number drawn is above all others (`NumbersSound`) and its date is not before theirs (`DatesPast`) |
| | `CreditStaysWithinLimit` | `ExposureGrowsWithinLimit` | each of the seven ways a document can change leaves the others' debts, so the sum moves by one term; it grows only by recognition, which compares the sum of its own transaction with the limit |
| | `MovementsAreTheMoney` | `MovementsAddUp` | inductive with the facts that a sale has finitely many rows, none before it is recognised (`Booked`); a step books one row of one sale (`StepBooks`) |
| `AfterCommitProofs` | `ACTypeCorrect` | `ACTypeOK` | |
| | `OutcomesAreOfTheirSale` | `OutcomesBelongToTheirSale` | inductive with `WorkIsOwed`: what a request in flight carries (document, day asked for, PDF owed) still is true of its sale, because `RecognitionFinal` keeps it so; with `SalesStep` every theorem about `Sales` holds here |
| | `OutcomesAreFinal` | `OutcomesFinal` | only two steps store an outcome, each under the test its transaction makes |
| `AccessProofs` | `CredentialsStayCurrent` | `CredentialsAreCurrent` | what a session or a pending recovery was granted under is what the account has; requests in flight carry what they read, and the commit compares it |
| | `AdministratorRemains` | `AnAdministratorRemains` | as above, over accounts that are read again where the change is made |
| | `AccountsChangeOnlyByRight` | `AccountsChangeByRight` | action properties from the same invariant |
| | `WrapperIsAtomic` | `EffectsAreAtomic` | refinement: a valid snapshot is the state, so a commit is the request's atomic step and every other step a stutter |
| | `AnAdministratorIsLeft` | `SomeAdministratorRemains` | the actor of a change that is permitted is an administrator and keeps the role |
| | `AttemptsAreBounded` | | a request ends or begins a numbered attempt |
| `AssistantProofs` | `RunsEndOnce` | `RunsAreSettledOnce` | `TurnInv`, below: a conditional update only meets a turn that is PENDING, so nobody who comes second writes |
| | `AnswersRestOnEvidence` | `AnswersHaveEvidence` | part of `Rows` in `TurnInv` |
| | `StreamsTellTheConversation` | `StreamTellsTheConversation` | what a client may have seen at every step of its request (`SeenFits`), against the row the request works on; a request that ended `unknown` has stored nothing, so that its turn may still be answered by another |
| | `QuotasHold` | `QuotaHolds` | `Reserve` counts in its own transaction; time only takes turns out of the window, and every other handler leaves their age (`RowsAge`) |
| | `OnlyApprovedIsServed` | | whatever commands run and overlap, a row only ever holds a text that was approved, and is written READY with the text its file has |
| | `CorpusStaysApproved` | `CorpusIsApproved` | `KnowledgeInv`, below; of behaviours in which no two commands run at once (`[]Alone`) |
| `WebProofs` | `PagesAreCurrent` | `ListsAreCurrent` | a page that is not loading shows what the last answer to its own load said; an answer to an earlier load is dropped where the hook compares its generation |
| | `ListsAreReadWhole` | `WalksAreWhole` | every row of the first list was read or lies ahead of the offset; insertions only push rows ahead, and a table that nothing leaves is never read past. Where the count comes first, as many rows may be unread as joined since (`grown`), counted against the count (`AheadIsCounted`) |
| | `SessionStaysTrue` | `SessionIsShown` | `SessionInv`, below |
| `ScreenProofs` | `DesksTellTheLedger` | `DeskTellsTheLedger` | `DeskInv`, below |
| | `DraftsAreReviewed` | `DraftsAreAsReviewed` | `PosInv`, below |
| | `PanelStaysWithItsConversation` | `PanelTellsItsConversation` | `ChatInv`, below |
| `YardProofs` | `YardHolds` | | `YardInv`, below, command by command |
| | `HoldsStayInAgreement` | `HoldsAgree` | the stock is a sum over documents of which a command changes one; what the screens offer is what the commands test, read from the same state |
| | `TreeStaysSound` | `TreeIsSound` | the tree is well-founded (`NoLoop`), and what a command takes off a piece it records as missing |

The second part of `SalesProofs` says first which fields each of the seven ways a document can change sets and leaves
(`Edited`, `Quoted`, `Sold`, `Delivered`, `Invoiced`, `Collected`, `Closed`), and proves once that every step of
the service is one of them (`StepEffect`); each rule is then a matter of seven cases. `AfterCommitProofs`
does the same for requests (`RequestsMove`) and outcomes (`RateStored`, `OutcomeStored`).

The sums need induction over data, and the induction theorems of the library take the property as an operator, which
no prover here can instantiate. `SumLemmas` goes another way: a property is given as the set of the subsets that have it,
and a least element of a well-founded order replaces the induction (`SubsetInduction`). A sum is shown to be the
number of units in what is added (`Count`), whatever order a fold takes (`FoldingCounts`); what is added, taken away
or left alone is then a matter of cardinalities (`CountOfAdded`, `CountOfNext`, `CountOfZeros`).

The properties of the turns are not inductive: a request holds the identity of its turn through many steps, in which
the turn may be taken over by a retry, expire, or be deleted with its conversation. `TurnInv` says what still is
true meanwhile: the row is as the step of the handler says (`Fits`) unless its conversation is gone, no two requests
work on one turn, and nobody works on one whose client was told an error (`Workers`). TLC checked it first
on three requests with both kinds of fault. A request that ended `unknown` is in none of this: it holds no turn.

A command of the knowledge sync acts on rows and a list of files it read before. `KnowledgeInv` says for each of its
steps what still is true of them (`Command`): an action finds its row as the plan did (`Planned`), the file it uploads is named by
no row until the row is written (`Carried`), a listed file that serves a READY row is still there (`Listed`), and a document
without an action left needs none (`Progress`). TLC checked it first on 480 thousand states. Of this, that what is quoted was approved
holds of any number of commands that overlap in any way (`OnlyApprovedIsServed`). The rest is said of behaviours in which at most one
command is at work at a time, and the theorem has that as its antecedent (`KnowledgeSpec /\ []Alone => CorpusIsApproved`), for any number of commands one after the
other: nothing in the code keeps two apart, the runbook has one operator run it (`docs/assistant-ops/RUNBOOK.md:149-161`), and of two at once the rest is false (see
the hazard at `knowledge-sync.ts:235`). The instance that TLC checks has one command.

Of the client, `WalksAreWhole` needs an assumption the first version of `PageWalk` did not state: the last page it may
ask for (`MaxPage`, which stands for a loop without bound) lies beyond the list. `SessionInv` relates the answers in
flight to the tab they will be given to: a load is the only one of its generation, so the tab takes
the last it began; what a load carries is true of the cookie it was sent with unless the cookie changed since
(`clean`), and only then does the tab know who is signed in (`known`); a form is only sent by a tab that is not loading. TLC
checked it first on the six million states of a session in two tabs. The proof also showed that
two CASEs of `WebSession` had guards that overlap, which TLA+ leaves to CHOOSE; they are disjoint now, in the order
in which the code tests them.

The three screens of `ScreenProofs` send a command in one step, which is executed in another and heard of in
a third. Their invariants say what may be true in between.

- `DeskInv`: a command that succeeded stands, also before its caller knows (`Words`); an answer a desk will still show,
  and the one it shows, have every payment the desk was told of (`LoadsTell`, `PagesTell`), since the load that would show less is
  older than the one the desk waits for. What is refunded goes with the cancellation (`BooksHold`).
- `PosInv`: a form whose command was answered, or that can send none any more, is settled (`Forms`). A settled
  form is held by one thing at a time: its line in the draft, the command that removes or restores it, the notice that
  offers the undo, or a draft being restored (`OneHolder`); so no undo adds a line that is there. What was restored up to now
  is a beginning of what was discarded, while nobody else wrote to the draft (`Restoring`). TLC checked it first on 1.7 million states.
- `ChatInv`: a stream that is heard is the active one, of the selected conversation, and has the last identifier
  of its question (`IsLast`); a question has a later identifier only when the user stopped the earlier attempt or was told
  how it ended (`AskedAgainWhenSaid`); what the API stores was sent (`TurnsWereSent`). TLC checked it first on 3.2 million states.

`YardInv` has five parts: `Inventory` (the tree, and completeness against the parts recorded as missing), `Catalogued` (reviews
and names), `Ordered` (one active order for each piece, and none to install a piece that is installed), `Documented` (a free number
has a blank document; a hold is of a draft with a line for it) and `Stocked` (reserved, on hand and sold, as sums over
documents). They are needed together: the sale of an installed piece, for
instance, looks for an active order to dismantle it and not for one to install it, so that a second order is excluded by
`Ordered` and not by a test of the command. TLC checked it first
on the yard's scenes.

The tree is read by a recursive function, `ancestorChain`, of which the provers know nothing but its equation. It is
shown to be a walk from piece to parent (`ChainIs`), by counting up (`CountingUp`, again a least subset in place of an
induction). That the walk ends is `NoLoop`: every set of pieces has one whose parent is outside. This says it without
recursion, and each command keeps it: taking a piece off (`CutKeeps`), putting one on a piece that is not among its
descendants (`PutKeeps`), and arrivals nested under one root (`AddedKeeps`).

Four things came out of these proofs. `NamesKeepTheirCategory` was false as first stated: the names a category expects
may be free text (`CategoryFormModal.tsx`), so that a new name may adopt entries that were about no category;
it says now (`SameCategory`) that none is taken from another category. That a checklist has one root and that names differ
at the start was only true of the instance; they are assumptions now. `RemoveLine` of `PosTab` removed
every line equal to the one named, which is one line only because identifiers are unique; it removes one now, as the
service does, and the proof needs nothing of identifiers. And `ChatAssumption` did not say that no conversation is `NoConv`,
without which "nothing is selected" could be a conversation.

Checked by TLC only:

- *Liveness* (`InvoiceGetsDocument`, `InterruptionsEnd`, `RetriesConverge`, `EverythingIsAnswered`): the provers
  here do not handle fairness and ENABLED.
- *Figures* (`FiguresAddUp`, `ReportsAgree`): what a recursive definition computes for every input is induction over data;
  these are sums of rounded lines and walks over sequences of movements, beyond what `SumLemmas` reaches.
- `DialogsTellTheirRows`, `FactsFollowTheirAttributes`: no proof has been attempted.
## 6. Findings

Three statements of the repository do not hold of the code. Each has a run whose counterexample is short.

1. *An executed cancellation is refused when it comes again* (`desk_replay`). "key reuse is only idempotent when the
   command matches what was already persisted" (`features/sales/service.ts:974`). A cancellation without refund writes no
   movement; under the key of an earlier payment it is executed, and its exact replay is compared with
   that payment and refused as a mismatch (`service.ts:981`).
2. *The draft that is confirmed is not the one that was shown* (`pos_late`). "el modal de confirmar ya es la
   revisión" (`docs/done_web/UX_FRONTEND_HARDENING/ux-5.md:24`). `applyDraftResult` shows the draft of any late
   answer, whatever address the page has gone to since (`apps/web/src/features/sales/usePos.ts:220`).
3. *A run whose process stops is PENDING for ever* (`stopped_run`). "Stream interrumpido" ends in "FAILED/CANCELLED y retry
   seguro" (`docs/chatbot_implementation/IMPLEMENTATION_PLAN.md:747`). No job and no start-up code looks at PENDING runs;
   the conversation refuses every later question (`features/assistant/reserve-turn.ts:48-51`), and the same question is refused too
   (`features/assistant/service.ts:217-220`). Deleting the conversation is the way out. `InterruptionsEnd` is what does hold, with stops included: every
   other run ends.

Behaviour met while modelling that contradicts no statement of the repository as plainly, and that the
properties are stated around:

- Sales: issuing a USD conduce again on a later day looks the live rate up again (`service.ts:645-653`, `1106`); the
  canonical key `confirm:{id}` is accepted from clients; an invoice in USD cancelled during its lookup never gets a
  PDF; when FAILED cannot be stored either, the invoice has no outcome and cannot be regenerated.
- Reports: the KPI of the profitability screen counts a sale once per period it appears in
  (`apps/web/src/api/client/profitability-api.ts:240`); calculated profit ignores the invoice discount; the receivables of a
  customer are grouped by the name frozen on each sale.
- Session: `/sales/quote/:id` is missing from the known routes, so the return path forgets it; a login overtaken by the
  reload of a focus reports an error although the session is open; a 401 that arrives late signs a newer session out of the screen.
- Assistant: a reservation that the database refuses is told as an error in the stream although nothing was stored, and the
  same question may be answered later (`features/assistant/service.ts:352-371`); a list of messages that answers late is shown under the conversation
  selected since (`apps/web/src/features/assistant/AssistantProvider.tsx:160-188`); the answer to a deletion is compared with the conversation that was selected when it was
  asked for, so it unselects one that was created since (`AssistantProvider.tsx:230-255`).
- Lists: `listSales` has no stop at an empty page; its rows and its count are read by two queries issued together
  (`features/sales/repository.ts:281-290`), so that a sale that joins after the count and before the rows may push another out of the last page; one-time password dialogs disappear when the reload behind them fails.
- Dialogs: a list that fails to load is replaced by its error, and a form open over it goes with what was typed, unasked
  (`apps/web/src/features/users/useUsers.ts:68-71` with `UsersPage.tsx:137-143`, `customers/useCustomers.ts:43-46` with `CustomersPage.tsx:86-91`,
  `catalogs/CatalogsPage.tsx:111-125`, `work-orders/WorkOrdersPage.tsx:115-121`); the answer to what it was saving finds no dialog; inputs stay enabled while saving; forms that send whole rows send what was loaded, not what is there now.
- Attributes: a piece with a fact of an attribute that was removed since cannot be edited any more: the editor sends every
  recorded key (`apps/web/src/features/inventory/ItemDetailsEditor.tsx:112-127`), the command refuses those it does not know
  (`category-attributes.ts:178-185`), although the comment above (`:164-168`) has them preserved; a new attribute may not
  take a label that a renamed one used to have.
- Catalog: renaming a category to a name that was expected as free text makes the missing components and reviews of that
  name its own (`catalogs.ts`).

## 7. What is not modelled

- Layout, wording, formatting, charts, printing, the PDF renderers, HTTP middleware and rate limiters, command-line
  entry points, deployment.
- The history feature as a reader; `Access` has the events of accounts and recoveries, `Sales` leaves its own out.
- Creation of customers: a customer starts as a cash customer without RNC, and `UpdateCustomer` takes
  it to any profile that creation could give. Names and addresses decide nothing.
- The two time zones of the exchange rate (see *Days*), receipts and their listing, statements as documents.
- In the yard, prices, customers and payments.
- Retrieval and the evaluation of the assistant; the gate of the evidence is modelled by what it tells apart.

## 8. Plan

1. `Attributes` and `Dialogs`: `FactsFollowTheirAttributes` and `DialogsTellTheirRows`.
2. The figures: the laws of rounding in `SaleFigures`, which need no recursion, before the sums of `Books`.
