------------------------------- MODULE PosTab -------------------------------
(***************************************************************************)
(* The point of sale in browser tabs (PosPage.tsx, usePos.ts and its       *)
(* modals) against the drafts the API stores.                              *)
(*                                                                         *)
(* A tab edits the draft of its address with one command at a time         *)
(* (runExclusive), shows the draft every answer carries, and confirms what *)
(* it shows.  Other tabs edit the same drafts; answers are lost or late;   *)
(* the notice "Deshacer" of a removed line or a discarded draft outlives   *)
(* the page that raised it.                                                *)
(*                                                                         *)
(* Abstractions.  A line is its price and the form it was typed in; all    *)
(* that setMeta changes is one surcharge of 0 or 1; the customer either    *)
(* pays in full or is sold to on credit (Credit).  Quotes are issued and   *)
(* converted without their dates.  Roles, blockers, PDFs and the fields of *)
(* a payment other than its amount are left out.                           *)
(***************************************************************************)
EXTENDS Naturals, Sequences, FiniteSets, FiniteSetsExt, SequencesExt

CONSTANTS
    Tabs,       \* browser tabs
    Credit,     \* TRUE: the customer may owe the whole total
    Prices,     \* prices of a line
    Kinds,      \* what the tabs create: sales "DRAFT", quotes "QUOTE_DRAFT"
    MaxDrafts,  \* bound: drafts created
    MaxLines,   \* bound: lines of a draft a tab adds to
    MaxForms,   \* bound: forms of a new line opened
    MaxCalls,   \* bound: commands sent
    MaxVisits,  \* bound: visits to the page of a draft
    MaxLost     \* bound: requests whose connection breaks

ASSUME PosAssumption ==
    /\ Credit \in BOOLEAN
    /\ Prices \subseteq Nat \ {0}
    /\ Kinds \subseteq {"DRAFT", "QUOTE_DRAFT"}
    /\ {MaxDrafts, MaxLines, MaxForms, MaxCalls, MaxVisits, MaxLost} \subseteq Nat

VARIABLES
    drafts,     \* rows of the server: kind, lines, meta, paid, and how it was confirmed
    created,    \* rows created so far
    at,         \* address of a tab: a draft, or 0 for any other page
    visit,      \* which mounting of PosPage a tab is in
    shown,      \* result of usePos: "loading", or the draft on the screen
    busy,       \* mutationLock and isMutating
    form,       \* form of a new line, 0 when closed
    toasts,     \* notices with an action "Deshacer"
    jobs,       \* discarded drafts being restored, alone while no command named them
    calls,      \* commands on their way
    loads,      \* loads of a draft on their way
    forms,      \* forms opened so far
    sent,       \* commands sent so far
    visits,     \* visits so far
    lost,       \* connections broken so far
    broken,     \* forms one of whose answers was lost (history)
    restored    \* drafts whose undo succeeded, with their snapshots (history)

rows == <<drafts, created>>
tab  == <<at, visit, shown, busy, form, toasts, loads, visits>>
posVars == <<rows, tab, jobs, calls, forms, sent, lost, broken, restored>>

Ids     == 1..MaxDrafts
Loading == [id |-> 0]
Gross(row) == FoldSeq(LAMBDA l, s: l.price + s, row.meta, row.lines)
Editable(row) == row.kind \in {"DRAFT", "QUOTE_DRAFT"}
Unused == [kind |-> "none", lines |-> <<>>, meta |-> 0, paid |-> 0, reviewed |-> 0, from |-> 0]
NoLine == [id |-> 0, form |-> 0, price |-> 0]
Content(row) == [kind |-> row.kind, lines |-> row.lines, meta |-> row.meta]
View(d) == [id |-> d, row |-> Content(drafts'[d])]

---------------------------------------------------------------------------
(* The server: one operator for each command, TRUE when it is accepted.    *)

Row(d) == drafts[d]
Set(d, row) == drafts' = [drafts EXCEPT ![d] = row] /\ UNCHANGED created

AddLine(c) ==
    /\ Editable(Row(c.draft))
    /\ Set(c.draft, [Row(c.draft) EXCEPT !.lines = Append(@, [id |-> c.id, form |-> c.form, price |-> c.price])])

\* The line is named by its id: a line of another draft is not found.
HasLine(c) == c.line \in ToSet(Row(c.draft).lines)
RemoveLine(c) ==
    /\ Editable(Row(c.draft))
    /\ \E i \in DOMAIN Row(c.draft).lines:
        /\ Row(c.draft).lines[i] = c.line
        /\ Set(c.draft, [Row(c.draft) EXCEPT !.lines = RemoveAt(@, i)])
UpdateLine(c) ==
    /\ Editable(Row(c.draft)) /\ HasLine(c)
    /\ Set(c.draft, [Row(c.draft) EXCEPT !.lines =
            ReplaceAll(@, c.line, [c.line EXCEPT !.price = c.price])])

UpdateMeta(c) ==
    /\ Editable(Row(c.draft))
    /\ Set(c.draft, [Row(c.draft) EXCEPT !.meta = 1 - @])

IssueQuote(c) ==
    /\ Row(c.draft).kind = "QUOTE_DRAFT" /\ Row(c.draft).lines # <<>>
    /\ Set(c.draft, [Row(c.draft) EXCEPT !.kind = "QUOTE_ISSUED"])

\* assertInitialPaymentPolicy: a customer without credit pays the whole total.
Settles(c) == IF Credit THEN c.price = 0 ELSE c.price = Gross(Row(c.draft))

\* completeSale, issueConduceSale: a repeated command is answered with what it made.
Recognise(c, source, target) ==
    \/ Row(c.draft).kind = target /\ UNCHANGED rows
    \/ /\ Row(c.draft).kind = source
       /\ Row(c.draft).lines # <<>>
       /\ Settles(c)
       /\ Set(c.draft, [Row(c.draft) EXCEPT !.kind = target, !.paid = c.price,
                        !.reviewed = c.reviewed, !.from = c.seen])

Create(kind, lines, meta) ==
    /\ created < MaxDrafts
    /\ created' = created + 1
    /\ drafts' = [drafts EXCEPT ![created + 1] =
                    [Unused EXCEPT !.kind = kind, !.lines = lines, !.meta = meta]]

\* A line copied into another draft has an id of its own.
Renewed(l, d) == [l EXCEPT !.id = @ + MaxCalls * d]

Duplicate(c) ==
    /\ Row(c.draft).kind = "QUOTE_ISSUED"
    /\ Create("QUOTE_DRAFT", [i \in 1..Len(Row(c.draft).lines) |->
                                Renewed(Row(c.draft).lines[i], created + 1)], Row(c.draft).meta)

Discard(c) ==
    /\ Editable(Row(c.draft))
    /\ Set(c.draft, [Unused EXCEPT !.kind = "gone"])

Executes(c) ==
    CASE c.op \in {"add", "undo"} -> AddLine(c)
      [] c.op = "remove"    -> RemoveLine(c)
      [] c.op = "update"    -> UpdateLine(c)
      [] c.op = "meta"      -> UpdateMeta(c)
      [] c.op = "issue"     -> IssueQuote(c)
      [] c.op = "confirm"   -> Recognise(c, "DRAFT", "COMPLETED")
      [] c.op = "conduce"   -> Recognise(c, "DRAFT", "CONDUCE")
      [] c.op = "convert"   -> Recognise(c, "QUOTE_ISSUED", "COMPLETED")
      [] c.op = "duplicate" -> Duplicate(c)
      [] c.op = "discard"   -> Discard(c)

Replied(c, state, view) == (calls \ {c}) \cup {[c EXCEPT !.state = state, !.view = view]}

ServerExecutes(c) ==
    /\ c.state = "sent"
    /\ Executes(c)
    /\ calls' = Replied(c, "ok", IF c.op = "duplicate" THEN View(created') ELSE View(c.draft))
    /\ UNCHANGED <<tab, jobs, forms, sent, lost, broken, restored>>

ServerRefuses(c) ==
    /\ c.state = "sent"
    /\ ~ENABLED Executes(c)
    /\ calls' = Replied(c, "refused", Loading)
    /\ UNCHANGED <<rows, tab, jobs, forms, sent, lost, broken, restored>>

\* The connection breaks before the server has the command, or after it has answered.
Lose(c) ==
    /\ c.state # "broken"
    /\ lost < MaxLost
    /\ lost' = lost + 1
    /\ broken' = broken \cup {c.form}
    /\ calls' = Replied(c, "broken", Loading)
    /\ UNCHANGED <<rows, tab, jobs, forms, sent, restored>>

---------------------------------------------------------------------------
(* Addresses: the router keeps PosPage mounted from one draft to another.  *)

Elsewhere(t) ==
    /\ at' = [at EXCEPT ![t] = 0]
    /\ UNCHANGED <<shown, loads, visit, visits>>

Load(d, t) == [tab |-> t, draft |-> d, visit |-> visits + 1, state |-> "asked", view |-> Loading]

\* The effect on [draftId, reloadToken] of usePos: the load before is cancelled.
Open(t, d, mounting) ==
    /\ at' = [at EXCEPT ![t] = d]
    /\ visits' = visits + 1
    /\ visit' = [visit EXCEPT ![t] = [mounted |-> mounting, load |-> visits + 1]]
    /\ shown' = [shown EXCEPT ![t] = Loading]
    /\ loads' = {l \in loads: l.tab # t} \cup {Load(d, t)}

\* A new mounting has a lock and modals of its own.
Mount(t, d) ==
    /\ Open(t, d, visits + 1)
    /\ busy' = [busy EXCEPT ![t] = FALSE]
    /\ form' = [form EXCEPT ![t] = 0]

\* /sales/draft/new, /sales/quote/new: a row is created, the tab goes to its address.
New(t, kind) ==
    /\ at[t] = 0
    /\ visits < MaxVisits
    /\ Create(kind, <<>>, 0)
    /\ Mount(t, created + 1)
    /\ UNCHANGED <<toasts, jobs, calls, forms, sent, lost, broken, restored>>

\* A draft is chosen in the list of sales.
Visit(t, d) ==
    /\ at[t] = 0
    /\ visits < MaxVisits
    /\ drafts[d].kind \notin {"none", "gone"}
    /\ Mount(t, d)
    /\ UNCHANGED <<rows, toasts, jobs, calls, forms, sent, lost, broken, restored>>

Leave(t) ==
    /\ at[t] # 0
    /\ Elsewhere(t)
    /\ UNCHANGED <<rows, busy, form, toasts, jobs, calls, forms, sent, lost, broken, restored>>

\* getDraft, with the lists of customers and services it needs.
LoadIsRead(l) ==
    /\ l.state = "asked"
    /\ drafts[l.draft].kind # "gone"
    /\ loads' = (loads \ {l}) \cup
            {[l EXCEPT !.state = "answered",
                       !.view = [id |-> l.draft, row |-> Content(drafts[l.draft])]]}
    /\ UNCHANGED <<rows, at, visit, shown, busy, form, toasts, visits,
                   jobs, calls, forms, sent, lost, broken, restored>>

LoadArrives(l) ==
    /\ l.state = "answered"
    /\ loads' = loads \ {l}
    /\ shown' = IF at[l.tab] # 0 /\ visit[l.tab].load = l.visit
                THEN [shown EXCEPT ![l.tab] = l.view] ELSE shown
    /\ UNCHANGED <<rows, at, visit, busy, form, toasts, visits,
                   jobs, calls, forms, sent, lost, broken, restored>>

---------------------------------------------------------------------------
(* Commands of a tab.                                                      *)

Ready(t) == at[t] # 0 /\ shown[t] # Loading

Command(t, op) ==
    [id |-> sent + 1, tab |-> t, mounted |-> visit[t].mounted, op |-> op, draft |-> at[t],
     form |-> form[t], line |-> NoLine, price |-> 0, seen |-> 0,
     reviewed |-> 0, back |-> Unused, state |-> "sent", view |-> Loading]

\* runExclusive: the lock is taken before the request leaves.
Run(t, c) ==
    /\ ~busy[t]
    /\ sent < MaxCalls
    /\ sent' = sent + 1
    /\ busy' = [busy EXCEPT ![t] = TRUE]
    /\ calls' = calls \cup {c}
    /\ jobs' = {[j EXCEPT !.alone = @ /\ j.draft # c.draft]: j \in jobs}
    /\ UNCHANGED <<rows, lost, broken, restored, at, visit, shown, loads, visits>>

OpenAdd(t) ==
    /\ Ready(t) /\ Editable(shown[t].row) /\ ~busy[t] /\ form[t] = 0
    /\ Len(shown[t].row.lines) < MaxLines
    /\ forms < MaxForms
    /\ forms' = forms + 1
    /\ form' = [form EXCEPT ![t] = forms + 1]
    /\ UNCHANGED <<rows, at, visit, shown, busy, toasts, loads, visits,
                   jobs, calls, sent, lost, broken, restored>>

SubmitAdd(t, price) ==
    /\ Ready(t) /\ form[t] # 0
    /\ Run(t, [Command(t, "add") EXCEPT !.price = price])
    /\ UNCHANGED <<form, toasts, forms>>

\* With no form open, the actions of a line, of the document panel and of a quote.
Edit(t) ==
    /\ Ready(t) /\ form[t] = 0
    /\ Editable(shown[t].row)
    /\ \/ Run(t, Command(t, "meta"))
       \/ \E l \in ToSet(shown[t].row.lines):
            \/ Run(t, [Command(t, "remove") EXCEPT !.line = l])
            \/ \E p \in Prices \ {l.price}:
                 Run(t, [Command(t, "update") EXCEPT !.line = l, !.price = p])
       \/ Run(t, [Command(t, "discard") EXCEPT !.back = shown[t].row])
    /\ UNCHANGED <<form, toasts, forms>>

\* ConfirmSaleModal: the amount is the total shown, nothing for a sale on credit.
Reviewed(t, op) ==
    [Command(t, op) EXCEPT !.price = IF Credit THEN 0 ELSE Gross(shown[t].row),
                           !.reviewed = Gross(shown[t].row), !.seen = shown[t].id]

Confirm(t) ==
    /\ Ready(t) /\ form[t] = 0
    /\ shown[t].row.lines # <<>>
    /\ \/ shown[t].row.kind = "DRAFT"
          /\ (Run(t, Reviewed(t, "confirm")) \/ Run(t, Reviewed(t, "conduce")))
       \/ shown[t].row.kind = "QUOTE_DRAFT" /\ Run(t, Command(t, "issue"))
       \/ shown[t].row.kind = "QUOTE_ISSUED"
          /\ (Run(t, Reviewed(t, "convert")) \/ Run(t, Command(t, "duplicate")))
    /\ UNCHANGED <<form, toasts, forms>>

---------------------------------------------------------------------------
(* Answers.                                                                *)

Mine(c) == at[c.tab] # 0 /\ visit[c.tab].mounted = c.mounted

\* finally: the lock is given back by every answer.
Unlock(c) == IF Mine(c) THEN [busy EXCEPT ![c.tab] = FALSE] ELSE busy

\* handleAddLine: the form of a line that was added is closed.
CloseForm(c) == IF Mine(c) /\ c.op = "add" THEN [form EXCEPT ![c.tab] = 0] ELSE form

\* handleRemoveLine, handleDiscardDraft: a notice with what can be brought back.
Notice(c) ==
    CASE c.op = "remove" -> {[tab |-> c.tab, mounted |-> c.mounted, draft |-> c.draft,
                              line |-> c.line, back |-> Unused]}
      [] c.op = "discard" /\ c.back.lines # <<>> ->
                             {[tab |-> c.tab, mounted |-> c.mounted, draft |-> c.draft,
                              line |-> c.line, back |-> c.back]}
      [] OTHER -> {}

Applies(c) == c.op \in {"add", "undo", "remove", "update", "meta", "issue"}

\* applyDraftResult: the draft of the answer is shown, whatever the address is now.
ApplyDraftResult(c) ==
    /\ shown' = IF Mine(c) THEN [shown EXCEPT ![c.tab] = c.view] ELSE shown
    /\ UNCHANGED <<at, visit, loads, visits>>

\* confirm reloads the draft; duplicateQuote goes to the copy; the others leave the page.
Navigate(c) ==
    IF ~Mine(c) THEN UNCHANGED <<at, visit, shown, loads, visits>>
    ELSE CASE c.op = "confirm"   -> Open(c.tab, at[c.tab], visit[c.tab].mounted)
           [] c.op = "duplicate" -> Open(c.tab, c.view.id, visit[c.tab].mounted)
           [] OTHER              -> Elsewhere(c.tab)

Finish(c) ==
    /\ calls' = calls \ {c}
    /\ busy' = Unlock(c)
    /\ UNCHANGED <<rows, jobs, forms, sent, lost>>

Succeeds(c) ==
    /\ c.state = "ok"
    /\ IF Applies(c) THEN ApplyDraftResult(c) ELSE Navigate(c)
    /\ form' = CloseForm(c)
    /\ toasts' = toasts \cup Notice(c)
    /\ Finish(c)
    /\ UNCHANGED <<broken, restored>>

DraftFails(c) ==
    /\ c.state \in {"refused", "broken"}
    /\ Finish(c)
    /\ UNCHANGED <<at, visit, shown, loads, visits, form, toasts, broken, restored>>

\* mutateDraft: the lists of customers and services fail after the write; the write stands.
LookupFails(c) == Applies(c) /\ Succeeds(c)

---------------------------------------------------------------------------
(* Undo.                                                                   *)

ToastExpires(toast) ==
    /\ toasts' = toasts \ {toast}
    /\ UNCHANGED <<rows, at, visit, shown, busy, form, loads, visits,
                   jobs, calls, forms, sent, lost, broken, restored>>

\* restoreRemovedLine of the page that removed the line, while it is still mounted.
UndoRemove(toast) ==
    /\ toast.line # NoLine
    /\ at[toast.tab] # 0 /\ visit[toast.tab].mounted = toast.mounted
    /\ toasts' = toasts \ {toast}
    /\ Run(toast.tab, [Command(toast.tab, "undo") EXCEPT
            !.draft = toast.draft, !.form = toast.line.form, !.price = toast.line.price])
    /\ UNCHANGED <<form, forms>>

\* restoreDiscardedDraft creates a sale: createDraft.
UndoDiscard(toast) ==
    /\ toast.line = NoLine
    /\ toasts' = toasts \ {toast}
    /\ Create("DRAFT", <<>>, 0)
    /\ jobs' = jobs \cup {[tab |-> toast.tab, back |-> toast.back, draft |-> created + 1,
                             step |-> 0, alone |-> TRUE]}
    /\ UNCHANGED <<at, visit, shown, busy, form, loads, visits,
                   calls, forms, sent, lost, broken, restored>>

\* setDraftMeta, then addLine for each line in order.
RestoreStep(j) ==
    /\ j.step <= Len(j.back.lines)
    /\ Editable(Row(j.draft))
    /\ Set(j.draft,
           IF j.step = 0 THEN [Row(j.draft) EXCEPT !.meta = j.back.meta]
           ELSE [Row(j.draft) EXCEPT !.lines = Append(@, Renewed(j.back.lines[j.step], j.draft))])
    /\ jobs' = (jobs \ {j}) \cup {[j EXCEPT !.step = @ + 1]}
    /\ UNCHANGED <<tab, calls, forms, sent, lost, broken, restored>>

RestoreGoesOn(j) ==
    /\ lost < MaxLost
    /\ lost' = lost + 1
    /\ jobs' = (jobs \ {j}) \cup {[j EXCEPT !.step = @ + 1]}
    /\ UNCHANGED <<rows, tab, calls, forms, sent, broken, restored>>

\* A step is lost, before or after the server has executed it: the undo is given up.
RestoreFails(j) ==
    /\ lost < MaxLost
    /\ lost' = lost + 1
    /\ jobs' = jobs \ {j}
    /\ UNCHANGED <<rows, tab, calls, forms, sent, broken, restored>>

\* navigate to the restored draft, from whatever page the tab is on.
RestoreEnds(j) ==
    /\ j.step = Len(j.back.lines) + 1
    /\ jobs' = jobs \ {j}
    /\ IF at[j.tab] = 0 THEN Mount(j.tab, j.draft)
       ELSE Open(j.tab, j.draft, visit[j.tab].mounted) /\ UNCHANGED <<busy, form>>
    /\ restored' = restored \cup {[back |-> j.back, row |-> Content(Row(j.draft)), alone |-> j.alone]}
    /\ UNCHANGED <<rows, toasts, calls, forms, sent, lost, broken>>

---------------------------------------------------------------------------
PosInit ==
    /\ drafts = [d \in Ids |-> Unused] /\ created = 0
    /\ at = [t \in Tabs |-> 0]
    /\ visit = [t \in Tabs |-> [mounted |-> 0, load |-> 0]]
    /\ shown = [t \in Tabs |-> Loading]
    /\ busy = [t \in Tabs |-> FALSE]
    /\ form = [t \in Tabs |-> 0]
    /\ toasts = {} /\ jobs = {} /\ calls = {} /\ loads = {} /\ broken = {} /\ restored = {}
    /\ forms = 0 /\ sent = 0 /\ visits = 0 /\ lost = 0

PosNext ==
    \/ \E t \in Tabs: Leave(t) \/ OpenAdd(t) \/ Edit(t) \/ Confirm(t)
    \/ \E t \in Tabs, k \in Kinds: New(t, k)
    \/ \E t \in Tabs, d \in Ids: Visit(t, d)
    \/ \E t \in Tabs, p \in Prices: SubmitAdd(t, p)
    \/ \E l \in loads: LoadIsRead(l) \/ LoadArrives(l)
    \/ \E c \in calls: ServerExecutes(c) \/ ServerRefuses(c) \/ Lose(c)
                       \/ Succeeds(c) \/ DraftFails(c) \/ LookupFails(c)
    \/ \E toast \in toasts: ToastExpires(toast) \/ UndoRemove(toast) \/ UndoDiscard(toast)
    \/ \E j \in jobs: RestoreStep(j) \/ RestoreFails(j) \/ RestoreEnds(j)

PosSpec == PosInit /\ [][PosNext]_posVars

---------------------------------------------------------------------------
PosTypeOK ==
    /\ at \in [Tabs -> 0..MaxDrafts]
    /\ created \in 0..MaxDrafts
    /\ \A d \in Ids: drafts[d].kind = "none" <=> d > created
    /\ busy \in [Tabs -> BOOLEAN]
    /\ form \in [Tabs -> 0..MaxForms]
    /\ \A t \in Tabs: shown[t] = Loading \/ shown[t].id \in Ids
    /\ \A c \in calls: c.draft \in Ids /\ c.state \in {"sent", "ok", "refused", "broken"}

(* A form of a new line adds one line, although its user sends it again    *)
(* after every error: only an answer lost on the way can make two          *)
(* (mutateDraft, runExclusive).                                            *)
OneLinePerForm ==
    \A d \in Ids: \A i, j \in 1..Len(drafts[d].lines):
        (drafts[d].lines[i].form = drafts[d].lines[j].form
            /\ drafts[d].lines[i].form \notin broken) => i = j

(* What was collected at a confirmation is the total of the document, and  *)
(* the total the seller was shown, also when another tab changed the draft *)
(* meanwhile.                                                              *)
CollectedIsReviewed ==
    ~Credit => \A d \in Ids: drafts[d].kind \in {"COMPLETED", "CONDUCE"} =>
        drafts[d].paid = Gross(drafts[d]) /\ drafts[d].paid = drafts[d].reviewed

(* A discarded sale that its user was taken back to has the lines and the  *)
(* data it had: an undo that stopped halfway is not presented as done, *)
(* if nobody edited the new draft meanwhile (restoreDiscardedDraft).       *)
RestoredIsWhole ==
    \A r \in restored: r.alone =>
        /\ r.row.meta = r.back.meta
        /\ Len(r.row.lines) = Len(r.back.lines)
        /\ \A i \in 1..Len(r.back.lines): r.row.lines[i].price = r.back.lines[i].price

(* The lock of the page is never left behind: while it is held a command   *)
(* of this very visit is on its way, whose answer gives it back            *)
(* (runExclusive).                                                         *)
LockHasACommand == \A t \in Tabs: busy[t] /\ at[t] # 0 => \E c \in calls: c.tab = t /\ Mine(c)

(* The drafts have what was entered in them, once, and are confirmed and   *)
(* restored as the seller saw them, by whichever tab.                      *)
DraftsAreAsReviewed ==
    /\ PosTypeOK /\ OneLinePerForm /\ CollectedIsReviewed /\ RestoredIsWhole
    /\ LockHasACommand

(* The draft a seller reviewed in the modal is the one that was confirmed. *)
ConfirmedDraftWasShown ==
    \A d \in Ids: drafts[d].kind \in {"COMPLETED", "CONDUCE"} => drafts[d].from = d
=============================================================================
