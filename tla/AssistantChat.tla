--------------------------- MODULE AssistantChat ---------------------------
(***************************************************************************)
(* The assistant panel of one browser tab (AssistantProvider.tsx and the   *)
(* repository under it) against the conversations the API stores: the      *)
(* thread on the screen, the stream being read, the lists of messages that *)
(* were asked for and have not been answered yet.                          *)
(*                                                                         *)
(* Every await of the provider is a gap in which the user and the answers  *)
(* to other calls go on.  A question is the text of one draft; a stream is *)
(* one call of runStream.                                                  *)
(***************************************************************************)
EXTENDS Naturals, Sequences, FiniteSets, SequencesExt

CONSTANTS
    Convs,         \* conversations that may exist
    Old,           \* those there are when the panel is mounted
    Long,          \* those with more than one page of messages
    MaxStreams,    \* bound on runStream calls
    MaxQuestions,     \* bound on the questions typed
    MaxLoads       \* bound on lists of messages asked for

ASSUME ChatAssumption ==
    /\ Old \subseteq Convs /\ Long \subseteq Old /\ "none" \notin Convs
    /\ MaxStreams \in Nat /\ MaxQuestions \in Nat /\ MaxLoads \in Nat

VARIABLES
    conv,          \* what the API has of each conversation: none, live or deleted
    store,         \* its turns, in order
    open,          \* is the panel open
    selected,      \* selectedConversationId
    messages,      \* what the thread shows
    oldest,        \* messagesOldestPage: 0 not loaded, 1 the first page, 2 the last of a long one
    loading,       \* messagesLoading
    draft,         \* the question in the composer, 0 when it is empty
    typed,         \* how many questions have been typed
    stream,        \* every call of runStream so far
    active,        \* activeStreamRef: the stream being read, 0 when there is none
    phase,         \* streamPhase
    attempt,       \* lastAttempt and canRetry
    load,          \* calls of listMessages
    creating,      \* calls of createConversation that have not been answered
    deleting       \* the deletion awaited behind a modal, and the conversation selected at its click

panel == <<open, selected, messages, oldest, loading, draft, typed, active, phase, attempt,
         creating, deleting>>
chatVars == <<conv, store, open, selected, messages, oldest, loading, draft, typed, stream,
          active, phase, attempt, load, creating, deleting>>

NoConv == "none"
NoDeletion == [conv |-> NoConv, selected |-> NoConv]
NoAttempt == [ask |-> 0, id |-> 0, ambiguous |-> FALSE, retry |-> FALSE]
OldPage == 0     \* stands for the first page of a long conversation

Live == {c \in Convs : conv[c] = "live"}
UnusedConvs == {c \in Convs : conv[c] = "none" /\ \A p \in creating : p.conv # c}
Streams == DOMAIN stream
Loads == DOMAIN load

ChatInit ==
    /\ conv = [c \in Convs |-> IF c \in Old THEN "live" ELSE "none"]
    /\ store = [c \in Convs |-> <<>>]
    /\ open = FALSE
    /\ selected \in Old \cup {NoConv}     \* readStoredConversationId
    /\ messages = <<>> /\ oldest = 0 /\ loading = FALSE
    /\ draft = 0 /\ typed = 0
    /\ stream = <<>> /\ active = 0 /\ phase = "idle"
    /\ attempt = NoAttempt
    /\ load = <<>>
    /\ creating = {} /\ deleting = NoDeletion

-----------------------------------------------------------------------------
(* The API, as AssistantTurn has it: a request identifier is executed once *)

TurnOf(c, id) == {k \in DOMAIN store[c] : store[c][k].id = id}

Pending(c) == \E k \in DOMAIN store[c] : store[c][k].status = "PENDING"

\* The answer to the POST: refused, a replay of what is stored, or a new turn.  The client
\* may have gone before the request arrives.
ServerReceives(n) ==
    LET c == stream[n].conv
        id == stream[n].id
        heard == stream[n].at = "posted"
    IN
    /\ stream[n].at \in {"posted", "late"}
    /\ \/ /\ c \notin Live \/ Pending(c)
          /\ stream' = [stream EXCEPT ![n].at = IF heard THEN "refused" ELSE "over"]
          /\ UNCHANGED store
       \/ /\ c \in Live /\ ~Pending(c) /\ TurnOf(c, id) # {}
          /\ stream' = [stream EXCEPT ![n].at = IF heard THEN "answered" ELSE "over",
                                      ![n].end = store[c][CHOOSE k \in TurnOf(c, id) : TRUE].status]
          /\ UNCHANGED store
       \/ /\ c \in Live /\ ~Pending(c) /\ TurnOf(c, id) = {}
          /\ stream' = [stream EXCEPT ![n].at = IF heard THEN "running" ELSE "left"]
          /\ store' = [store EXCEPT ![c] = Append(@, [id |-> id, ask |-> stream[n].ask,
                                                      status |-> "PENDING"])]
    /\ UNCHANGED <<conv, panel, load>>

\* The turn ends as it likes, whether or not somebody is still reading.  A conversation that
\* was deleted meanwhile has taken its turn away.
ServerEnds(n, status) ==
    LET c == stream[n].conv IN
    /\ stream[n].at \in {"running", "left"}
    /\ c \notin Live => status = "FAILED"
    /\ store' = [store EXCEPT ![c] =
                   [k \in DOMAIN @ |-> IF @[k].id = stream[n].id THEN [@[k] EXCEPT !.status = status]
                                                                 ELSE @[k]]]
    /\ stream' = [stream EXCEPT ![n].at = IF @ = "left" THEN "over" ELSE "answered",
                                ![n].end = status]
    /\ UNCHANGED <<conv, panel, load>>

-----------------------------------------------------------------------------
(* The thread *)

\* The latest page of a conversation: the turns whose question it shows, after the page
\* before it when that is the only one.
Page(c) == [k \in DOMAIN store[c] |-> [conv |-> c, id |-> store[c][k].id]]

Asked(c, kind) == [conv |-> c, kind |-> kind, at |-> "asked", page |-> <<>>]

QuestionAnswered == [conv |-> NoConv, kind |-> "none", at |-> "over", page |-> <<>>]

NewLoad(c, kind) == Append(load, Asked(c, kind))

\* listMessages reads the rows, or fails.
LoadIsAnswered(l) ==
    /\ load[l].at = "asked"
    /\ \/ /\ load[l].conv \in Live
          /\ load' = [load EXCEPT ![l].at = "read", ![l].page = Page(load[l].conv)]
       \/ load' = [load EXCEPT ![l].at = "failed"]
    /\ UNCHANGED <<conv, store, panel, stream>>

\* loadLatestMessages and loadMoreMessages after their await.
DeliverEvent(l) ==
    /\ load[l].at \in {"read", "failed"}
    /\ load' = [load EXCEPT ![l] = QuestionAnswered]
    /\ loading' = FALSE
    /\ IF load[l].at = "failed" THEN UNCHANGED <<messages, oldest>>
       ELSE IF load[l].kind = "older"
       THEN messages' = <<[conv |-> load[l].conv, id |-> OldPage]>> \o messages /\ oldest' = 1
       ELSE messages' = load[l].page /\ oldest' = IF load[l].conv \in Long THEN 2 ELSE 1
    /\ UNCHANGED <<conv, store, open, selected, draft, typed, stream, active, phase, attempt,
                   creating, deleting>>

MayLoad == Len(load) < MaxLoads

\* "Cargar mensajes anteriores"
LoadMore ==
    /\ open /\ deleting = NoDeletion
    /\ MayLoad
    /\ selected # NoConv /\ ~loading /\ oldest > 1
    /\ loading' = TRUE
    /\ load' = NewLoad(selected, "older")
    /\ UNCHANGED <<conv, store, open, selected, messages, oldest, draft, typed, stream, active,
                   phase, attempt, creating, deleting>>

\* The panel is opened: the effect asks for the thread unless it is there.
OpenPanel ==
    /\ ~open
    /\ open' = TRUE
    /\ IF selected # NoConv /\ oldest = 0
       THEN MayLoad /\ loading' = TRUE /\ load' = NewLoad(selected, "latest")
       ELSE UNCHANGED <<loading, load>>
    /\ UNCHANGED <<conv, store, selected, messages, oldest, draft, typed, stream, active, phase,
                   attempt, creating, deleting>>

ClosePanel ==
    /\ open /\ deleting = NoDeletion
    /\ open' = FALSE
    /\ UNCHANGED <<conv, store, selected, messages, oldest, loading, draft, typed, stream,
                   active, phase, attempt, load, creating, deleting>>

-----------------------------------------------------------------------------
(* Selection *)

\* A stream nobody reads any more: the request may still arrive, and what the server is
\* doing goes on.
Aborted(n) == [stream[n] EXCEPT !.at = CASE @ = "running" -> "left"
                                         [] @ = "posted" -> "late"
                                         [] OTHER -> "over"]

\* detachActiveStream
DetachActiveStream ==
    /\ IF active # 0 THEN stream' = [stream EXCEPT ![active] = Aborted(active)]
                     ELSE UNCHANGED stream
    /\ active' = 0
    /\ phase' = "idle"

\* What could be retried is not forgotten.
SelectKeepingAttempt(c) ==
    /\ selected' = c
    /\ messages' = <<>> /\ oldest' = 0 /\ loading' = TRUE
    /\ UNCHANGED attempt
    /\ MayLoad
    /\ load' = NewLoad(c, "latest")

\* selectConversation asks for the messages; so does the effect that restores a thread,
\* which sees another conversation or a thread that is no longer loaded.
Select(c) ==
    LET twice == open /\ (selected # c \/ oldest # 0) IN
    /\ selected' = c
    /\ messages' = <<>> /\ oldest' = 0 /\ loading' = TRUE
    /\ attempt' = NoAttempt
    /\ MayLoad
    /\ load' = IF twice THEN NewLoad(c, "latest") \o <<Asked(c, "latest")>> ELSE NewLoad(c, "latest")

SelectConversation(c) ==
    /\ open /\ deleting = NoDeletion
    /\ c \in Live
    /\ DetachActiveStream
    /\ Select(c)
    /\ UNCHANGED <<conv, store, open, draft, typed, creating, deleting>>

\* "Nueva": the stream is detached, the POST awaited, and the answer selected.
StartConversation ==
    /\ open /\ deleting = NoDeletion
    /\ \E c \in UnusedConvs : creating' = creating \cup {[conv |-> c, ask |-> 0]}
    /\ DetachActiveStream
    /\ attempt' = IF active # 0 THEN NoAttempt ELSE attempt
    /\ UNCHANGED <<conv, store, open, selected, messages, oldest, loading, draft, typed, load,
                   deleting>>

ConversationCreated(p) ==
    /\ p \in creating /\ p.ask = 0
    /\ conv' = [conv EXCEPT ![p.conv] = "live"]
    /\ creating' = creating \ {p}
    /\ DetachActiveStream
    /\ Select(p.conv)
    /\ UNCHANGED <<store, open, draft, typed, deleting>>

CreationFails(p) ==
    /\ p \in creating
    /\ creating' = creating \ {p}
    /\ UNCHANGED <<conv, store, open, selected, messages, oldest, loading, draft, typed, stream,
                   active, phase, attempt, load, deleting>>

\* The deletion is confirmed in a modal that stays until the answer.
RemoveConversation(c) ==
    /\ open /\ deleting = NoDeletion
    /\ c \in Live
    /\ deleting' = [conv |-> c, selected |-> selected]
    /\ IF active # 0 /\ stream[active].conv = c
       THEN DetachActiveStream /\ attempt' = NoAttempt
       ELSE UNCHANGED <<stream, active, phase, attempt>>
    /\ UNCHANGED <<conv, store, open, selected, messages, oldest, loading, draft, typed, load,
                   creating>>

\* deleteConversation after its await: its closure compares with the selection of the click,
\* so it may take the selection away from a conversation created since.
Deleted ==
    /\ deleting # NoDeletion
    /\ deleting' = NoDeletion
    /\ \/ UNCHANGED <<conv, store, selected, messages, oldest, attempt>>     \* it failed
       \/ /\ conv' = [conv EXCEPT ![deleting.conv] = "deleted"]
          /\ store' = [store EXCEPT ![deleting.conv] = <<>>]
          /\ IF deleting.selected = deleting.conv
             THEN selected' = NoConv /\ messages' = <<>> /\ oldest' = 0 /\ attempt' = NoAttempt
             ELSE UNCHANGED <<selected, messages, oldest, attempt>>
    /\ UNCHANGED <<open, loading, draft, typed, stream, active, phase, load, creating>>

-----------------------------------------------------------------------------
(* Sending *)

Type ==
    /\ open /\ deleting = NoDeletion
    /\ phase = "idle" /\ draft = 0
    /\ typed < MaxQuestions
    /\ typed' = typed + 1
    /\ draft' = typed + 1
    /\ UNCHANGED <<conv, store, open, selected, messages, oldest, loading, stream, active, phase,
                   attempt, load, creating, deleting>>

\* runStream up to its first await: the previous stream is let go, the new one posted.
RunStream(c, ask, id) ==
    /\ Len(stream) < MaxStreams
    /\ stream' = Append(IF active # 0 THEN [stream EXCEPT ![active] = Aborted(active)] ELSE stream,
                        [conv |-> c, ask |-> ask, id |-> id, at |-> "posted", end |-> "none",
                         told |-> "nothing", stopped |-> FALSE])
    /\ active' = Len(stream) + 1
    /\ phase' = "consulting"
    /\ attempt' = [ask |-> ask, id |-> id, ambiguous |-> TRUE, retry |-> FALSE]

\* crypto.randomUUID: the number of the stream will do.
NewId == Len(stream) + 1

SendMessage ==
    /\ open /\ deleting = NoDeletion
    /\ draft # 0 /\ phase = "idle"
    /\ IF selected # NoConv
       THEN draft' = 0 /\ RunStream(selected, draft, NewId) /\ UNCHANGED creating
       ELSE /\ \E c \in UnusedConvs : creating' = creating \cup {[conv |-> c, ask |-> draft]}
            /\ UNCHANGED <<draft, stream, active, phase, attempt>>
    /\ UNCHANGED <<conv, store, open, selected, messages, oldest, loading, typed, load, deleting>>

\* sendMessage after the POST of a new conversation: the empty thread counts as loaded.
SendInNewConversation(p) ==
    /\ p \in creating /\ p.ask # 0
    /\ creating' = creating \ {p}
    /\ conv' = [conv EXCEPT ![p.conv] = "live"]
    /\ selected' = p.conv
    /\ messages' = <<>> /\ oldest' = 1
    /\ draft' = 0
    /\ RunStream(p.conv, p.ask, NewId)
    /\ UNCHANGED <<store, open, loading, typed, load, deleting>>

\* retryLast
RetryLast ==
    /\ open /\ deleting = NoDeletion
    /\ attempt.retry /\ selected # NoConv /\ phase = "idle"
    /\ RunStream(selected, attempt.ask, IF attempt.ambiguous THEN attempt.id ELSE NewId)
    /\ UNCHANGED <<conv, store, open, selected, messages, oldest, loading, draft, typed, load,
                   creating, deleting>>

\* "Detener": only the controller is aborted; the reader notices later.
StopStreaming ==
    /\ open /\ deleting = NoDeletion
    /\ active # 0 /\ ~stream[active].stopped
    /\ stream' = [stream EXCEPT ![active].stopped = TRUE]
    /\ UNCHANGED <<conv, store, panel, load>>

-----------------------------------------------------------------------------
(* Reading the stream; one that is not the current one is read no more *)

\* The event `done` or `error`, whichever the turn ended with.
ReadTerminal(n) ==
    /\ n = active
    /\ stream[n].at = "answered" /\ stream[n].told = "nothing"
    /\ stream' = [stream EXCEPT ![n].told = stream[n].end]
    /\ phase' = "streaming"
    /\ attempt' = IF stream[n].end = "FAILED"
                  THEN [ask |-> stream[n].ask, id |-> stream[n].id, ambiguous |-> FALSE,
                        retry |-> TRUE]
                  ELSE attempt
    /\ UNCHANGED <<conv, store, open, selected, messages, oldest, loading, draft, typed, active,
                   load, creating, deleting>>

\* `finally`, when the stream is still the current one.
Settle(n) ==
    /\ active' = 0
    /\ phase' = "idle"
    /\ stream' = [stream EXCEPT ![n] = Aborted(n)]

\* The body ends after a terminal event: the question and its answer join the thread.
StreamEnds(n) ==
    /\ n = active
    /\ stream[n].at = "answered" /\ stream[n].told # "nothing"
    /\ Settle(n)
    /\ IF stream[n].told = "COMPLETED"
       THEN /\ messages' = Append(messages, [conv |-> stream[n].conv, id |-> stream[n].id])
            /\ attempt' = NoAttempt
       ELSE UNCHANGED <<messages, attempt>>
    /\ UNCHANGED <<conv, store, open, selected, oldest, loading, draft, typed, load, creating,
                   deleting>>

\* It ends or breaks before one, or the POST is refused: nobody knows what was done of it.
StreamBreaks(n) ==
    /\ n = active
    /\ ~stream[n].stopped
    /\ stream[n].told = "nothing"
    /\ Settle(n)
    /\ attempt' = [ask |-> stream[n].ask, id |-> stream[n].id, ambiguous |-> TRUE, retry |-> TRUE]
    /\ UNCHANGED <<conv, store, open, selected, messages, oldest, loading, draft, typed, load,
                   creating, deleting>>

\* An aborted read is waited for like any other.
StreamIsCutAfterEnd(n) ==
    /\ n = active
    /\ stream[n].told # "nothing"
    /\ Settle(n)
    /\ attempt' = [ask |-> stream[n].ask, id |-> stream[n].id, ambiguous |-> FALSE, retry |-> TRUE]
    /\ UNCHANGED <<conv, store, open, selected, messages, oldest, loading, draft, typed, load,
                   creating, deleting>>

\* An aborted read, or one that fails after the terminal event.
StreamIsCut(n) ==
    /\ n = active
    /\ stream[n].stopped \/ stream[n].told # "nothing"
    /\ Settle(n)
    /\ attempt' = [ask |-> stream[n].ask, id |-> stream[n].id, ambiguous |-> FALSE, retry |-> TRUE]
    /\ UNCHANGED <<conv, store, open, selected, messages, oldest, loading, draft, typed, load,
                   creating, deleting>>

-----------------------------------------------------------------------------
User ==
    \/ OpenPanel \/ ClosePanel \/ LoadMore
    \/ \E c \in Convs : SelectConversation(c) \/ RemoveConversation(c)
    \/ StartConversation \/ Type \/ SendMessage \/ RetryLast \/ StopStreaming

QuestionAnswers ==
    \/ \E l \in Loads : LoadIsAnswered(l) \/ DeliverEvent(l)
    \/ \E p \in creating : ConversationCreated(p) \/ SendInNewConversation(p) \/ CreationFails(p)
    \/ Deleted

Reads ==
    \E n \in Streams :
        \/ ServerReceives(n)
        \/ \E status \in {"COMPLETED", "FAILED"} : ServerEnds(n, status)
        \/ ReadTerminal(n) \/ StreamEnds(n) \/ StreamBreaks(n) \/ StreamIsCut(n)

ChatNext == User \/ QuestionAnswers \/ Reads

\* The API answers what it is asked and the browser reads it; nothing is asked of the user.
ChatFairness == WF_chatVars(Reads) /\ WF_chatVars(QuestionAnswers)

ChatSpec == ChatInit /\ [][ChatNext]_chatVars /\ ChatFairness
-----------------------------------------------------------------------------
(* Properties *)

\* The tab, the streams and the lists have their shape, and the phase says whether a
\* stream is being read.
ChatTypeOK ==
    /\ selected \in Convs \cup {NoConv} /\ oldest \in 0 .. 2 /\ draft \in 0 .. MaxQuestions
    /\ active \in 0 .. Len(stream)
    /\ phase = "idle" <=> active = 0
    /\ \A n \in Streams :
         /\ stream[n].at \in {"posted", "late", "refused", "running", "left", "answered", "over"}
         /\ stream[n].at \in {"refused", "answered"} => active = n
    /\ \A l \in Loads : load[l].at \in {"asked", "read", "failed", "over"}

\* Whatever is selected, created and deleted while requests are under way, the stream being
\* read is one of the selected conversation, if one is selected, so its text never appears
\* in the thread of another.
CurrentStreamIsSelected ==
    active # 0 /\ selected # NoConv => stream[active].conv = selected

\* What may be retried was asked in the conversation a retry would send it to: retryLast
\* takes the selected one, and does nothing without one.
RetryGoesBack ==
    attempt.ask # 0 /\ selected # NoConv =>
        \E n \in Streams : stream[n].ask = attempt.ask /\ stream[n].conv = selected

\* Within a conversation a question is executed a second time only when the user stopped
\* the first attempt or was told how it ended: an interrupted stream can be retried safely
\* (AssistantProvider.tsx:362).
InterruptedIsAskedOnce ==
    \A c \in Convs : \A j, k \in DOMAIN store[c] :
        store[c][j].ask = store[c][k].ask /\ store[c][j].id < store[c][k].id =>
            \E n \in Streams : /\ stream[n].id = store[c][j].id
                              /\ (stream[n].stopped \/ stream[n].told # "nothing")

\* Whatever is refused, lost or stopped, the composer is given back to the user.
ComposerIsFreed == phase # "idle" ~> phase = "idle"

\* The stream the panel reads, and what it would send again, is of the conversation
\* selected, and sending again after an interruption asks nothing twice.  Nothing is said of
\* the list of messages: one that is answered late is shown under whatever was selected since.
PanelTellsItsConversation ==
    ChatTypeOK /\ CurrentStreamIsSelected /\ RetryGoesBack /\ InterruptedIsAskedOnce
=============================================================================
