--------------------------- MODULE AssistantTurn ---------------------------
(***************************************************************************)
(* One question to the assistant, from the HTTP request to the end of its  *)
(* event stream (features/assistant): the checks before the headers, the   *)
(* reservation of the turn under the quotas, retrieval, the model and its  *)
(* tools, the gate of the evidence, the completion or the failure of the   *)
(* run, and the replay of a turn that is already there.                    *)
(*                                                                         *)
(* Each database transaction is one step (see Transactions); between two   *)
(* steps of a request the others run, the client may hang up, the process  *)
(* may die, and a conversation may be deleted or purged.  A turn is the    *)
(* user message, its run and its assistant message; it is named by the     *)
(* unique pair (conversationId, clientRequestId).  The texts are           *)
(* abstracted to what the gate tells apart.                                *)
(***************************************************************************)
EXTENDS Integers, Sequences, FiniteSets

CONSTANTS
    Users,
    Conversations,
    Keys,                     \* clientRequestId
    Requests,                 \* the POST requests sent, each once
    DailyMessageLimit,
    GlobalDailyMessageLimit,
    MaxToolCalls,
    RetentionDays,
    MaxDay,                   \* bound of the clock
    Faults                    \* a subset of {"crash", "database"}

ASSUME AssistantAssumption ==
    /\ DailyMessageLimit \in Nat \ {0}
    /\ GlobalDailyMessageLimit \in Nat \ {0}
    /\ MaxToolCalls \in Nat
    /\ RetentionDays \in Nat \ {0}
    /\ MaxDay \in Nat
    /\ Faults \subseteq {"crash", "database"}

VARIABLES
    conversation,   \* the rows of AssistantConversation
    turn,           \* per (conversation, key): user message, run and assistant message
    http,           \* each request: where its handler is, and the events its client has seen
    purge,          \* the ids the purge job has listed
    day

assistantVars == <<conversation, turn, http, purge, day>>

Turns == Conversations \X Keys
Days == 0 .. MaxDay
Terminal == {"COMPLETED", "FAILED", "CANCELLED"}

\* PROVIDER stands for the codes of the provider's errors, its timeouts among them.
ErrorCodes == {"PROVIDER", "MAX_TOOLS", "CONFLICT", "INTERNAL"}

NoConversation == [state |-> "absent", user |-> "nobody", expiresAt |-> 0]
NoTurn == [run |-> "absent", message |-> "absent", content |-> "", sources |-> FALSE,
           toolCalls |-> 0, errorCode |-> "none", day |-> 0]
Unsent == [step |-> "unsent", turn |-> <<"none", "none">>, user |-> "nobody", aborted |-> FALSE,
           toolCalls |-> 0, evidence |-> FALSE, text |-> "", error |-> "none", seen |-> <<>>]

\* What a transaction that the database gives up is told as: the conflict it ends with
\* after its retries (transaction.ts), or any other error.
DatabaseErrors == {"CONFLICT", "INTERNAL"}

TurnsInit ==
    /\ conversation = [c \in Conversations |-> NoConversation]
    /\ turn = [t \in Turns |-> NoTurn]
    /\ http = [r \in Requests |-> Unsent]
    /\ purge = {}
    /\ day = 0

-----------------------------------------------------------------------------
(* The rows *)

TurnsOf(c) == {t \in Turns : t[1] = c}

\* A question that failed is taken for one never asked.
ExistsUnlessFailed(t) == turn[t].run \in {"PENDING", "COMPLETED"}

\* findByClientRequestId: the row of the user message.
Exists(t) == turn[t].run # "absent"

\* runs.findPendingByConversationId
PendingIn(c) == \E t \in TurnsOf(c) : turn[t].run = "PENDING"

Owned(c, u) == conversation[c].state = "stored" /\ conversation[c].user = u

\* countUserMessagesForActorOnBusinessDay: the messages still stored.
UsedToday(u) ==
    Cardinality({t \in Turns : Exists(t) /\ turn[t].day = day /\ conversation[t[1]].user = u})

\* countUserMessagesOnBusinessDay
UsedGlobally == Cardinality({t \in Turns : Exists(t) /\ turn[t].day = day})

\* The rows of the conversations go by cascade.
RemoveConversations(C) ==
    /\ conversation' = [c \in Conversations |->
                          IF c \in C THEN [conversation[c] EXCEPT !.state = "deleted"]
                                     ELSE conversation[c]]
    /\ turn' = [t \in Turns |-> IF t[1] \in C THEN NoTurn ELSE turn[t]]

-----------------------------------------------------------------------------
(* The stream.  Whether the client has hung up or not, the controller pulls the        *)
(* events to the end; after a disconnection the writes go nowhere (sse.ts).            *)

Event(type, what) == [type |-> type, what |-> what]

\* The code an error is told with is the one stored, or one nobody depends on: left out.
ErrorEvent == Event("error", "")

See(h, events) == IF h.aborted THEN h.seen ELSE h.seen \o events

\* Request r goes on at `step`, its client having seen `events`.
GoOn(r, step, events) ==
    http' = [http EXCEPT ![r].step = step, ![r].seen = See(http[r], events)]

\* An error in runHybridTurn: classifyAssistantError gives it its code, and the failure
\* is stored before the event that tells it.
Fails(r, code) == http' = [http EXCEPT ![r].step = "failing", ![r].error = code]

-----------------------------------------------------------------------------
(* Conversations *)

CreateConversation(u, c) ==
    /\ conversation[c].state = "absent"
    /\ conversation' = [conversation EXCEPT ![c] =
                          [state |-> "stored", user |-> u, expiresAt |-> day + RetentionDays]]
    /\ UNCHANGED <<turn, http, purge, day>>

DeleteConversation(u, c) ==
    /\ Owned(c, u)
    /\ RemoveConversations({c})
    /\ UNCHANGED <<http, purge, day>>

Expired(c) == conversation[c].state = "stored" /\ conversation[c].expiresAt <= day

\* The job lists the ids that have expired ...
PurgeLists ==
    /\ purge = {}
    /\ purge' = {c \in Conversations : Expired(c)}
    /\ purge' # {}
    /\ UNCHANGED <<conversation, turn, http, day>>

\* ... and deletes those ids, in a statement of its own.
PurgeDeletes ==
    /\ purge # {}
    /\ RemoveConversations({c \in purge : conversation[c].state = "stored"})
    /\ purge' = {}
    /\ UNCHANGED <<http, day>>

-----------------------------------------------------------------------------
(* Before the headers *)

\* prepareStreamMessage.  A refusal answers with the HTTP envelope: no stream.
Prepare(r, u, t) ==
    /\ http[r].step = "unsent"
    /\ http' = [http EXCEPT ![r] = [Unsent EXCEPT
          !.turn = t, !.user = u,
          !.step = IF ~Owned(t[1], u) THEN "refused"
                   ELSE IF Exists(t) THEN IF turn[t].run = "PENDING" THEN "refused"
                                                                      ELSE "replaying"
                   ELSE IF PendingIn(t[1]) THEN "refused" ELSE "prepared"]]
    /\ UNCHANGED <<conversation, turn, purge, day>>

\* The database fails while the request is looked at: it answers with the envelope.
PrepareFails(r, u, t) ==
    /\ "database" \in Faults
    /\ http[r].step = "unsent"
    /\ http' = [http EXCEPT ![r] = [Unsent EXCEPT !.turn = t, !.user = u, !.step = "refused"]]
    /\ UNCHANGED <<conversation, turn, purge, day>>

\* reserveAssistantTurn finds that another request stored the same clientRequestId.
ReserveFindsTurn(r) ==
    LET t == http[r].turn IN
    /\ http[r].step = "prepared"
    /\ Exists(t)
    /\ GoOn(r, IF turn[t].run = "PENDING" THEN "refused" ELSE "replaying", <<>>)
    /\ UNCHANGED <<conversation, turn, purge, day>>

\* The limits are compared one too late.
WithinQuotaInclusive(u) ==
    /\ UsedToday(u) <= DailyMessageLimit
    /\ UsedGlobally <= GlobalDailyMessageLimit

WithinQuota(u) ==
    /\ UsedToday(u) < DailyMessageLimit
    /\ UsedGlobally < GlobalDailyMessageLimit

MayReserve(r) ==
    LET t == http[r].turn IN
    /\ ~PendingIn(t[1])
    /\ WithinQuota(http[r].user)
    /\ Owned(t[1], http[r].user)

ReserveRefuses(r) ==
    /\ http[r].step = "prepared"
    /\ ~Exists(http[r].turn)
    /\ ~MayReserve(r)
    /\ GoOn(r, "refused", <<>>)
    /\ UNCHANGED <<conversation, turn, purge, day>>

\* createUserMessageWithRun: the message, its run and the empty assistant message.
NewTurn == [NoTurn EXCEPT !.run = "PENDING", !.message = "PENDING", !.day = day]

\* touch: the retention of the conversation starts again.
Touched(c) == [conversation EXCEPT ![c].expiresAt = day + RetentionDays]

Reserve(r) ==
    LET t == http[r].turn
        u == http[r].user
    IN
    /\ http[r].step = "prepared"
    /\ ~Exists(t)
    /\ MayReserve(r)
    /\ turn' = [turn EXCEPT ![t] = NewTurn]
    /\ conversation' = Touched(t[1])
    /\ GoOn(r, "retrieving", <<Event("metadata", "")>>)
    /\ UNCHANGED <<purge, day>>

\* The database refuses the reservation, and nothing is stored: a conflict left after the
\* retries is refused before the headers; anything else is told by a stream of one error,
\* which says nothing of the turn: the same question may be asked again and answered.
ReserveFails(r) ==
    /\ "database" \in Faults
    /\ http[r].step = "prepared"
    /\ \/ GoOn(r, "refused", <<>>)
       \/ GoOn(r, "unknown", <<ErrorEvent>>)
    /\ UNCHANGED <<conversation, turn, purge, day>>

-----------------------------------------------------------------------------
(* The hybrid turn *)

\* Retrieval: READY chunks or none; the provider may fail or time out.
Retrieve(r) ==
    /\ http[r].step = "retrieving"
    /\ \/ \E found \in BOOLEAN :
            http' = [http EXCEPT ![r].step = "model", ![r].evidence = found]
       \/ \E code \in {"PROVIDER", "INTERNAL"} : Fails(r, code)
    /\ UNCHANGED <<conversation, turn, purge, day>>

\* One more round is not begun for a client that has hung up; otherwise the model
\* answers with text, or the call fails, times out or is aborted on the way.
ModelAnswers(r) ==
    /\ http[r].step = "model"
    /\ \/ /\ ~http[r].aborted
          /\ \E text \in {"", "answer"} :
               http' = [http EXCEPT ![r].step = "gate", ![r].text = text]
       \/ Fails(r, "PROVIDER")
    /\ UNCHANGED <<conversation, turn, purge, day>>

\* The cap is looked at before each call of the batch.
ToolCallsFit(r, calls) == http[r].toolCalls + calls <= MaxToolCalls

\* The model asks for `calls` tools.  They run one after the other up to the cap; each
\* may fail, and what it found is evidence.  The next round asks for the final text.
ToolCalls(r, calls) ==
    /\ http[r].step = "model"
    /\ ~http[r].aborted
    /\ \/ /\ ToolCallsFit(r, calls)
          /\ \E found \in BOOLEAN :
               http' = [http EXCEPT ![r].toolCalls = @ + calls, ![r].evidence = @ \/ found]
       \/ /\ ~ToolCallsFit(r, calls)
          /\ Fails(r, "MAX_TOOLS")
    /\ UNCHANGED <<conversation, turn, purge, day>>

\* The gate drops the sources but lets the text through.
Ungated(h) == h.text

\* hasFactualEvidence: without it the answer of the model is dropped for the canned one.
Gated(h) == IF h.evidence THEN h.text ELSE "insufficient"

\* The deltas of the model go to the client as they are, the gated text to the database.
DeliverRaw(r) ==
    /\ http[r].step = "gate"
    /\ http' = [http EXCEPT ![r].step = "completing", ![r].text = Gated(http[r]),
                            ![r].seen = IF http[r].text = "" THEN @
                                        ELSE See(http[r], <<Event("delta", http[r].text)>>)]
    /\ UNCHANGED <<conversation, turn, purge, day>>

\* The only text the client ever sees is streamed here, before it is stored.
Deliver(r) ==
    LET text == Gated(http[r]) IN
    /\ http[r].step = "gate"
    /\ http' = [http EXCEPT ![r].step = "completing", ![r].text = text,
                            ![r].seen = IF text = "" THEN @
                                        ELSE See(http[r], <<Event("delta", text)>>)]
    /\ UNCHANGED <<conversation, turn, purge, day>>

\* completeAssistantMessage and runs.complete touch PENDING rows only, and the schema
\* wants the text of a COMPLETED message not to be empty.
MayComplete(r) ==
    LET t == http[r].turn IN
    turn[t].message = "PENDING" /\ turn[t].run = "PENDING" /\ http[r].text # ""

\* What the row of the run keeps of a turn that ends well.
CompletedTurn(h) ==
    [turn[h.turn] EXCEPT !.run = "COMPLETED", !.message = "COMPLETED", !.content = h.text,
                         !.sources = h.evidence, !.toolCalls = h.toolCalls]

Complete(r) ==
    LET h == http[r] IN
    /\ h.step = "completing"
    /\ MayComplete(r)
    /\ turn' = [turn EXCEPT ![h.turn] = CompletedTurn(h)]
    /\ GoOn(r, "ended", <<Event("sources", h.evidence), Event("done", "")>>)
    /\ UNCHANGED <<conversation, purge, day>>

\* The rows are gone, the text is empty, or the database refuses: the transaction is
\* rolled back and the turn fails.
CompletionFails(r) ==
    /\ http[r].step = "completing"
    /\ \/ ~MayComplete(r) /\ Fails(r, IF http[r].text = "" THEN "INTERNAL" ELSE "CONFLICT")
       \/ "database" \in Faults /\ \E code \in DatabaseErrors : Fails(r, code)
    /\ UNCHANGED <<conversation, turn, purge, day>>

\* Each row of turn t fails only if it is still PENDING; the text stays empty.  A run is
\* never CANCELLED: the gateway reports an aborted call as a timeout (openai/map-error.ts).
FailedTurn(t, code) ==
    [turn[t] EXCEPT !.message = IF @ = "PENDING" THEN "FAILED" ELSE @,
                    !.run = IF @ = "PENDING" THEN "FAILED" ELSE @,
                    !.errorCode = IF turn[t].run = "PENDING" THEN code ELSE @]

PersistFailure(r) ==
    LET h == http[r] IN
    /\ h.step = "failing"
    /\ turn' = [turn EXCEPT ![h.turn] = FailedTurn(h.turn, h.error)]
    /\ GoOn(r, "ended", <<ErrorEvent>>)
    /\ UNCHANGED <<conversation, purge, day>>

\* The database refuses that too: the client is told, the rows stay as they are.
FailureIsLost(r) ==
    /\ "database" \in Faults
    /\ http[r].step = "failing"
    /\ GoOn(r, "unsettled", <<ErrorEvent>>)
    /\ UNCHANGED <<conversation, turn, purge, day>>

-----------------------------------------------------------------------------
(* The replay of a turn that has ended.  Its run was read before: what is left to read *)
(* is the message of an answer, and then its sources.                                  *)

\* replayExisting: the stored outcome, without the provider and without another try.
Replay(r) ==
    LET t == http[r].turn IN
    /\ http[r].step = "replaying"
    /\ Exists(t)
    /\ IF turn[t].run = "COMPLETED"
       THEN GoOn(r, "sources", <<Event("metadata", ""), Event("delta", turn[t].content)>>)
       ELSE GoOn(r, "ended", <<Event("metadata", ""), ErrorEvent>>)
    /\ UNCHANGED <<conversation, turn, purge, day>>

\* The conversation went away after the row of the run was read: the message is not found,
\* or the failure is told from that row.
ReplayOfDeleted(r) ==
    /\ http[r].step = "replaying"
    /\ ~Exists(http[r].turn)
    /\ GoOn(r, "ended", <<Event("metadata", ""), ErrorEvent>>)
    /\ UNCHANGED <<conversation, turn, purge, day>>

\* The sources of an answer deleted since its text was read are none.
ReplaySources(r) ==
    /\ http[r].step = "sources"
    /\ GoOn(r, "ended", <<Event("sources", turn[http[r].turn].sources), Event("done", "")>>)
    /\ UNCHANGED <<conversation, turn, purge, day>>

\* One of the two reads fails: the controller tells an error in the open stream, whatever
\* the turn keeps.
ReplayFails(r) ==
    LET t == http[r].turn IN
    /\ "database" \in Faults
    /\ \/ /\ http[r].step = "replaying"
          /\ Exists(t) => turn[t].run = "COMPLETED"
          /\ GoOn(r, "unknown", <<Event("metadata", ""), ErrorEvent>>)
       \/ /\ http[r].step = "sources"
          /\ GoOn(r, "unknown", <<ErrorEvent>>)
    /\ UNCHANGED <<conversation, turn, purge, day>>

-----------------------------------------------------------------------------
(* What happens to a request *)

\* At work on a turn it has reserved.
Working == {"retrieving", "model", "gate", "completing", "failing"}

Running == Working \cup {"prepared", "replaying", "sources"}

\* How a request ends: "unsettled" has left the run it reserved as it was, "unknown" was
\* told of an error that says nothing of the turn.
Over == {"refused", "ended", "unknown", "unsettled", "cut"}

\* The client hangs up (Stop, or the connection drops).
ClientLeaves(r) ==
    /\ http[r].step \in Running
    /\ ~http[r].aborted
    /\ http' = [http EXCEPT ![r].aborted = TRUE]
    /\ UNCHANGED <<conversation, turn, purge, day>>

\* The process dies: every handler with it.  No job looks at the runs it leaves.
ServerStops ==
    /\ "crash" \in Faults
    /\ \E r \in Requests : http[r].step \in Running
    /\ http' = [r \in Requests |-> IF http[r].step \in Running
                                   THEN [http[r] EXCEPT !.step = IF @ \in Working
                                                                 THEN "unsettled" ELSE "cut"]
                                   ELSE http[r]]
    /\ UNCHANGED <<conversation, turn, purge, day>>

NextDay ==
    /\ day < MaxDay
    /\ day' = day + 1
    /\ UNCHANGED <<conversation, turn, http, purge>>

Serve(r) ==
    \/ ReserveFindsTurn(r) \/ ReserveRefuses(r) \/ Reserve(r) \/ ReserveFails(r)
    \/ Retrieve(r) \/ ModelAnswers(r) \/ (\E calls \in 1 .. MaxToolCalls + 1 : ToolCalls(r, calls))
    \/ Deliver(r) \/ Complete(r) \/ CompletionFails(r)
    \/ PersistFailure(r) \/ FailureIsLost(r)
    \/ Replay(r) \/ ReplayOfDeleted(r) \/ ReplaySources(r) \/ ReplayFails(r)

AssistantNext ==
    \/ \E u \in Users, c \in Conversations : CreateConversation(u, c) \/ DeleteConversation(u, c)
    \/ \E r \in Requests, u \in Users, t \in Turns : Prepare(r, u, t) \/ PrepareFails(r, u, t)
    \/ \E r \in Requests : Serve(r) \/ ClientLeaves(r)
    \/ PurgeLists \/ PurgeDeletes
    \/ ServerStops
    \/ NextDay

\* The event loop goes on with every request it has accepted: the timeout of the
\* request bounds the calls to the provider.  Nothing is assumed of the clients.
TurnsFairness == \A r \in Requests : WF_assistantVars(Serve(r))

AssistantSpec == TurnsInit /\ [][AssistantNext]_assistantVars /\ TurnsFairness

-----------------------------------------------------------------------------
(* Properties *)

\* Every row has its columns, by the CHECK constraints of the assistant's tables: a
\* message is COMPLETED with its text or without any text, a run has an error code
\* exactly when it failed.
AssistantTypeOK ==
    /\ \A c \in Conversations :
         /\ conversation[c].state \in {"absent", "stored", "deleted"}
         /\ conversation[c].expiresAt \in 0 .. MaxDay + RetentionDays
    /\ \A t \in Turns :
         /\ turn[t].run \in {"absent", "PENDING"} \cup Terminal
         /\ turn[t].message = turn[t].run
         /\ turn[t].content \in {"", "answer", "insufficient"}
         /\ turn[t].content # "" <=> turn[t].message = "COMPLETED"
         /\ turn[t].errorCode \in ErrorCodes \cup {"none"}
         /\ turn[t].errorCode # "none" <=> turn[t].run \in {"FAILED", "CANCELLED"}
         /\ turn[t].toolCalls \in 0 .. MaxToolCalls
    /\ \A r \in Requests : http[r].step \in {"unsent"} \cup Running \cup Over

\* Concurrent runs of one conversation are refused (docs/FEATURES/17_AI_ASSISTANT.md:295):
\* at most one is PENDING, and at most one request works on it.
OneRunPerConversation ==
    \A c \in Conversations :
        /\ Cardinality({t \in TurnsOf(c) : turn[t].run = "PENDING"}) <= 1
        /\ \A r, q \in Requests :
             /\ r # q /\ http[r].turn = http[q].turn
             /\ http[r].step \in Working
             => http[q].step \notin Working

\* What an answer claims rests on evidence: a stored text of the model has its sources,
\* and no client is shown one without (docs/FEATURES/17_AI_ASSISTANT.md, AI-002), unless
\* the conversation is deleted between the text and the sources of a replay.
AnswersHaveEvidence ==
    /\ \A t \in Turns : turn[t].content = "answer" => turn[t].sources
    /\ \A r \in Requests : \A i, j \in 1 .. Len(http[r].seen) :
         /\ http[r].seen[i] = Event("delta", "answer")
         /\ http[r].seen[j].type = "sources"
         => http[r].seen[j].what \/ conversation[http[r].turn[1]].state = "deleted"

Ended(r, type) == http[r].seen # <<>> /\ http[r].seen[Len(http[r].seen)].type = type

\* A stream that says "done" has shown the text the conversation keeps (or kept until it
\* was deleted), and all of it; a stream that ends with an error is of a turn that has
\* no text and never gets one, unless the database failed before the turn was there or
\* while its answer was read again: such an error tells nothing of the turn.
StreamTellsTheConversation ==
    \A r \in Requests :
        LET t == http[r].turn IN
        /\ Ended(r, "done") /\ Exists(t) =>
             /\ turn[t].run = "COMPLETED"
             /\ \E i \in 1 .. Len(http[r].seen) : http[r].seen[i] = Event("delta", turn[t].content)
        /\ Ended(r, "error") /\ http[r].step # "unknown" => turn[t].content = ""

\* A run ends once (createUserMessageWithRun, complete, fail and cancel are conditional
\* on PENDING): whatever is retried, a turn that has an outcome keeps it, text, sources
\* and error code included, until it is deleted.
OutcomeKept ==
    [][\A t \in Turns : turn[t].run \in Terminal => turn'[t] \in {turn[t], NoTurn}]_assistantVars

\* The quota of a day counts what is stored: no user has more messages of today than the
\* limit, however many tabs send at once (reserveAssistantTurn).
QuotaHolds ==
    /\ \A u \in Users : UsedToday(u) <= DailyMessageLimit
    /\ UsedGlobally <= GlobalDailyMessageLimit

\* A stream that is interrupted leaves the run FAILED or CANCELLED, so that the question
\* can be asked again (docs/chatbot_implementation/IMPLEMENTATION_PLAN.md:747).
InterruptedRunsEnd ==
    \A t \in Turns : turn[t].run = "PENDING" ~> turn[t].run # "PENDING"

\* The request that reserved turn t has ended and left its run PENDING.
Forsaken(t) == \E r \in Requests : http[r].turn = t /\ http[r].step = "unsettled"

\* What the code keeps of that: a run is PENDING for ever only if the process died over it
\* or the database refused to store its failure; a client that leaves, a provider that
\* fails or times out, and a conversation that is purged all settle it.
RunsEndUnlessForsaken ==
    \A t \in Turns : turn[t].run = "PENDING" ~> turn[t].run # "PENDING" \/ Forsaken(t)

\* A run is worked on by one request, ends once and keeps the columns its outcome asks
\* for, whatever is retried, left, purged or interrupted.
RunsAreSettledOnce == [](AssistantTypeOK /\ OneRunPerConversation) /\ OutcomeKept
=============================================================================
