-------------------------- MODULE AssistantProofs --------------------------
(***************************************************************************)
(* Theorems about AssistantTurn: a run is worked on by one request and     *)
(* settled once, an answer has its evidence, a stream tells what the       *)
(* conversation keeps, and the quotas of a day hold, for every number of   *)
(* users, conversations and requests, whatever is left, purged or          *)
(* interrupted.  The second part is about KnowledgeSync.                   *)
(*                                                                         *)
(* A handler acts in several transactions on a turn it looked at before.   *)
(* What ties the two together is Fits: the row of the turn still is what   *)
(* the place the handler has reached says, unless the conversation was     *)
(* deleted, and then it is gone for good.                                  *)
(***************************************************************************)
EXTENDS AssistantTurn, KnowledgeSync, FiniteSetTheorems, SequenceTheorems, TLAPS

-----------------------------------------------------------------------------
(* Types *)

Steps == {"unsent"} \cup Running \cup Over
TextsSent == {"", "answer", "insufficient"}

ConversationType ==
    [state : {"absent", "stored", "deleted"}, user : Users \cup {"nobody"},
     expiresAt : 0 .. MaxDay + RetentionDays]

TurnType ==
    [run : {"absent", "PENDING"} \cup Terminal, message : {"absent", "PENDING"} \cup Terminal,
     content : TextsSent, sources : BOOLEAN, toolCalls : 0 .. MaxToolCalls,
     errorCode : ErrorCodes \cup {"none"}, day : Days]

EventType ==
    [type : {"metadata", "delta", "sources", "done", "error"}, what : TextsSent \cup BOOLEAN]

HttpType ==
    [step : Steps, turn : Turns \cup {<<"none", "none">>}, user : Users \cup {"nobody"},
     aborted : BOOLEAN, toolCalls : 0 .. MaxToolCalls, evidence : BOOLEAN, text : TextsSent,
     error : ErrorCodes \cup {"none"}, seen : Seq(EventType)]

Typed ==
    /\ conversation \in [Conversations -> ConversationType]
    /\ turn \in [Turns -> TurnType]
    /\ http \in [Requests -> HttpType]
    /\ purge \in SUBSET Conversations
    /\ day \in Days

-----------------------------------------------------------------------------
(* The stream *)

Elements(s) == {s[i] : i \in 1 .. Len(s)}

EndsWith(s, type) == s # <<>> /\ s[Len(s)].type = type

\* The events the client of h has seen, and the type of the last.
Shown(h) == Elements(h.seen)
LastIs(h, type) == EndsWith(h.seen, type)

\* Nothing tells an outcome.
Quiet(h) == \A e \in Shown(h) : e.type \in {"metadata", "delta"}

\* A text of the model is shown with its sources.
Grounded(h) ==
    Event("delta", "answer") \in Shown(h) =>
        \A e \in Shown(h) : e.type = "sources" => e.what = TRUE

\* What a client may have seen when its handler is at its step.
SeenFits(h) ==
    /\ h.step \in {"unsent", "refused", "prepared", "replaying"} => h.seen = <<>>
    /\ h.step \notin {"ended", "unknown", "unsettled"} => Quiet(h)
    /\ h.step \in {"retrieving", "model", "gate"} => Event("delta", "answer") \notin Shown(h)
    /\ h.step = "completing" =>
         /\ h.text = "answer" => h.evidence
         /\ Event("delta", "answer") \in Shown(h) => h.evidence
         /\ ~h.aborted /\ h.text # "" => Event("delta", h.text) \in Shown(h)
    /\ h.step = "failing" => h.error \in ErrorCodes

\* A row, its columns agreeing with one another.
RowFits(turnRow) ==
    /\ turnRow.message = turnRow.run
    /\ turnRow.content # "" <=> turnRow.run = "COMPLETED"
    /\ turnRow.errorCode # "none" <=> turnRow.run \in {"FAILED", "CANCELLED"}
    /\ turnRow.content = "answer" => turnRow.sources

\* The row of h's turn, in a conversation in this state, is what h's handler takes it for
\* or what h's client was told.
Fits(h, turnRow, state) ==
    /\ h.step \in Working => turnRow.run = "PENDING" \/ state = "deleted"
    /\ h.step = "replaying" => turnRow.run \in Terminal \/ state = "deleted"
    /\ h.step = "sources" =>
         \/ state = "deleted"
         \/ /\ turnRow.run = "COMPLETED"
            /\ ~h.aborted => Event("delta", turnRow.content) \in Shown(h)
            /\ \A e \in Shown(h) : e.type = "delta" => e.what = turnRow.content
    /\ state = "deleted" \/ Grounded(h)
    /\ LastIs(h, "done") =>
         \/ state = "deleted"
         \/ turnRow.run = "COMPLETED" /\ Event("delta", turnRow.content) \in Shown(h)
    /\ LastIs(h, "error") /\ h.step # "unknown" =>
         state = "deleted" \/ (turnRow.run # "absent" /\ turnRow.content = "")

Rows ==
    /\ \A t \in Turns : RowFits(turn[t])
    /\ \A t \in Turns : turn[t].run # "absent" =>
         conversation[t[1]].state = "stored" /\ turn[t].day <= day
    /\ \A s, t \in Turns :
         s[1] = t[1] /\ turn[s].run = "PENDING" /\ turn[t].run = "PENDING" => s = t

Handlers ==
    /\ \A r \in Requests : SeenFits(http[r])
    /\ \A r \in Requests : http[r].step # "unsent" =>
         /\ http[r].turn \in Turns
         /\ Fits(http[r], turn[http[r].turn], conversation[http[r].turn[1]].state)

\* No two requests work on a turn, and none works on one whose client was told its error.
Workers ==
    \A r, q \in Requests :
        /\ http[r].step \in Working
        /\ http[q].turn = http[r].turn
        /\ q # r
        => /\ http[q].step \notin Working
           /\ LastIs(http[q], "error") => \/ http[q].step = "unknown"
                                          \/ conversation[http[r].turn[1]].state = "deleted"

TurnInv == Typed /\ Rows /\ Handlers /\ Workers

-----------------------------------------------------------------------------
(* What a step leaves of a request *)

\* A request that only goes on has seen some more, or nothing when its client has left.
LEMMA GoOnEffect ==
    ASSUME Typed, NEW r \in Requests
    PROVE  \A step \in Steps, events \in Seq(EventType) : GoOn(r, step, events) =>
             \E h \in HttpType :
               /\ http' = [http EXCEPT ![r] = h]
               /\ h.step = step /\ h.seen = See(http[r], events)
               /\ h.turn = http[r].turn /\ h.aborted = http[r].aborted
<1> SUFFICES ASSUME NEW step \in Steps, NEW events \in Seq(EventType), GoOn(r, step, events)
             PROVE  \E h \in HttpType :
                      /\ http' = [http EXCEPT ![r] = h]
                      /\ h.step = step /\ h.seen = See(http[r], events)
                      /\ h.turn = http[r].turn /\ h.aborted = http[r].aborted
  OBVIOUS
<1>1. http[r] \in HttpType
  BY DEF Typed
<1>2. See(http[r], events) \in Seq(EventType)
  BY <1>1, ConcatProperties DEF See, HttpType
<1> DEFINE h == [http[r] EXCEPT !.step = step, !.seen = See(http[r], events)]
<1>3. h \in HttpType /\ h.step = step /\ h.seen = See(http[r], events)
      /\ h.turn = http[r].turn /\ h.aborted = http[r].aborted
  BY <1>1, <1>2 DEF HttpType
<1>4. http' = [http EXCEPT ![r] = h]
  BY DEF GoOn, Typed
<1> QED
  BY <1>3, <1>4

\* A request that fails has the code of its error.
LEMMA FailsEffect ==
    ASSUME Typed, NEW r \in Requests, NEW code \in ErrorCodes, Fails(r, code)
    PROVE  \E h \in HttpType :
             /\ http' = [http EXCEPT ![r] = h]
             /\ h.step = "failing" /\ h.error = code /\ h.seen = http[r].seen
             /\ h.turn = http[r].turn /\ h.aborted = http[r].aborted
<1>1. http[r] \in HttpType
  BY DEF Typed
<1> DEFINE h == [http[r] EXCEPT !.step = "failing", !.error = code]
<1>2. h \in HttpType /\ h.step = "failing" /\ h.error = code /\ h.seen = http[r].seen
      /\ h.turn = http[r].turn /\ h.aborted = http[r].aborted
  BY <1>1 DEF HttpType, Steps, Over, Running, Working
<1>3. http' = [http EXCEPT ![r] = h]
  BY DEF Fails, Typed
<1> QED
  BY <1>2, <1>3

\* The places of what is added to a stream.
LEMMA Extended ==
    ASSUME NEW s \in Seq(EventType), NEW t \in Seq(EventType), NEW n \in Nat \ {0}, Len(t) = n
    PROVE  /\ Len(s \o t) = Len(s) + n /\ s \o t # <<>>
           /\ \A i \in 1 .. Len(s) : (s \o t)[i] = s[i]
           /\ \A i \in 1 .. n : (s \o t)[Len(s) + i] = t[i]
<1> DEFINE more == s \o t
<1>1. Len(s) \in Nat
  OBVIOUS
<1>2. /\ more \in Seq(EventType) /\ Len(more) = Len(s) + n
      /\ \A i \in 1 .. Len(s) + n : more[i] = IF i <= Len(s) THEN s[i] ELSE t[i - Len(s)]
  BY ConcatProperties
<1> HIDE DEF more
<1>3. more # <<>>
  BY <1>1, <1>2
<1>4. \A i \in 1 .. Len(s) : more[i] = s[i]
  BY <1>1, <1>2
<1>5. ASSUME NEW i \in 1 .. n PROVE more[Len(s) + i] = t[i]
  BY <1>1, <1>2
<1> QED
  BY <1>2, <1>3, <1>4, <1>5 DEF more

\* One event more, or two: shown with the others, and the last.
LEMMA OneMore ==
    ASSUME NEW s \in Seq(EventType), NEW e \in EventType
    PROVE  /\ Elements(s \o <<e>>) = Elements(s) \cup {e}
           /\ \A type : EndsWith(s \o <<e>>, type) <=> e.type = type
<1> DEFINE t == <<e>>
           more == s \o t
<1>1. t \in Seq(EventType) /\ Len(t) = 1 /\ t[1] = e /\ 1 \in Nat \ {0} /\ Len(s) \in Nat
  OBVIOUS
<1> HIDE DEF t
<1>2. /\ Len(more) = Len(s) + 1 /\ more # <<>>
      /\ \A i \in 1 .. Len(s) : more[i] = s[i]
      /\ more[Len(s) + 1] = e
  <2>1. /\ Len(more) = Len(s) + 1 /\ more # <<>>
        /\ \A i \in 1 .. Len(s) : more[i] = s[i]
        /\ \A i \in 1 .. 1 : more[Len(s) + i] = t[i]
    BY <1>1, Extended
  <2> QED
    BY <1>1, <2>1
<1> HIDE DEF more
<1>3. Elements(more) = Elements(s) \cup {e}
  BY <1>1, <1>2 DEF Elements
<1>4. \A type : EndsWith(more, type) <=> e.type = type
  BY <1>2 DEF EndsWith
<1> QED
  BY <1>3, <1>4 DEF more, t

\* Two events more: both shown, the second the last.
LEMMA TwoMore ==
    ASSUME NEW s \in Seq(EventType), NEW e \in EventType, NEW f \in EventType
    PROVE  /\ Elements(s \o <<e, f>>) = Elements(s) \cup {e, f}
           /\ \A type : EndsWith(s \o <<e, f>>, type) <=> f.type = type
<1> DEFINE t == <<e, f>>
           more == s \o t
<1>1. /\ t \in Seq(EventType) /\ Len(t) = 2 /\ t[1] = e /\ t[2] = f /\ 2 \in Nat \ {0}
      /\ Len(s) \in Nat
  OBVIOUS
<1> HIDE DEF t
<1>2. /\ Len(more) = Len(s) + 2 /\ more # <<>>
      /\ \A i \in 1 .. Len(s) : more[i] = s[i]
      /\ more[Len(s) + 1] = e /\ more[Len(s) + 2] = f
  <2>1. /\ Len(more) = Len(s) + 2 /\ more # <<>>
        /\ \A i \in 1 .. Len(s) : more[i] = s[i]
        /\ \A i \in 1 .. 2 : more[Len(s) + i] = t[i]
    BY <1>1, Extended
  <2> QED
    BY <1>1, <2>1
<1> HIDE DEF more
<1>3. Elements(more) = Elements(s) \cup {e, f}
  BY <1>1, <1>2 DEF Elements
<1>4. \A type : EndsWith(more, type) <=> f.type = type
  BY <1>2 DEF EndsWith
<1> QED
  BY <1>3, <1>4 DEF more, t

\* An event, or two, for a client that may have left.
LEMMA SeesOne ==
    ASSUME NEW h \in HttpType, NEW g, NEW e \in EventType, g.seen = See(h, <<e>>)
    PROVE  /\ h.aborted => g.seen = h.seen
           /\ ~h.aborted => /\ Shown(g) = Shown(h) \cup {e}
                            /\ \A type : LastIs(g, type) <=> e.type = type
<1>1. h.seen \in Seq(EventType)
  BY DEF HttpType
<1> QED
  BY <1>1, OneMore DEF See, Shown, LastIs

\* The same of two events.
LEMMA SeesTwo ==
    ASSUME NEW h \in HttpType, NEW g, NEW e \in EventType, NEW f \in EventType,
           g.seen = See(h, <<e, f>>)
    PROVE  /\ h.aborted => g.seen = h.seen
           /\ ~h.aborted => /\ Shown(g) = Shown(h) \cup {e, f}
                            /\ \A type : LastIs(g, type) <=> f.type = type
<1>1. h.seen \in Seq(EventType)
  BY DEF HttpType
<1> QED
  BY <1>1, TwoMore DEF See, Shown, LastIs

\* Until an outcome is told the stream does not end with one.
LEMMA QuietHasNoEnd ==
    ASSUME NEW h \in HttpType, Quiet(h)
    PROVE  ~LastIs(h, "done") /\ ~LastIs(h, "error") /\ Grounded(h)
<1>1. ASSUME h.seen # <<>> PROVE h.seen[Len(h.seen)] \in Shown(h)
  <2>1. h.seen \in Seq(EventType)
    BY DEF HttpType
  <2>2. Len(h.seen) \in 1 .. Len(h.seen)
    BY <1>1, <2>1, EmptySeq
  <2> QED
    BY <2>2 DEF Shown, Elements
<1> QED
  BY <1>1 DEF LastIs, EndsWith, Quiet, Grounded

\* What was seen does not change: nor does what is shown and what is last.
LEMMA SeenTheSame ==
    ASSUME NEW h, NEW g, g.seen = h.seen
    PROVE  /\ Shown(g) = Shown(h)
           /\ Quiet(g) <=> Quiet(h)
           /\ Grounded(g) <=> Grounded(h)
           /\ \A type : LastIs(g, type) <=> LastIs(h, type)
BY DEF Shown, Quiet, LastIs, Grounded

\* A client that has seen nothing has been shown nothing.
LEMMA NothingShown ==
    ASSUME NEW h, h.seen = <<>>
    PROVE  Shown(h) = {} /\ Quiet(h) /\ Grounded(h) /\ \A type : ~LastIs(h, type)
<1>1. Len(<<>>) = 0 /\ 1 .. 0 = {}
  OBVIOUS
<1>2. Shown(h) = {}
  BY <1>1 DEF Shown, Elements
<1> QED
  BY <1>2 DEF Quiet, LastIs, EndsWith, Grounded

\* The events sent.
LEMMA EventsSent ==
    /\ \A text \in TextsSent : Event("delta", text) \in EventType
    /\ \A found \in BOOLEAN : Event("sources", found) \in EventType
    /\ Event("metadata", "") \in EventType /\ Event("done", "") \in EventType
    /\ ErrorEvent \in EventType /\ ErrorEvent.type = "error"
<1>1. ASSUME NEW type \in {"metadata", "delta", "sources", "done", "error"},
             NEW what \in TextsSent \cup BOOLEAN
      PROVE  Event(type, what) \in EventType
  BY DEF Event, EventType
<1>2. "" \in TextsSent
  BY DEF TextsSent
<1>3. \A found \in BOOLEAN : Event("sources", found) \in EventType
  <2>1. ASSUME NEW found \in BOOLEAN PROVE found \in TextsSent \cup BOOLEAN
    BY <2>1, Zenon
  <2> QED
    BY <1>1, <2>1, Zenon
<1>4. /\ \A text \in TextsSent : Event("delta", text) \in EventType
      /\ Event("metadata", "") \in EventType /\ Event("done", "") \in EventType
      /\ Event("error", "") \in EventType
  <2>1. ASSUME NEW what \in TextsSent
        PROVE  /\ Event("metadata", what) \in EventType /\ Event("delta", what) \in EventType
               /\ Event("done", what) \in EventType /\ Event("error", what) \in EventType
    BY <1>1
  <2> QED
    BY <1>2, <2>1
<1>5. Event("error", "").type = "error"
  BY DEF Event
<1> QED
  BY <1>3, <1>4, <1>5, Zenon DEF ErrorEvent

-----------------------------------------------------------------------------
(* The steps of a request that leave the rows alone *)

\* What the invariant says of a request that was prepared.
LEMMA HandlerFacts ==
    ASSUME TurnInv, NEW r \in Requests
    PROVE  /\ http[r] \in HttpType /\ SeenFits(http[r])
           /\ http[r].step # "unsent" =>
                /\ http[r].turn \in Turns
                /\ turn[http[r].turn] \in TurnType /\ RowFits(turn[http[r].turn])
                /\ Fits(http[r], turn[http[r].turn], conversation[http[r].turn[1]].state)
BY DEF TurnInv, Typed, Rows, Handlers

\* Request r is h after the step, and h still fits its row, which has not changed.  It
\* works only if it did, and tells an error of a run only if that has ended or was its own.
Continues(r, h) ==
    /\ h \in HttpType /\ http' = [http EXCEPT ![r] = h]
    /\ h.step # "unsent" /\ h.turn \in Turns
    /\ SeenFits(h) /\ Fits(h, turn[h.turn], conversation[h.turn[1]].state)
    /\ h.step \in Working => http[r].step \in Working /\ h.turn = http[r].turn
    /\ LastIs(h, "error") => \/ h.step = "unknown" \/ conversation[h.turn[1]].state = "deleted"
                             \/ turn[h.turn].run \in Terminal
                             \/ http[r].step \in Working /\ h.turn = http[r].turn

\* A request that is prepared has been told nothing, and replays only a run that has ended.
LEMMA PrepareContinues ==
    ASSUME TurnInv, NEW r \in Requests, NEW u \in Users, NEW t \in Turns,
           Prepare(r, u, t) \/ PrepareFails(r, u, t)
    PROVE  \E h \in HttpType : Continues(r, h)
<1> DEFINE asked == IF ~Owned(t[1], u) THEN "refused"
                   ELSE IF Exists(t) THEN IF turn[t].run = "PENDING" THEN "refused"
                                                                      ELSE "replaying"
                   ELSE IF PendingIn(t[1]) THEN "refused" ELSE "prepared"
<1>1. asked \in {"refused", "prepared"} \/ (asked = "replaying" /\ turn[t].run \in Terminal)
  <2>1. turn[t].run \in {"absent", "PENDING"} \cup Terminal
    BY DEF TurnInv, Typed, TurnType
  <2> QED
    BY <2>1 DEF Exists
<1>2. PICK step :
        /\ step \in {"refused", "prepared"} \/ (step = "replaying" /\ turn[t].run \in Terminal)
        /\ http' = [http EXCEPT ![r] = [Unsent EXCEPT !.turn = t, !.user = u, !.step = step]]
  <2> HIDE DEF asked
  <2>1. CASE Prepare(r, u, t)
    <3>1. http' = [http EXCEPT ![r] = [Unsent EXCEPT !.turn = t, !.user = u, !.step = asked]]
      BY <2>1 DEF Prepare, asked
    <3> QED
      BY <1>1, <3>1
  <2>2. CASE PrepareFails(r, u, t)
    BY <2>2 DEF PrepareFails
  <2> QED
    BY <2>1, <2>2
<1> HIDE DEF asked
<1> DEFINE h == [Unsent EXCEPT !.turn = t, !.user = u, !.step = step]
<1>3. /\ h.step = step /\ h.turn = t /\ h.seen = <<>>
      /\ h \in HttpType /\ http' = [http EXCEPT ![r] = h]
  <2>1. step \in Steps
    BY <1>2 DEF Steps, Over, Running, Working, Over
  <2>2. 0 \in 0 .. MaxToolCalls /\ <<>> \in Seq(EventType)
    BY AssistantAssumption
  <2> QED
    BY <1>2, <2>1, <2>2 DEF Unsent, HttpType, TextsSent
<1> HIDE DEF h
<1>4. SeenFits(h)
  BY <1>2, <1>3, NothingShown DEF SeenFits
<1>5. Fits(h, turn[h.turn], conversation[h.turn[1]].state) /\ ~LastIs(h, "error")
  BY <1>2, <1>3, NothingShown DEF Fits, Working
<1>6. h.step \notin Working /\ h.step # "unsent"
  BY <1>2, <1>3 DEF Working
<1> QED
  BY <1>3, <1>4, <1>5, <1>6 DEF Continues

\* Nothing is reserved: the turn is there, or it may not be.
LEMMA NotReservedContinues ==
    ASSUME TurnInv, NEW r \in Requests, ReserveFindsTurn(r) \/ ReserveRefuses(r)
    PROVE  \E h \in HttpType : Continues(r, h)
<1> DEFINE t == http[r].turn
<1>1. http[r].step = "prepared" /\ t \in Turns /\ http[r].seen = <<>> /\ turn[t] \in TurnType
  BY HandlerFacts DEF ReserveFindsTurn, ReserveRefuses, SeenFits
<1>2. \E step \in {"refused", "replaying"} :
        /\ step = "replaying" => turn[t].run \in Terminal
        /\ GoOn(r, step, <<>>)
  BY <1>1 DEF ReserveFindsTurn, ReserveRefuses, Exists, TurnType
<1>3. PICK step \in {"refused", "replaying"} :
        /\ step = "replaying" => turn[t].run \in Terminal
        /\ GoOn(r, step, <<>>)
  BY <1>2
<1>4. step \in Steps /\ <<>> \in Seq(EventType) /\ Typed /\ GoOn(r, step, <<>>)
  BY <1>3 DEF Steps, Over, Running, Working, TurnInv
<1>5. PICK h \in HttpType :
        /\ http' = [http EXCEPT ![r] = h]
        /\ h.step = step /\ h.seen = See(http[r], <<>>)
        /\ h.turn = http[r].turn /\ h.aborted = http[r].aborted
  <2> DEFINE none == <<>>
  <2>1. none \in Seq(EventType) /\ GoOn(r, step, none)
    BY <1>4
  <2> HIDE DEF none
  <2>2. \E h \in HttpType :
          /\ http' = [http EXCEPT ![r] = h]
          /\ h.step = step /\ h.seen = See(http[r], none)
          /\ h.turn = http[r].turn /\ h.aborted = http[r].aborted
    BY <1>4, <2>1, GoOnEffect
  <2> QED
    BY <2>2 DEF none
<1>6. h.seen = <<>>
  BY <1>1, <1>5 DEF See
<1>7. SeenFits(h)
  BY <1>5, <1>6, NothingShown DEF SeenFits
<1>8. Fits(h, turn[h.turn], conversation[h.turn[1]].state) /\ ~LastIs(h, "error")
  BY <1>3, <1>5, <1>6, NothingShown DEF Fits, Working
<1> QED
  BY <1>1, <1>3, <1>5, <1>7, <1>8 DEF Continues, Working

\* A request that goes on working without a word to its client, or fails.
LEMMA InSilenceContinues ==
    ASSUME TurnInv, NEW r \in Requests, http[r].step \in Working,
           NEW h \in HttpType, http' = [http EXCEPT ![r] = h],
           h.turn = http[r].turn, h.seen = http[r].seen, h.aborted = http[r].aborted,
           \/ /\ http[r].step \in {"retrieving", "model"}
              /\ h.step \in {"model", "gate"}
           \/ h.step = "failing" /\ h.error \in ErrorCodes
    PROVE  Continues(r, h)
<1>1. /\ http[r] \in HttpType /\ SeenFits(http[r]) /\ http[r].turn \in Turns
      /\ Fits(http[r], turn[http[r].turn], conversation[http[r].turn[1]].state)
      /\ http[r].step \notin {"ended", "unknown", "unsettled"}
  BY HandlerFacts DEF Working
<1>2. Quiet(http[r]) /\ Quiet(h) /\ Shown(h) = Shown(http[r])
  BY <1>1, SeenTheSame DEF SeenFits
<1>3. ~LastIs(h, "done") /\ ~LastIs(h, "error") /\ Grounded(h)
  BY <1>2, QuietHasNoEnd
<1>4. SeenFits(h)
  BY <1>1, <1>2 DEF SeenFits, Quiet, Working
<1>5. Fits(h, turn[h.turn], conversation[h.turn[1]].state)
  BY <1>1, <1>3 DEF Fits, Working
<1> QED
  BY <1>1, <1>3, <1>4, <1>5 DEF Continues, Working, Running

\* A request that fails is silent until its failure is stored.
LEMMA FailsContinues ==
    ASSUME TurnInv, NEW r \in Requests, http[r].step \in Working,
           NEW code \in ErrorCodes, Fails(r, code)
    PROVE  \E h \in HttpType : Continues(r, h)
<1>1. Typed
  BY DEF TurnInv
<1>2. PICK h \in HttpType :
        /\ http' = [http EXCEPT ![r] = h]
        /\ h.step = "failing" /\ h.error = code /\ h.seen = http[r].seen
        /\ h.turn = http[r].turn /\ h.aborted = http[r].aborted
  BY <1>1, FailsEffect
<1>3. Continues(r, h)
  BY <1>2, InSilenceContinues
<1> QED
  BY <1>3

\* Retrieval, the model and its tools say nothing to the client, and stay within the cap.
LEMMA HybridTurnContinues ==
    ASSUME TurnInv, NEW r \in Requests,
           \/ Retrieve(r) \/ ModelAnswers(r)
           \/ \E calls \in 1 .. MaxToolCalls + 1 : ToolCalls(r, calls)
    PROVE  \E h \in HttpType : Continues(r, h)
<1>1. /\ http[r].step \in {"retrieving", "model"} /\ http[r].step \in Working
      /\ http[r] \in HttpType /\ http \in [Requests -> HttpType]
  BY DEF Retrieve, ModelAnswers, ToolCalls, Working, TurnInv, Typed
<1>2. {"PROVIDER", "INTERNAL"} \subseteq ErrorCodes /\ "MAX_TOOLS" \in ErrorCodes
  BY DEF ErrorCodes
<1>3. CASE \E code \in ErrorCodes : Fails(r, code)
  BY <1>1, <1>3, FailsContinues
<1>4. ASSUME NEW found \in BOOLEAN,
             http' = [http EXCEPT ![r].step = "model", ![r].evidence = found]
      PROVE  \E h \in HttpType : Continues(r, h)
  <2> DEFINE h == [http[r] EXCEPT !.step = "model", !.evidence = found]
  <2>1. /\ h \in HttpType /\ h.step = "model" /\ h.turn = http[r].turn
        /\ h.seen = http[r].seen /\ h.aborted = http[r].aborted
    BY <1>1 DEF HttpType, Steps, Over, Running, Working
  <2>2. http' = [http EXCEPT ![r] = h]
    BY <1>1, <1>4
  <2> HIDE DEF h
  <2>3. Continues(r, h)
    BY <1>1, <2>1, <2>2, InSilenceContinues
  <2> QED
    BY <2>1, <2>3
<1>5. ASSUME NEW text \in {"", "answer"},
             http' = [http EXCEPT ![r].step = "gate", ![r].text = text]
      PROVE  \E h \in HttpType : Continues(r, h)
  <2> DEFINE h == [http[r] EXCEPT !.step = "gate", !.text = text]
  <2>1. /\ h \in HttpType /\ h.step = "gate" /\ h.turn = http[r].turn
        /\ h.seen = http[r].seen /\ h.aborted = http[r].aborted
    BY <1>1 DEF HttpType, Steps, Over, Running, Working, TextsSent
  <2>2. http' = [http EXCEPT ![r] = h]
    BY <1>1, <1>5
  <2> HIDE DEF h
  <2>3. Continues(r, h)
    BY <1>1, <2>1, <2>2, InSilenceContinues
  <2> QED
    BY <2>1, <2>3
<1>6. ASSUME NEW calls \in 1 .. MaxToolCalls + 1, NEW found \in BOOLEAN,
             http[r].step = "model", ToolCallsFit(r, calls),
             http' = [http EXCEPT ![r].toolCalls = @ + calls, ![r].evidence = @ \/ found]
      PROVE  \E h \in HttpType : Continues(r, h)
  <2> DEFINE h == [http[r] EXCEPT !.toolCalls = @ + calls, !.evidence = @ \/ found]
  <2>1. http[r].toolCalls + calls \in 0 .. MaxToolCalls
    BY <1>1, <1>6, AssistantAssumption DEF ToolCallsFit, HttpType
  <2>2. (http[r].evidence \/ found) \in BOOLEAN
    OBVIOUS
  <2>3. /\ h \in HttpType /\ h.step = "model" /\ h.turn = http[r].turn
        /\ h.seen = http[r].seen /\ h.aborted = http[r].aborted
    BY <1>1, <1>6, <2>1, <2>2 DEF HttpType
  <2>4. http' = [http EXCEPT ![r] = h]
    BY <1>1, <1>6
  <2> HIDE DEF h
  <2>5. Continues(r, h)
    BY <1>1, <2>3, <2>4, InSilenceContinues
  <2> QED
    BY <2>3, <2>5
<1>7. CASE Retrieve(r)
  BY <1>2, <1>3, <1>4, <1>7 DEF Retrieve
<1>8. CASE ModelAnswers(r)
  BY <1>2, <1>3, <1>5, <1>8 DEF ModelAnswers
<1>9. ASSUME NEW calls \in 1 .. MaxToolCalls + 1, ToolCalls(r, calls)
      PROVE  \E h \in HttpType : Continues(r, h)
  BY <1>2, <1>3, <1>6, <1>9 DEF ToolCalls
<1> QED
  BY <1>7, <1>8, <1>9

\* The gated text rests on the evidence, and the client is shown it whole.
LEMMA DeliverContinues ==
    ASSUME TurnInv, NEW r \in Requests, Deliver(r)
    PROVE  \E h \in HttpType : Continues(r, h)
<1> DEFINE text == Gated(http[r])
           seen == IF text = "" THEN http[r].seen ELSE See(http[r], <<Event("delta", text)>>)
           h == [http[r] EXCEPT !.step = "completing", !.text = text, !.seen = seen]
<1>1. /\ http[r] \in HttpType /\ SeenFits(http[r]) /\ http[r].turn \in Turns
      /\ Fits(http[r], turn[http[r].turn], conversation[http[r].turn[1]].state)
      /\ http[r].step = "gate" /\ http[r].step \in Working
  BY HandlerFacts DEF Deliver, Working
<1>2. text \in TextsSent /\ (text = "answer" => http[r].evidence)
  BY <1>1 DEF Gated, HttpType, TextsSent
<1>3. Event("delta", text) \in EventType
  BY <1>2, EventsSent
<1>4. http' = [http EXCEPT ![r] = h]
  BY DEF Deliver, TurnInv, Typed
<1> HIDE DEF text
<1>5. http[r].seen \in Seq(EventType)
  BY <1>1 DEF HttpType
<1>6. <<Event("delta", text)>> \in Seq(EventType)
  BY <1>3
<1>7. seen \in Seq(EventType)
  BY <1>5, <1>6, ConcatProperties DEF See
<1> HIDE DEF seen
<1>8. /\ h \in HttpType /\ h.step = "completing" /\ h.turn = http[r].turn /\ h.text = text
      /\ h.seen = seen /\ h.aborted = http[r].aborted /\ h.evidence = http[r].evidence
  BY <1>1, <1>2, <1>7 DEF HttpType, Steps, Over, Running, Working
<1> HIDE DEF h
<1>9. /\ Quiet(http[r]) /\ Event("delta", "answer") \notin Shown(http[r])
  BY <1>1 DEF SeenFits
<1>10. /\ Shown(h) \subseteq Shown(http[r]) \cup {Event("delta", text)}
       /\ ~h.aborted /\ text # "" => Event("delta", text) \in Shown(h)
  <2>1. CASE text = "" \/ http[r].aborted
    <3>1. h.seen = http[r].seen
      BY <1>8, <2>1 DEF seen, See
    <3> QED
      BY <1>8, <2>1, <3>1, SeenTheSame
  <2>2. CASE text # "" /\ ~http[r].aborted
    <3>1. h.seen = See(http[r], <<Event("delta", text)>>)
      BY <1>8, <2>2 DEF seen
    <3>2. Shown(h) = Shown(http[r]) \cup {Event("delta", text)}
      BY <1>1, <1>3, <2>2, <3>1, SeesOne
    <3> QED
      BY <3>2
  <2> QED
    BY <2>1, <2>2
<1>11. Event("delta", text).type = "delta" /\ Event("delta", text).what = text
       /\ Event("delta", "answer").what = "answer"
  BY DEF Event
<1>12. Quiet(h)
  BY <1>9, <1>10, <1>11 DEF Quiet
<1>13. Event("delta", "answer") \in Shown(h) => text = "answer"
  BY <1>9, <1>10, <1>11
<1>14. SeenFits(h)
  BY <1>2, <1>8, <1>10, <1>12, <1>13 DEF SeenFits, Quiet
<1>15. ~LastIs(h, "done") /\ ~LastIs(h, "error") /\ Grounded(h)
  BY <1>8, <1>12, QuietHasNoEnd
<1>16. Fits(h, turn[h.turn], conversation[h.turn[1]].state)
  BY <1>1, <1>8, <1>15 DEF Fits, Working
<1>17. Continues(r, h)
  BY <1>1, <1>4, <1>8, <1>14, <1>15, <1>16 DEF Continues, Working
<1> QED
  BY <1>8, <1>17

\* A completion that is rolled back fails the turn.
LEMMA CompletionFailsContinues ==
    ASSUME TurnInv, NEW r \in Requests, CompletionFails(r)
    PROVE  \E h \in HttpType : Continues(r, h)
<1>1. http[r].step \in Working
  BY DEF CompletionFails, Working
<1>2. \E code \in ErrorCodes : Fails(r, code)
  <2>1. {"INTERNAL", "CONFLICT"} \subseteq ErrorCodes
    BY DEF ErrorCodes
  <2>2. \E code \in {"INTERNAL", "CONFLICT"} : Fails(r, code)
    BY DEF CompletionFails, DatabaseErrors
  <2> QED
    BY <2>1, <2>2
<1> QED
  BY <1>1, <1>2, FailsContinues

\* A stream that ends with an error tells nothing else of the outcome.
LEMMA TellsError ==
    ASSUME NEW g \in HttpType, Quiet(g), NEW h \in HttpType,
           h.step \in {"ended", "unknown", "unsettled"},
           NEW m \in EventType, m.type = "metadata", NEW e \in EventType, e.type = "error",
           h.seen = See(g, <<e>>) \/ h.seen = See(g, <<m, e>>)
    PROVE  SeenFits(h) /\ ~LastIs(h, "done") /\ Grounded(h)
<1>1. CASE g.aborted
  <2>1. h.seen = g.seen
    BY <1>1 DEF See
  <2>2. Quiet(h)
    BY <2>1, SeenTheSame
  <2> QED
    BY <2>2, QuietHasNoEnd DEF SeenFits
<1>2. CASE ~g.aborted
  <2>1. /\ Shown(h) \subseteq Shown(g) \cup {m, e}
        /\ ~LastIs(h, "done")
    <3>1. CASE h.seen = See(g, <<e>>)
      BY <1>2, <3>1, SeesOne
    <3>2. CASE h.seen = See(g, <<m, e>>)
      BY <1>2, <3>2, SeesTwo
    <3> QED
      BY <3>1, <3>2
  <2>2. \A x \in Shown(h) : x.type # "sources"
    BY <2>1 DEF Quiet
  <2> QED
    BY <2>1, <2>2 DEF SeenFits, Grounded
<1> QED
  BY <1>1, <1>2

\* Where a request is after the last events of its stream, or the first of a replay.
LEMMA TellsOne ==
    ASSUME TurnInv, NEW r \in Requests, NEW step \in Over \cup {"sources"}, NEW e \in EventType,
           GoOn(r, step, <<e>>)
    PROVE  \E h \in HttpType :
             /\ http' = [http EXCEPT ![r] = h]
             /\ h.step = step /\ h.seen = See(http[r], <<e>>)
             /\ h.turn = http[r].turn /\ h.aborted = http[r].aborted
<1> DEFINE events == <<e>>
<1>1. Typed /\ step \in Steps /\ events \in Seq(EventType) /\ GoOn(r, step, events)
  BY DEF TurnInv, Steps, Over, Running, Working
<1> HIDE DEF events
<1>2. \E h \in HttpType :
        /\ http' = [http EXCEPT ![r] = h]
        /\ h.step = step /\ h.seen = See(http[r], events)
        /\ h.turn = http[r].turn /\ h.aborted = http[r].aborted
  BY <1>1, GoOnEffect
<1> QED
  BY <1>2 DEF events

\* The same of two events.
LEMMA TellsTwo ==
    ASSUME TurnInv, NEW r \in Requests, NEW step \in Over \cup {"sources"},
           NEW e \in EventType, NEW f \in EventType, GoOn(r, step, <<e, f>>)
    PROVE  \E h \in HttpType :
             /\ http' = [http EXCEPT ![r] = h]
             /\ h.step = step /\ h.seen = See(http[r], <<e, f>>)
             /\ h.turn = http[r].turn /\ h.aborted = http[r].aborted
<1> DEFINE events == <<e, f>>
<1>1. Typed /\ step \in Steps /\ events \in Seq(EventType) /\ GoOn(r, step, events)
  BY DEF TurnInv, Steps, Over, Running, Working
<1> HIDE DEF events
<1>2. \E h \in HttpType :
        /\ http' = [http EXCEPT ![r] = h]
        /\ h.step = step /\ h.seen = See(http[r], events)
        /\ h.turn = http[r].turn /\ h.aborted = http[r].aborted
  BY <1>1, GoOnEffect
<1> QED
  BY <1>2 DEF events

\* An error that could not be stored is told of a run nobody else works on.
LEMMA FailureIsLostContinues ==
    ASSUME TurnInv, NEW r \in Requests, FailureIsLost(r)
    PROVE  \E h \in HttpType : Continues(r, h)
<1> DEFINE t == http[r].turn
<1>1. /\ http[r] \in HttpType /\ SeenFits(http[r]) /\ t \in Turns
      /\ turn[t] \in TurnType /\ RowFits(turn[t])
      /\ Fits(http[r], turn[t], conversation[t[1]].state)
      /\ http[r].step = "failing" /\ http[r].step \in Working
  BY HandlerFacts DEF FailureIsLost, Working
<1>2. PICK m, e : m = Event("metadata", "") /\ e = ErrorEvent
  OBVIOUS
<1>3. m \in EventType /\ e \in EventType /\ m.type = "metadata" /\ e.type = "error"
  BY <1>2, EventsSent DEF Event
<1>4. PICK h \in HttpType :
        /\ http' = [http EXCEPT ![r] = h]
        /\ h.step = "unsettled" /\ h.seen = See(http[r], <<e>>)
        /\ h.turn = http[r].turn /\ h.aborted = http[r].aborted
  <2>1. GoOn(r, "unsettled", <<e>>) /\ "unsettled" \in Over \cup {"sources"}
    BY <1>2 DEF FailureIsLost, Over
  <2> QED
    BY <1>3, <2>1, TellsOne
<1>5. SeenFits(h) /\ ~LastIs(h, "done") /\ Grounded(h)
  BY <1>1, <1>3, <1>4, TellsError DEF SeenFits
<1>6. Fits(h, turn[h.turn], conversation[h.turn[1]].state)
  BY <1>1, <1>4, <1>5 DEF Fits, RowFits, Working
<1>7. Continues(r, h)
  BY <1>1, <1>4, <1>5, <1>6 DEF Continues, Working
<1> QED
  BY <1>7

\* An error of the database before the turn is there, or while its answer is read again,
\* tells nothing of it.
LEMMA TellsNothingContinues ==
    ASSUME TurnInv, NEW r \in Requests, ReserveFails(r) \/ ReplayFails(r)
    PROVE  \E h \in HttpType : Continues(r, h)
<1> DEFINE t == http[r].turn
<1>1. /\ http[r] \in HttpType /\ t \in Turns /\ Quiet(http[r])
      /\ http[r].step \in {"prepared", "replaying", "sources"}
      /\ http[r].step = "prepared" => http[r].seen = <<>>
  BY HandlerFacts DEF ReserveFails, ReplayFails, SeenFits
<1>2. PICK m, e : m = Event("metadata", "") /\ e = ErrorEvent
  OBVIOUS
<1>3. m \in EventType /\ e \in EventType /\ m.type = "metadata" /\ e.type = "error"
  BY <1>2, EventsSent DEF Event
<1>4. CASE GoOn(r, "unknown", <<e>>) \/ GoOn(r, "unknown", <<m, e>>)
  <2>1. "unknown" \in Over \cup {"sources"}
    BY DEF Over
  <2>2. PICK h \in HttpType :
          /\ http' = [http EXCEPT ![r] = h]
          /\ h.step = "unknown" /\ h.turn = t
          /\ h.seen = See(http[r], <<e>>) \/ h.seen = See(http[r], <<m, e>>)
    BY <1>3, <1>4, <2>1, TellsOne, TellsTwo
  <2>3. SeenFits(h) /\ ~LastIs(h, "done") /\ Grounded(h)
    BY <1>1, <1>3, <2>2, TellsError
  <2>4. Fits(h, turn[h.turn], conversation[h.turn[1]].state)
    BY <2>2, <2>3 DEF Fits, Working
  <2>5. Continues(r, h)
    BY <1>1, <2>2, <2>3, <2>4 DEF Continues, Working
  <2> QED
    BY <2>5
<1>5. CASE http[r].step = "prepared" /\ GoOn(r, "refused", <<>>)
  <2> DEFINE none == <<>>
  <2>1. Typed /\ "refused" \in Steps /\ none \in Seq(EventType) /\ GoOn(r, "refused", none)
    BY <1>5 DEF TurnInv, Steps, Over
  <2> HIDE DEF none
  <2>2. PICK h \in HttpType :
          /\ http' = [http EXCEPT ![r] = h]
          /\ h.step = "refused" /\ h.seen = See(http[r], none) /\ h.turn = t
    BY <2>1, GoOnEffect
  <2>3. h.seen = <<>>
    BY <1>1, <1>5, <2>2 DEF See, none
  <2>4. SeenFits(h) /\ Fits(h, turn[h.turn], conversation[h.turn[1]].state) /\ ~LastIs(h, "error")
    BY <2>2, <2>3, NothingShown DEF SeenFits, Fits, Working
  <2>5. Continues(r, h)
    BY <1>1, <2>2, <2>4 DEF Continues, Working
  <2> QED
    BY <2>5
<1> QED
  BY <1>2, <1>4, <1>5 DEF ReserveFails, ReplayFails

\* A replay tells the text that is stored, or the failure, or that there is none any more.
LEMMA ReplayContinues ==
    ASSUME TurnInv, NEW r \in Requests, Replay(r) \/ ReplayOfDeleted(r)
    PROVE  \E h \in HttpType : Continues(r, h)
<1> DEFINE t == http[r].turn
<1>1. /\ http[r] \in HttpType /\ SeenFits(http[r]) /\ t \in Turns
      /\ turn[t] \in TurnType /\ RowFits(turn[t])
      /\ Fits(http[r], turn[t], conversation[t[1]].state)
      /\ http[r].step = "replaying" /\ http[r].seen = <<>>
      /\ Quiet(http[r]) /\ Shown(http[r]) = {}
  BY HandlerFacts, NothingShown DEF Replay, ReplayOfDeleted, SeenFits
<1>2. turn[t].run \in Terminal \/ conversation[t[1]].state = "deleted"
  BY <1>1 DEF Fits
<1>3. Exists(t) => conversation[t[1]].state # "deleted"
  BY <1>1 DEF TurnInv, Rows, Exists
<1>4. PICK m, d, e : /\ m = Event("metadata", "") /\ d = Event("delta", turn[t].content)
                     /\ e = ErrorEvent
  OBVIOUS
<1>5. /\ m \in EventType /\ d \in EventType /\ e \in EventType
      /\ m.type = "metadata" /\ d.type = "delta" /\ e.type = "error" /\ d.what = turn[t].content
  BY <1>1, <1>4, EventsSent DEF TurnType, Event
<1>6. {"sources", "ended"} \subseteq Over \cup {"sources"}
  BY DEF Over
<1>7. CASE Replay(r) /\ turn[t].run = "COMPLETED"
  <2>1. GoOn(r, "sources", <<m, d>>)
    BY <1>4, <1>7 DEF Replay
  <2>2. PICK h \in HttpType :
          /\ http' = [http EXCEPT ![r] = h]
          /\ h.step = "sources" /\ h.seen = See(http[r], <<m, d>>)
          /\ h.turn = t /\ h.aborted = http[r].aborted
    BY <1>5, <1>6, <2>1, TellsTwo
  <2>3. Shown(h) \subseteq {m, d} /\ (~h.aborted => d \in Shown(h))
    <3>1. CASE http[r].aborted
      <4>1. h.seen = http[r].seen
        BY <1>1, <1>5, <2>2, <3>1, SeesTwo
      <4> QED
        BY <1>1, <2>2, <3>1, <4>1, SeenTheSame
    <3>2. CASE ~http[r].aborted
      BY <1>1, <1>5, <2>2, <3>2, SeesTwo
    <3> QED
      BY <3>1, <3>2
  <2>4. Quiet(h)
    BY <1>5, <2>3 DEF Quiet
  <2>5. ~LastIs(h, "done") /\ ~LastIs(h, "error") /\ Grounded(h)
    BY <2>4, QuietHasNoEnd
  <2>6. SeenFits(h)
    BY <2>2, <2>4 DEF SeenFits
  <2>7. \A x \in Shown(h) : x.type = "delta" => x.what = turn[t].content
    BY <1>5, <2>3
  <2>8. Fits(h, turn[h.turn], conversation[h.turn[1]].state)
    BY <1>4, <1>7, <2>2, <2>3, <2>5, <2>7 DEF Fits, Working
  <2>9. Continues(r, h)
    BY <1>1, <2>2, <2>5, <2>6, <2>8 DEF Continues, Working
  <2> QED
    BY <2>9
<1>8. CASE /\ GoOn(r, "ended", <<m, e>>)
           /\ \/ conversation[t[1]].state = "deleted"
              \/ turn[t].run \in Terminal /\ turn[t].run # "COMPLETED"
  <2>1. PICK h \in HttpType :
          /\ http' = [http EXCEPT ![r] = h]
          /\ h.step = "ended" /\ h.seen = See(http[r], <<m, e>>)
          /\ h.turn = t /\ h.aborted = http[r].aborted
    BY <1>5, <1>6, <1>8, TellsTwo
  <2>2. SeenFits(h) /\ ~LastIs(h, "done") /\ Grounded(h)
    BY <1>1, <1>5, <2>1, TellsError
  <2>3. Fits(h, turn[h.turn], conversation[h.turn[1]].state)
    BY <1>1, <1>8, <2>1, <2>2 DEF Fits, RowFits, Working, Terminal
  <2>4. Continues(r, h)
    BY <1>1, <1>8, <2>1, <2>2, <2>3 DEF Continues, Working
  <2> QED
    BY <2>4
<1>9. CASE Replay(r) /\ turn[t].run # "COMPLETED"
  <2>1. turn[t].run \in Terminal /\ GoOn(r, "ended", <<m, e>>)
    BY <1>2, <1>3, <1>4, <1>9 DEF Replay
  <2> QED
    BY <1>8, <1>9, <2>1
<1>10. CASE ReplayOfDeleted(r)
  <2>1. turn[t].run \notin Terminal /\ GoOn(r, "ended", <<m, e>>)
    BY <1>4, <1>10 DEF ReplayOfDeleted, Exists, Terminal
  <2> QED
    BY <1>2, <1>8, <2>1
<1> QED
  BY <1>7, <1>9, <1>10

\* The sources that are read after the text are those of the text, unless it is gone.
LEMMA ReplaySourcesContinues ==
    ASSUME TurnInv, NEW r \in Requests, ReplaySources(r)
    PROVE  \E h \in HttpType : Continues(r, h)
<1> DEFINE t == http[r].turn
<1>1. /\ http[r] \in HttpType /\ SeenFits(http[r]) /\ t \in Turns
      /\ turn[t] \in TurnType /\ RowFits(turn[t])
      /\ Fits(http[r], turn[t], conversation[t[1]].state)
      /\ http[r].step = "sources" /\ Quiet(http[r])
  BY HandlerFacts DEF ReplaySources, SeenFits
<1>2. PICK s, e : s = Event("sources", turn[t].sources) /\ e = Event("done", "")
  OBVIOUS
<1>3. /\ s \in EventType /\ e \in EventType
      /\ s.type = "sources" /\ s.what = turn[t].sources /\ e.type = "done"
  BY <1>1, <1>2, EventsSent DEF TurnType, Event
<1>4. PICK h \in HttpType :
        /\ http' = [http EXCEPT ![r] = h]
        /\ h.step = "ended" /\ h.seen = See(http[r], <<s, e>>)
        /\ h.turn = t /\ h.aborted = http[r].aborted
  <2>1. GoOn(r, "ended", <<s, e>>) /\ "ended" \in Over \cup {"sources"}
    BY <1>2 DEF ReplaySources, Over
  <2> QED
    BY <1>3, <2>1, TellsTwo
<1>5. CASE http[r].aborted
  <2>1. h.seen = http[r].seen
    BY <1>1, <1>3, <1>4, <1>5, SeesTwo
  <2>2. Quiet(h)
    BY <1>1, <2>1, SeenTheSame
  <2>3. ~LastIs(h, "done") /\ ~LastIs(h, "error") /\ Grounded(h)
    BY <2>2, QuietHasNoEnd
  <2>4. SeenFits(h) /\ Fits(h, turn[h.turn], conversation[h.turn[1]].state)
    BY <1>4, <2>2, <2>3 DEF SeenFits, Fits, Working
  <2>5. Continues(r, h)
    BY <1>1, <1>4, <2>3, <2>4 DEF Continues, Working
  <2> QED
    BY <2>5
<1>6. CASE ~http[r].aborted
  <2>1. Shown(h) = Shown(http[r]) \cup {s, e} /\ ~LastIs(h, "error")
    BY <1>1, <1>3, <1>4, <1>6, SeesTwo
  <2>2. SeenFits(h)
    BY <1>4 DEF SeenFits
  <2>3. ASSUME conversation[t[1]].state # "deleted"
        PROVE  /\ turn[t].run = "COMPLETED" /\ Event("delta", turn[t].content) \in Shown(h)
               /\ Grounded(h)
    <3>1. /\ turn[t].run = "COMPLETED" /\ Event("delta", turn[t].content) \in Shown(http[r])
          /\ \A x \in Shown(http[r]) : x.type = "delta" => x.what = turn[t].content
      BY <1>1, <1>6, <2>3 DEF Fits
    <3>2. ASSUME Event("delta", "answer") \in Shown(h), NEW x \in Shown(h), x.type = "sources"
          PROVE  x.what = TRUE
      <4>1. Event("delta", "answer").type = "delta" /\ Event("delta", "answer").what = "answer"
        BY DEF Event
      <4>2. turn[t].content = "answer"
        BY <1>3, <2>1, <3>1, <3>2, <4>1
      <4>3. turn[t].sources = TRUE
        BY <1>1, <4>2 DEF RowFits, TurnType
      <4>4. x = s
        BY <1>1, <1>3, <2>1, <3>2 DEF Quiet
      <4> QED
        BY <1>3, <4>3, <4>4
    <3> QED
      BY <2>1, <3>1, <3>2 DEF Grounded
  <2>4. Fits(h, turn[h.turn], conversation[h.turn[1]].state)
    BY <1>4, <2>1, <2>3 DEF Fits, Working
  <2>5. Continues(r, h)
    BY <1>1, <1>4, <2>1, <2>2, <2>4 DEF Continues, Working
  <2> QED
    BY <2>5
<1> QED
  BY <1>5, <1>6

\* A client that leaves has seen what it has seen.
LEMMA ClientLeavesContinues ==
    ASSUME TurnInv, NEW r \in Requests, ClientLeaves(r)
    PROVE  \E h \in HttpType : Continues(r, h)
<1> DEFINE h == [http[r] EXCEPT !.aborted = TRUE]
<1>1. /\ http[r] \in HttpType /\ SeenFits(http[r]) /\ http[r].turn \in Turns
      /\ Fits(http[r], turn[http[r].turn], conversation[http[r].turn[1]].state)
      /\ http[r].step \in Running
      /\ http[r].step \notin {"ended", "unknown", "unsettled", "unsent"}
  BY HandlerFacts DEF ClientLeaves, Running, Working
<1>2. /\ h \in HttpType /\ h.step = http[r].step /\ h.turn = http[r].turn
      /\ h.seen = http[r].seen /\ h.text = http[r].text /\ h.evidence = http[r].evidence
      /\ h.error = http[r].error /\ h.aborted = TRUE
  BY <1>1 DEF HttpType
<1>3. http' = [http EXCEPT ![r] = h]
  BY DEF ClientLeaves, TurnInv, Typed
<1> HIDE DEF h
<1>4. Shown(h) = Shown(http[r]) /\ Quiet(h)
  BY <1>1, <1>2, SeenTheSame DEF SeenFits
<1>5. SeenFits(h)
  BY <1>1, <1>2, <1>4 DEF SeenFits, Quiet
<1>6. ~LastIs(h, "done") /\ ~LastIs(h, "error") /\ Grounded(h)
  BY <1>2, <1>4, QuietHasNoEnd
<1>7. Fits(h, turn[h.turn], conversation[h.turn[1]].state)
  BY <1>1, <1>2, <1>4, <1>6 DEF Fits
<1>8. Continues(r, h)
  BY <1>1, <1>2, <1>3, <1>5, <1>6, <1>7 DEF Continues
<1> QED
  BY <1>2, <1>8

-----------------------------------------------------------------------------
(* The invariant is kept *)

\* A request that goes on alone keeps it.
LEMMA ContinuesKeeps ==
    ASSUME TurnInv, NEW r \in Requests, NEW h \in HttpType, Continues(r, h),
           UNCHANGED <<conversation, turn, purge, day>>
    PROVE  TurnInv'
<1>1. /\ http' = [http EXCEPT ![r] = h] /\ http'[r] = h
      /\ \A q \in Requests : q # r => http'[q] = http[q]
      /\ conversation' = conversation /\ turn' = turn /\ purge' = purge /\ day' = day
  BY DEF Continues, TurnInv, Typed
<1>2. Typed'
  BY <1>1 DEF TurnInv, Typed
<1>3. Rows'
  BY <1>1 DEF TurnInv, Rows
<1>4. Handlers'
  <2>1. ASSUME NEW q \in Requests
        PROVE  /\ SeenFits(http'[q])
               /\ http'[q].step # "unsent" =>
                    /\ http'[q].turn \in Turns
                    /\ Fits(http'[q], turn[http'[q].turn],
                            conversation[http'[q].turn[1]].state)
    <3>1. CASE q = r
      BY <1>1, <3>1 DEF Continues
    <3>2. CASE q # r
      BY <1>1, <3>2 DEF TurnInv, Handlers
    <3> QED
      BY <3>1, <3>2
  <2> QED
    BY <1>1, <2>1 DEF Handlers
<1>5. Workers'
  <2>1. ASSUME NEW a \in Requests, NEW b \in Requests, http'[a].step \in Working,
               http'[b].turn = http'[a].turn, b # a
        PROVE  /\ http'[b].step \notin Working
               /\ LastIs(http'[b], "error") => \/ http'[b].step = "unknown"
                                               \/ conversation[http'[a].turn[1]].state = "deleted"
    <3>1. http[a].step \in Working /\ http'[a].turn = http[a].turn
      BY <1>1, <2>1 DEF Continues
    <3>2. CASE b # r
      BY <1>1, <2>1, <3>1, <3>2 DEF TurnInv, Workers
    <3>3. CASE b = r
      <4>1. http'[b] = h /\ http'[a] = http[a] /\ a # r
        BY <1>1, <2>1, <3>3
      <4>2. h.turn = http[a].turn
        BY <2>1, <4>1
      <4>3. ~(http[r].step \in Working /\ h.turn = http[r].turn)
        BY <3>1, <4>1, <4>2 DEF TurnInv, Workers
      <4>4. h.step \notin Working
        BY <4>3 DEF Continues
      <4>5. turn[h.turn].run = "PENDING" \/ conversation[h.turn[1]].state = "deleted"
        BY <3>1, <4>2, HandlerFacts DEF Fits, Working
      <4> QED
        BY <3>1, <4>1, <4>2, <4>3, <4>4, <4>5 DEF Continues, Terminal
    <3> QED
      BY <3>2, <3>3
  <2> QED
    BY <1>1, <2>1 DEF Workers
<1> QED
  BY <1>2, <1>3, <1>4, <1>5 DEF TurnInv

\* A request that takes nothing of its turn for granted, nor told anything of it.
Free(h) ==
    /\ h.step \notin Working \cup {"replaying", "sources"}
    /\ ~LastIs(h, "done")
    /\ LastIs(h, "error") => h.step = "unknown"

\* Such a request that fits a row fits any other.
LEMMA FreeFits ==
    ASSUME NEW h, NEW before, NEW after, NEW state, Free(h), Fits(h, before, state)
    PROVE  Fits(h, after, state)
<1>1. h.step \notin Working \cup {"replaying", "sources"} /\ ~LastIs(h, "done")
  BY DEF Free
<1>2. LastIs(h, "error") => h.step = "unknown"
  BY DEF Free
<1>3. state = "deleted" \/ Grounded(h)
  BY DEF Fits
<1> QED
  BY <1>1, <1>2, <1>3 DEF Fits

\* A request that writes the row of its turn keeps it, the others of that turn being free.
LEMMA WriteKeeps ==
    ASSUME TurnInv, NEW r \in Requests, NEW h \in HttpType, NEW t \in Turns, NEW turnRow \in TurnType,
           http[r].turn = t, h.turn = t, h.step # "unsent",
           http' = [http EXCEPT ![r] = h], turn' = [turn EXCEPT ![t] = turnRow],
           SeenFits(h), RowFits(turnRow), Fits(h, turnRow, "stored"),
           turnRow.run # "absent", turnRow.day <= day, turnRow.run = "PENDING" => ~PendingIn(t[1]),
           conversation[t[1]].state = "stored",
           \A q \in Requests : q # r /\ http[q].turn = t => Free(http[q]),
           conversation' \in [Conversations -> ConversationType],
           \A c \in Conversations : conversation'[c].state = conversation[c].state,
           purge' = purge, day' = day
    PROVE  TurnInv'
<1>1. /\ http'[r] = h
      /\ \A q \in Requests : q # r => http'[q] = http[q]
      /\ turn'[t] = turnRow
      /\ \A s \in Turns : s # t => turn'[s] = turn[s]
      /\ \A s \in Turns : s[1] \in Conversations
  BY DEF TurnInv, Typed, Turns
<1>2. Typed'
  BY DEF TurnInv, Typed
<1>3. Rows'
  <2>1. \A s \in Turns : RowFits(turn'[s])
    BY <1>1 DEF TurnInv, Rows
  <2>2. \A s \in Turns : turn'[s].run # "absent" =>
          conversation'[s[1]].state = "stored" /\ turn'[s].day <= day'
    BY <1>1 DEF TurnInv, Rows
  <2>3. ASSUME NEW p \in Turns, NEW s \in Turns, p[1] = s[1],
               turn'[p].run = "PENDING", turn'[s].run = "PENDING"
        PROVE  p = s
    <3>1. \A x \in Turns : x[1] = t[1] /\ turnRow.run = "PENDING" => turn[x].run # "PENDING"
      BY DEF PendingIn, TurnsOf
    <3> QED
      BY <1>1, <2>3, <3>1 DEF TurnInv, Rows
  <2> QED
    BY <2>1, <2>2, <2>3 DEF Rows
<1>4. Handlers'
  <2>1. ASSUME NEW q \in Requests
        PROVE  /\ SeenFits(http'[q])
               /\ http'[q].step # "unsent" =>
                    /\ http'[q].turn \in Turns
                    /\ Fits(http'[q], turn'[http'[q].turn],
                            conversation'[http'[q].turn[1]].state)
    <3>1. CASE q = r
      BY <1>1, <3>1
    <3>2. CASE q # r /\ http[q].turn = t
      <4>1. SeenFits(http[q])
        BY DEF TurnInv, Handlers
      <4>2. http[q].step # "unsent" => Fits(http[q], turn[t], "stored")
        BY <3>2 DEF TurnInv, Handlers
      <4>3. http[q].step # "unsent" => Fits(http[q], turnRow, "stored")
        BY <3>2, <4>2, FreeFits
      <4> QED
        BY <1>1, <3>2, <4>1, <4>3
    <3>3. CASE q # r /\ http[q].turn # t
      BY <1>1, <3>3 DEF TurnInv, Handlers
    <3> QED
      BY <3>1, <3>2, <3>3
  <2> QED
    BY <2>1 DEF Handlers
<1>5. Workers'
  <2>1. ASSUME NEW a \in Requests, NEW b \in Requests, http'[a].step \in Working,
               http'[b].turn = http'[a].turn, b # a
        PROVE  /\ http'[b].step \notin Working
               /\ LastIs(http'[b], "error") => \/ http'[b].step = "unknown"
                                               \/ conversation'[http'[a].turn[1]].state = "deleted"
    <3>1. CASE a = r
      <4>1. http'[b] = http[b] /\ Free(http[b])
        BY <1>1, <2>1, <3>1
      <4> QED
        BY <4>1 DEF Free
    <3>2. CASE a # r
      <4>1. http'[a] = http[a] /\ http[a].turn # t
        BY <1>1, <2>1, <3>2 DEF Free
      <4>2. http'[b] = http[b]
        BY <1>1, <2>1, <4>1
      <4>3. http[a].turn \in Turns
        BY <2>1, <4>1, HandlerFacts DEF Working
      <4>4. conversation'[http[a].turn[1]].state = conversation[http[a].turn[1]].state
        BY <1>1, <4>3
      <4> QED
        BY <2>1, <4>1, <4>2, <4>4 DEF TurnInv, Workers
    <3> QED
      BY <3>1, <3>2
  <2> QED
    BY <2>1 DEF Workers
<1> QED
  BY <1>2, <1>3, <1>4, <1>5 DEF TurnInv

\* Nobody else has to do with a turn that is not there, in a conversation that is.
LEMMA ReserveKeeps ==
    ASSUME TurnInv, NEW r \in Requests, Reserve(r)
    PROVE  TurnInv'
<1> DEFINE t == http[r].turn
<1>1. /\ http[r] \in HttpType /\ t \in Turns /\ t[1] \in Conversations
      /\ turn[t] \in TurnType /\ http[r].step = "prepared" /\ http[r].seen = <<>>
  BY HandlerFacts DEF Reserve, SeenFits, Turns
<1>2. /\ turn[t].run = "absent" /\ ~PendingIn(t[1])
      /\ conversation[t[1]].state = "stored"
      /\ turn' = [turn EXCEPT ![t] = NewTurn]
      /\ conversation' = [conversation EXCEPT ![t[1]].expiresAt = day + RetentionDays]
      /\ purge' = purge /\ day' = day
  BY DEF Reserve, Exists, MayReserve, Owned, Touched
<1>3. PICK e : e = Event("metadata", "")
  OBVIOUS
<1>4. e \in EventType /\ e.type = "metadata" /\ e # Event("delta", "answer")
  BY <1>3, EventsSent DEF Event
<1>5. PICK h \in HttpType :
        /\ http' = [http EXCEPT ![r] = h]
        /\ h.step = "retrieving" /\ h.seen = See(http[r], <<e>>)
        /\ h.turn = t /\ h.aborted = http[r].aborted
  <2> DEFINE events == <<e>>
  <2>1. events \in Seq(EventType)
    BY <1>4
  <2>2. Typed /\ "retrieving" \in Steps /\ GoOn(r, "retrieving", events)
    BY <1>3 DEF Reserve, TurnInv, Steps, Over, Running, Working
  <2> HIDE DEF events
  <2>3. \E h \in HttpType :
          /\ http' = [http EXCEPT ![r] = h]
          /\ h.step = "retrieving" /\ h.seen = See(http[r], events)
          /\ h.turn = http[r].turn /\ h.aborted = http[r].aborted
    BY <2>1, <2>2, GoOnEffect
  <2> QED
    BY <2>3 DEF events
<1>6. Shown(h) \subseteq {e}
  <2>1. Shown(http[r]) = {}
    BY <1>1, NothingShown
  <2>2. CASE http[r].aborted
    <3>1. h.seen = http[r].seen
      BY <1>1, <1>4, <1>5, <2>2, SeesOne
    <3> QED
      BY <2>1, <3>1, SeenTheSame
  <2>3. CASE ~http[r].aborted
    BY <1>1, <1>4, <1>5, <2>1, <2>3, SeesOne
  <2> QED
    BY <2>2, <2>3
<1>7. Quiet(h)
  BY <1>4, <1>6 DEF Quiet
<1>8. SeenFits(h) /\ ~LastIs(h, "done") /\ ~LastIs(h, "error") /\ Grounded(h)
  BY <1>4, <1>5, <1>6, <1>7, QuietHasNoEnd DEF SeenFits
<1>9. NewTurn \in TurnType /\ NewTurn.run = "PENDING" /\ NewTurn.day = day /\ RowFits(NewTurn)
  <2>1. 0 \in 0 .. MaxToolCalls /\ day \in Days
    BY AssistantAssumption DEF TurnInv, Typed
  <2> QED
    BY <2>1 DEF NewTurn, NoTurn, TurnType, RowFits, TextsSent
<1>10. Fits(h, NewTurn, "stored")
  BY <1>5, <1>8, <1>9 DEF Fits, Working
<1>11. ASSUME NEW q \in Requests, q # r, http[q].turn = t PROVE Free(http[q])
  <2>1. CASE http[q].step = "unsent"
    <3>1. http[q].seen = <<>>
      BY <2>1, HandlerFacts DEF SeenFits
    <3> QED
      BY <2>1, <3>1, NothingShown DEF Free, Working
  <2>2. CASE http[q].step # "unsent"
    <3>1. Fits(http[q], turn[t], "stored")
      BY <1>2, <1>11, <2>2, HandlerFacts
    <3> QED
      BY <1>2, <3>1 DEF Fits, Free, Terminal
  <2> QED
    BY <2>1, <2>2
<1>12. /\ conversation' \in [Conversations -> ConversationType]
       /\ \A c \in Conversations : conversation'[c].state = conversation[c].state
  <2>1. day + RetentionDays \in 0 .. MaxDay + RetentionDays
    BY AssistantAssumption DEF TurnInv, Typed, Days
  <2> QED
    BY <1>1, <1>2, <2>1 DEF TurnInv, Typed, ConversationType
<1>13. h.step # "unsent" /\ NewTurn.run # "absent" /\ NewTurn.day <= day
  BY <1>5, <1>9 DEF TurnInv, Typed, Days
<1> QED
  BY <1>1, <1>2, <1>5, <1>8, <1>9, <1>10, <1>11, <1>12, <1>13, WriteKeeps

\* Whoever else knows of the turn of a request that works on a run has nothing to do with
\* the run any more.
LEMMA OthersAreFree ==
    ASSUME TurnInv, NEW r \in Requests, http[r].step \in Working,
           turn[http[r].turn].run = "PENDING",
           NEW q \in Requests, q # r, http[q].turn = http[r].turn
    PROVE  Free(http[q])
<1> DEFINE t == http[r].turn
<1>1. t \in Turns /\ conversation[t[1]].state = "stored"
  BY HandlerFacts DEF Working, TurnInv, Rows
<1>2. http[q].step \notin Working /\ (LastIs(http[q], "error") => http[q].step = "unknown")
  BY <1>1 DEF TurnInv, Workers
<1>3. CASE http[q].step = "unsent"
  <2>1. http[q].seen = <<>>
    BY <1>3, HandlerFacts DEF SeenFits
  <2> QED
    BY <1>3, <2>1, NothingShown DEF Free, Working
<1>4. CASE http[q].step # "unsent"
  <2>1. Fits(http[q], turn[t], "stored")
    BY <1>1, <1>4, HandlerFacts
  <2> QED
    BY <1>2, <2>1 DEF Fits, Free, Terminal
<1> QED
  BY <1>3, <1>4

\* The text that is stored is the text that was shown, and rests on the evidence.
LEMMA CompleteKeeps ==
    ASSUME TurnInv, NEW r \in Requests, Complete(r)
    PROVE  TurnInv'
<1> DEFINE t == http[r].turn
           turnRow == CompletedTurn(http[r])
<1>1. /\ http[r] \in HttpType /\ SeenFits(http[r]) /\ t \in Turns /\ turn[t] \in TurnType
      /\ http[r].step = "completing" /\ http[r].step \in Working
  BY HandlerFacts DEF Complete, Working
<1>2. /\ turn[t].run = "PENDING" /\ http[r].text # ""
      /\ turn' = [turn EXCEPT ![t] = turnRow]
      /\ conversation' = conversation /\ purge' = purge /\ day' = day
  BY DEF Complete, MayComplete
<1>3. conversation[t[1]].state = "stored" /\ turn[t].day <= day
  BY <1>1, <1>2 DEF TurnInv, Rows
<1>4. http[r].text = "answer" => http[r].evidence
  BY <1>1 DEF SeenFits
<1>5. /\ turnRow \in TurnType /\ turnRow.run = "COMPLETED" /\ turnRow.day = turn[t].day
      /\ turnRow.content = http[r].text /\ RowFits(turnRow)
  <2>1. /\ turnRow \in TurnType /\ turnRow.run = "COMPLETED" /\ turnRow.day = turn[t].day
        /\ turnRow.content = http[r].text /\ turnRow.message = "COMPLETED"
        /\ turnRow.sources = http[r].evidence /\ turnRow.errorCode = turn[t].errorCode
    BY <1>1 DEF CompletedTurn, TurnType, HttpType, Terminal
  <2>2. turn[t].errorCode = "none"
    BY <1>1, <1>2 DEF TurnInv, Rows, RowFits
  <2> HIDE DEF turnRow
  <2> QED
    BY <1>2, <1>4, <2>1, <2>2 DEF RowFits
<1> HIDE DEF turnRow
<1>6. PICK s, e : s = Event("sources", http[r].evidence) /\ e = Event("done", "")
  OBVIOUS
<1>7. /\ s \in EventType /\ e \in EventType
      /\ s.type = "sources" /\ s.what = http[r].evidence /\ e.type = "done"
      /\ s # Event("delta", "answer") /\ e # Event("delta", "answer")
  <2>1. s \in EventType /\ e \in EventType
    BY <1>1, <1>6, EventsSent DEF HttpType
  <2> QED
    BY <1>6, <2>1 DEF Event
<1>8. PICK h \in HttpType :
        /\ http' = [http EXCEPT ![r] = h]
        /\ h.step = "ended" /\ h.seen = See(http[r], <<s, e>>)
        /\ h.turn = t /\ h.aborted = http[r].aborted
  <2> DEFINE events == <<s, e>>
  <2>1. events \in Seq(EventType)
    BY <1>7
  <2>2. Typed /\ "ended" \in Steps /\ GoOn(r, "ended", events)
    BY <1>6 DEF Complete, TurnInv, Steps, Over
  <2> HIDE DEF events
  <2>3. \E h \in HttpType :
          /\ http' = [http EXCEPT ![r] = h]
          /\ h.step = "ended" /\ h.seen = See(http[r], events)
          /\ h.turn = http[r].turn /\ h.aborted = http[r].aborted
    BY <2>1, <2>2, GoOnEffect
  <2> QED
    BY <2>3 DEF events
<1>9. Quiet(http[r]) /\ (Event("delta", "answer") \in Shown(http[r]) => http[r].evidence)
  BY <1>1 DEF SeenFits
<1>10. /\ SeenFits(h) /\ ~LastIs(h, "error") /\ Grounded(h)
       /\ LastIs(h, "done") => Event("delta", turnRow.content) \in Shown(h)
  <2>1. CASE http[r].aborted
    <3>1. h.seen = http[r].seen
      BY <1>1, <1>7, <1>8, <2>1, SeesTwo
    <3>2. Quiet(h)
      BY <1>9, <3>1, SeenTheSame
    <3> QED
      BY <1>8, <3>2, QuietHasNoEnd DEF SeenFits, Quiet
  <2>2. CASE ~http[r].aborted
    <3>1. Shown(h) = Shown(http[r]) \cup {s, e} /\ ~LastIs(h, "error")
      BY <1>1, <1>7, <1>8, <2>2, SeesTwo
    <3>2. Event("delta", http[r].text) \in Shown(http[r])
      BY <1>1, <1>2, <2>2 DEF SeenFits
    <3>3. ASSUME Event("delta", "answer") \in Shown(h), NEW x \in Shown(h), x.type = "sources"
          PROVE  x.what = TRUE
      <4>1. http[r].evidence = TRUE
        BY <1>1, <1>7, <1>9, <3>1, <3>3 DEF HttpType
      <4>2. x = s
        BY <1>7, <1>9, <3>1, <3>3 DEF Quiet
      <4> QED
        BY <1>7, <4>1, <4>2
    <3> QED
      BY <1>5, <1>8, <3>1, <3>2, <3>3 DEF SeenFits, Grounded
  <2> QED
    BY <2>1, <2>2
<1>11. Fits(h, turnRow, "stored")
  BY <1>5, <1>8, <1>10 DEF Fits, Working
<1>12. \A q \in Requests : q # r /\ http[q].turn = t => Free(http[q])
  BY <1>1, <1>2, OthersAreFree
<1>13. /\ conversation' \in [Conversations -> ConversationType]
       /\ h.step # "unsent" /\ turnRow.run # "absent" /\ turnRow.run # "PENDING" /\ turnRow.day <= day
  BY <1>2, <1>3, <1>5, <1>8 DEF TurnInv, Typed
<1> QED
  BY <1>1, <1>2, <1>3, <1>5, <1>8, <1>10, <1>11, <1>12, <1>13, WriteKeeps

\* The failure of a run that is still there is stored; of one that was deleted it is told.
LEMMA PersistFailureKeeps ==
    ASSUME TurnInv, NEW r \in Requests, PersistFailure(r)
    PROVE  TurnInv'
<1> DEFINE t == http[r].turn
           turnRow == FailedTurn(t, http[r].error)
<1>1. /\ http[r] \in HttpType /\ SeenFits(http[r]) /\ t \in Turns
      /\ turn[t] \in TurnType /\ RowFits(turn[t])
      /\ Fits(http[r], turn[t], conversation[t[1]].state)
      /\ http[r].step = "failing" /\ http[r].step \in Working
  BY HandlerFacts DEF PersistFailure, Working
<1>2. http[r].error \in ErrorCodes /\ Quiet(http[r])
  BY <1>1 DEF SeenFits
<1>3. /\ turn' = [turn EXCEPT ![t] = turnRow]
      /\ conversation' = conversation /\ purge' = purge /\ day' = day
  BY DEF PersistFailure
<1>4. PICK m, e : m = Event("metadata", "") /\ e = ErrorEvent
  OBVIOUS
<1>5. m \in EventType /\ e \in EventType /\ m.type = "metadata" /\ e.type = "error"
  BY <1>4, EventsSent DEF Event
<1>6. PICK h \in HttpType :
        /\ http' = [http EXCEPT ![r] = h]
        /\ h.step = "ended" /\ h.seen = See(http[r], <<e>>)
        /\ h.turn = t /\ h.aborted = http[r].aborted
  <2> DEFINE events == <<e>>
  <2>1. events \in Seq(EventType)
    BY <1>5
  <2>2. Typed /\ "ended" \in Steps /\ GoOn(r, "ended", events)
    BY <1>4 DEF PersistFailure, TurnInv, Steps, Over
  <2> HIDE DEF events
  <2>3. \E h \in HttpType :
          /\ http' = [http EXCEPT ![r] = h]
          /\ h.step = "ended" /\ h.seen = See(http[r], events)
          /\ h.turn = http[r].turn /\ h.aborted = http[r].aborted
    BY <2>1, <2>2, GoOnEffect
  <2> QED
    BY <2>3 DEF events
<1>7. SeenFits(h) /\ ~LastIs(h, "done") /\ Grounded(h)
  BY <1>1, <1>2, <1>5, <1>6, TellsError
<1>8. CASE turn[t].run = "PENDING"
  <2>1. conversation[t[1]].state = "stored" /\ turn[t].day <= day
    BY <1>1, <1>8 DEF TurnInv, Rows
  <2>2. /\ turnRow \in TurnType /\ turnRow.run = "FAILED" /\ turnRow.day = turn[t].day
        /\ turnRow.content = "" /\ RowFits(turnRow)
    <3>1. turn[t].message = "PENDING" /\ turn[t].content = ""
      BY <1>1, <1>8 DEF RowFits
    <3>2. /\ turnRow \in TurnType /\ turnRow.run = "FAILED" /\ turnRow.message = "FAILED"
          /\ turnRow.errorCode = http[r].error /\ turnRow.content = turn[t].content
          /\ turnRow.day = turn[t].day
      BY <1>1, <1>2, <1>8, <3>1 DEF FailedTurn, TurnType, Terminal
    <3>3. http[r].error # "none"
      BY <1>2 DEF ErrorCodes
    <3> HIDE DEF turnRow
    <3> QED
      BY <3>1, <3>2, <3>3 DEF RowFits
  <2> HIDE DEF turnRow
  <2>3. Fits(h, turnRow, "stored")
    BY <1>6, <1>7, <2>2 DEF Fits, Working
  <2>4. \A q \in Requests : q # r /\ http[q].turn = t => Free(http[q])
    BY <1>1, <1>8, OthersAreFree
  <2>5. /\ conversation' \in [Conversations -> ConversationType]
        /\ h.step # "unsent" /\ turnRow.run # "absent" /\ turnRow.run # "PENDING" /\ turnRow.day <= day
    BY <1>3, <1>6, <2>1, <2>2 DEF TurnInv, Typed
  <2> QED
    BY <1>1, <1>3, <1>6, <1>7, <2>1, <2>2, <2>3, <2>4, <2>5, WriteKeeps
<1>9. CASE turn[t].run # "PENDING"
  <2>1. conversation[t[1]].state = "deleted"
    BY <1>1, <1>9 DEF Fits
  <2>2. turnRow = turn[t]
    <3>1. turn[t].message # "PENDING"
      BY <1>1, <1>9 DEF RowFits
    <3> QED
      BY <1>1, <1>9, <3>1 DEF FailedTurn, TurnType
  <2>3. turn' = turn
    BY <1>1, <1>3, <2>2 DEF TurnInv, Typed
  <2>4. Fits(h, turn[t], conversation[t[1]].state)
    BY <1>6, <2>1 DEF Fits, Working
  <2>5. Continues(r, h)
    BY <1>1, <1>6, <1>7, <2>1, <2>4 DEF Continues, Working
  <2> QED
    BY <1>3, <2>3, <2>5, ContinuesKeeps
<1> QED
  BY <1>8, <1>9

\* A conversation that is deleted takes its turns along; what its requests take for
\* granted they do no longer.
LEMMA RemovalKeeps ==
    ASSUME TurnInv, NEW C \in SUBSET Conversations, RemoveConversations(C),
           \A c \in C : conversation[c].state = "stored",
           purge' \in SUBSET Conversations, http' = http, day' = day
    PROVE  TurnInv'
<1>1. /\ \A c \in C : conversation'[c].state = "deleted"
      /\ \A c \in Conversations \ C : conversation'[c] = conversation[c]
      /\ conversation' \in [Conversations -> ConversationType]
  BY DEF RemoveConversations, TurnInv, Typed, ConversationType
<1>2. /\ \A s \in Turns : s[1] \in C => turn'[s] = NoTurn
      /\ \A s \in Turns : s[1] \notin C => turn'[s] = turn[s]
      /\ \A s \in Turns : s[1] \in Conversations
  BY DEF RemoveConversations, Turns
<1>3. NoTurn \in TurnType /\ RowFits(NoTurn) /\ NoTurn.run = "absent"
  <2>1. 0 \in 0 .. MaxToolCalls /\ 0 \in Days
    BY AssistantAssumption DEF Days
  <2> QED
    BY <2>1 DEF NoTurn, TurnType, RowFits, TextsSent
<1>4. Typed'
  <2>1. turn' \in [Turns -> TurnType]
    <3>1. \A s \in Turns : turn'[s] \in TurnType
      BY <1>2, <1>3 DEF TurnInv, Typed
    <3>2. turn' = [s \in Turns |-> turn'[s]]
      BY DEF RemoveConversations
    <3> QED
      BY <3>1, <3>2
  <2> QED
    BY <1>1, <2>1 DEF TurnInv, Typed
<1>5. Rows'
  BY <1>1, <1>2, <1>3 DEF TurnInv, Rows
<1>6. \A c \in Conversations :
        \/ conversation'[c].state = "deleted"
        \/ conversation'[c] = conversation[c] /\ c \notin C
  BY <1>1
<1>7. Handlers'
  <2>1. ASSUME NEW q \in Requests
        PROVE  /\ SeenFits(http[q])
               /\ http[q].step # "unsent" =>
                    /\ http[q].turn \in Turns
                    /\ Fits(http[q], turn'[http[q].turn], conversation'[http[q].turn[1]].state)
    <3>1. CASE http[q].step = "unsent"
      BY <3>1, HandlerFacts
    <3>2. CASE http[q].step # "unsent"
      <4>1. /\ SeenFits(http[q]) /\ http[q].turn \in Turns
            /\ Fits(http[q], turn[http[q].turn], conversation[http[q].turn[1]].state)
        BY <3>2, HandlerFacts
      <4>2. CASE conversation'[http[q].turn[1]].state = "deleted"
        BY <4>1, <4>2 DEF Fits
      <4>3. CASE conversation'[http[q].turn[1]].state # "deleted"
        <5>1. /\ conversation'[http[q].turn[1]] = conversation[http[q].turn[1]]
              /\ turn'[http[q].turn] = turn[http[q].turn]
          BY <1>2, <1>6, <4>1, <4>3
        <5> QED
          BY <4>1, <5>1
      <4> QED
        BY <4>2, <4>3
    <3> QED
      BY <3>1, <3>2
  <2> QED
    BY <2>1 DEF Handlers
<1>8. Workers'
  <2>1. ASSUME NEW a \in Requests, NEW b \in Requests, http[a].step \in Working,
               http[b].turn = http[a].turn, b # a
        PROVE  /\ http[b].step \notin Working
               /\ LastIs(http[b], "error") => \/ http[b].step = "unknown"
                                              \/ conversation'[http[a].turn[1]].state = "deleted"
    <3>1. http[a].turn \in Turns
      BY <2>1, HandlerFacts DEF Working
    <3>2. conversation[http[a].turn[1]].state = "deleted" =>
            conversation'[http[a].turn[1]].state = "deleted"
      BY <1>2, <1>6, <3>1
    <3> QED
      BY <2>1, <3>2 DEF TurnInv, Workers
  <2> QED
    BY <2>1 DEF Workers
<1> QED
  BY <1>4, <1>5, <1>7, <1>8 DEF TurnInv

\* A conversation that was never there has no turns and no requests.
LEMMA CreateKeeps ==
    ASSUME TurnInv, NEW u \in Users, NEW c \in Conversations, CreateConversation(u, c)
    PROVE  TurnInv'
<1> DEFINE new == [state |-> "stored", user |-> u, expiresAt |-> day + RetentionDays]
<1>1. /\ conversation' = [conversation EXCEPT ![c] = new] /\ conversation[c].state = "absent"
      /\ turn' = turn /\ http' = http /\ purge' = purge /\ day' = day
  BY DEF CreateConversation
<1>2. new \in ConversationType /\ new.state = "stored"
  <2>1. day + RetentionDays \in 0 .. MaxDay + RetentionDays
    BY AssistantAssumption DEF TurnInv, Typed, Days
  <2> QED
    BY <2>1 DEF ConversationType
<1> HIDE DEF new
<1>3. /\ conversation'[c] = new
      /\ \A x \in Conversations : x # c => conversation'[x] = conversation[x]
      /\ \A s \in Turns : s[1] \in Conversations
  BY <1>1 DEF TurnInv, Typed, Turns
<1>4. Typed'
  BY <1>1, <1>2 DEF TurnInv, Typed
<1>5. Rows'
  BY <1>1, <1>2, <1>3 DEF TurnInv, Rows
<1>6. ASSUME NEW q \in Requests, http[q].step # "unsent"
      PROVE  /\ http[q].turn \in Turns
             /\ Fits(http[q], turn[http[q].turn], conversation'[http[q].turn[1]].state)
  <2>1. /\ http[q].turn \in Turns /\ turn[http[q].turn] \in TurnType
        /\ Fits(http[q], turn[http[q].turn], conversation[http[q].turn[1]].state)
    BY <1>6, HandlerFacts
  <2>2. CASE http[q].turn[1] # c
    BY <1>3, <2>1, <2>2
  <2>3. CASE http[q].turn[1] = c
    <3>1. turn[http[q].turn].run = "absent"
      BY <1>1, <2>1, <2>3 DEF TurnInv, Rows
    <3> QED
      BY <1>1, <2>1, <2>3, <3>1 DEF Fits, Terminal
  <2> QED
    BY <2>2, <2>3
<1>7. Handlers'
  BY <1>1, <1>6 DEF TurnInv, Handlers
<1>8. Workers'
  <2>1. ASSUME NEW a \in Requests, NEW b \in Requests, http[a].step \in Working,
               http[b].turn = http[a].turn, b # a
        PROVE  /\ http[b].step \notin Working
               /\ LastIs(http[b], "error") => \/ http[b].step = "unknown"
                                              \/ conversation'[http[a].turn[1]].state = "deleted"
    <3>1. http[a].turn \in Turns
      BY <2>1, HandlerFacts DEF Working
    <3>2. conversation[http[a].turn[1]].state = "deleted" =>
            conversation'[http[a].turn[1]].state = "deleted"
      BY <1>1, <1>3, <3>1
    <3> QED
      BY <2>1, <3>2 DEF TurnInv, Workers
  <2> QED
    BY <1>1, <2>1 DEF Workers
<1> QED
  BY <1>4, <1>5, <1>7, <1>8 DEF TurnInv

\* The process stops: no request works any more.
LEMMA ServerStopsKeeps ==
    ASSUME TurnInv, ServerStops
    PROVE  TurnInv'
<1>1. /\ conversation' = conversation /\ turn' = turn /\ purge' = purge /\ day' = day
      /\ http' = [r \in Requests |->
                    IF http[r].step \in Running
                    THEN [http[r] EXCEPT !.step = IF @ \in Working THEN "unsettled" ELSE "cut"]
                    ELSE http[r]]
  BY DEF ServerStops
<1>2. ASSUME NEW r \in Requests, http[r].step \in Running
      PROVE  /\ http'[r] \in HttpType /\ http'[r].step \in {"unsettled", "cut"}
             /\ SeenFits(http'[r]) /\ Grounded(http'[r])
             /\ http'[r].turn = http[r].turn /\ http[r].turn \in Turns
             /\ ~LastIs(http'[r], "done") /\ ~LastIs(http'[r], "error")
  <2>1. /\ http[r] \in HttpType /\ SeenFits(http[r]) /\ http[r].turn \in Turns
        /\ http[r].step \notin {"ended", "unknown", "unsettled", "unsent"}
    BY <1>2, HandlerFacts DEF Running, Working
  <2>2. PICK last \in {"unsettled", "cut"} : http'[r] = [http[r] EXCEPT !.step = last]
    BY <1>1, <1>2
  <2> DEFINE h == [http[r] EXCEPT !.step = last]
  <2>3. /\ h \in HttpType /\ h.step = last /\ h.turn = http[r].turn /\ h.seen = http[r].seen
    BY <2>1 DEF HttpType, Steps, Over
  <2>4. http'[r] = h
    BY <2>2
  <2> HIDE DEF h
  <2>5. Quiet(h)
    BY <2>1, <2>3, SeenTheSame DEF SeenFits
  <2>6. ~LastIs(h, "done") /\ ~LastIs(h, "error") /\ Grounded(h)
    BY <2>3, <2>5, QuietHasNoEnd
  <2>7. SeenFits(h)
    BY <2>3, <2>5 DEF SeenFits
  <2> QED
    BY <2>1, <2>3, <2>4, <2>6, <2>7
<1>3. \A r \in Requests : http[r].step \notin Running => http'[r] = http[r]
  BY <1>1
<1>4. /\ Working \subseteq Running /\ {"unsettled", "cut"} \cap Working = {}
      /\ {"replaying", "sources"} \subseteq Running
  BY DEF Working, Running
<1>5. Typed'
  <2>1. \A r \in Requests : http'[r] \in HttpType
    BY <1>2, <1>3 DEF TurnInv, Typed
  <2>2. http' = [r \in Requests |-> http'[r]]
    BY <1>1
  <2>3. http' \in [Requests -> HttpType]
    BY <2>1, <2>2
  <2> QED
    BY <1>1, <2>3 DEF TurnInv, Typed
<1>6. Rows'
  BY <1>1 DEF TurnInv, Rows
<1>7. Handlers'
  <2>1. ASSUME NEW q \in Requests
        PROVE  /\ SeenFits(http'[q])
               /\ http'[q].step # "unsent" =>
                    /\ http'[q].turn \in Turns
                    /\ Fits(http'[q], turn[http'[q].turn],
                            conversation[http'[q].turn[1]].state)
    <3>1. CASE http[q].step \in Running
      BY <1>2, <1>4, <3>1 DEF Fits
    <3>2. CASE http[q].step \notin Running
      BY <1>3, <3>2 DEF TurnInv, Handlers
    <3> QED
      BY <3>1, <3>2
  <2> QED
    BY <1>1, <2>1 DEF Handlers
<1>8. Workers'
  <2>1. \A a \in Requests : http'[a].step \notin Working
    BY <1>2, <1>3, <1>4
  <2> QED
    BY <2>1 DEF Workers
<1> QED
  BY <1>5, <1>6, <1>7, <1>8 DEF TurnInv

\* Every step of a request.
LEMMA ServeKeeps ==
    ASSUME TurnInv, NEW r \in Requests, Serve(r)
    PROVE  TurnInv'
<1>1. CASE Reserve(r)
  BY <1>1, ReserveKeeps
<1>2. CASE Complete(r)
  BY <1>2, CompleteKeeps
<1>3. CASE PersistFailure(r)
  BY <1>3, PersistFailureKeeps
<1>4. CASE \/ ReserveFindsTurn(r) \/ ReserveRefuses(r) \/ ReserveFails(r)
           \/ Retrieve(r) \/ ModelAnswers(r)
           \/ \E calls \in 1 .. MaxToolCalls + 1 : ToolCalls(r, calls)
           \/ Deliver(r) \/ CompletionFails(r) \/ FailureIsLost(r)
           \/ Replay(r) \/ ReplayOfDeleted(r) \/ ReplaySources(r) \/ ReplayFails(r)
  <2>1. UNCHANGED <<conversation, turn, purge, day>>
    BY <1>4 DEF ReserveFindsTurn, ReserveRefuses, ReserveFails, Retrieve, ModelAnswers, ToolCalls,
                Deliver, CompletionFails, FailureIsLost, Replay, ReplayOfDeleted, ReplaySources,
                ReplayFails
  <2>2. \E h \in HttpType : Continues(r, h)
    BY <1>4, NotReservedContinues, HybridTurnContinues, DeliverContinues,
       CompletionFailsContinues, FailureIsLostContinues, ReplayContinues,
       ReplaySourcesContinues, TellsNothingContinues
  <2> QED
    BY <2>1, <2>2, ContinuesKeeps
<1> QED
  BY <1>1, <1>2, <1>3, <1>4 DEF Serve

\* At first there is nothing.
LEMMA TurnInvInit == TurnsInit => TurnInv
<1> SUFFICES ASSUME TurnsInit PROVE TurnInv
  OBVIOUS
<1>1. /\ \A t \in Turns : turn[t] = NoTurn
      /\ \A r \in Requests : http[r] = Unsent
      /\ \A c \in Conversations : conversation[c] = NoConversation
  BY DEF TurnsInit
<1>2. NoConversation \in ConversationType /\ NoTurn \in TurnType
  <2>1. /\ 0 \in 0 .. MaxToolCalls /\ 0 \in Days /\ 0 \in 0 .. MaxDay + RetentionDays
    BY AssistantAssumption DEF Days
  <2> QED
    BY <2>1 DEF NoConversation, NoTurn, ConversationType, TurnType, TextsSent
<1>3. Unsent \in HttpType /\ Unsent.step = "unsent" /\ Unsent.seen = <<>>
  <2>1. 0 \in 0 .. MaxToolCalls /\ <<>> \in Seq(EventType)
    BY AssistantAssumption
  <2> QED
    BY <2>1 DEF Unsent, HttpType, TextsSent, Steps
<1>4. Typed
  <2>1. 0 \in Days
    BY AssistantAssumption DEF Days
  <2> QED
    BY <1>2, <1>3, <2>1 DEF TurnsInit, Typed
<1>5. Rows
  <2>1. RowFits(NoTurn) /\ NoTurn.run = "absent"
    BY DEF RowFits, NoTurn
  <2> QED
    BY <1>1, <2>1 DEF Rows
<1>6. SeenFits(Unsent)
  BY <1>3, NothingShown DEF SeenFits
<1>7. Handlers
  BY <1>1, <1>3, <1>6 DEF Handlers
<1>8. Workers
  BY <1>1, <1>3 DEF Workers, Working
<1> QED
  BY <1>4, <1>5, <1>7, <1>8 DEF TurnInv

\* Every step keeps it.
LEMMA TurnInvStep == TurnInv /\ [AssistantNext]_assistantVars => TurnInv'
<1> SUFFICES ASSUME TurnInv, [AssistantNext]_assistantVars PROVE TurnInv'
  OBVIOUS
<1>1. ASSUME NEW u \in Users, NEW c \in Conversations, CreateConversation(u, c) PROVE TurnInv'
  BY <1>1, CreateKeeps
<1>2. ASSUME NEW u \in Users, NEW c \in Conversations, DeleteConversation(u, c) PROVE TurnInv'
  <2>1. /\ {c} \in SUBSET Conversations /\ RemoveConversations({c})
        /\ \A x \in {c} : conversation[x].state = "stored"
        /\ purge' \in SUBSET Conversations /\ http' = http /\ day' = day
    BY <1>2 DEF DeleteConversation, Owned, TurnInv, Typed
  <2> QED
    BY <2>1, RemovalKeeps
<1>3. ASSUME NEW r \in Requests, NEW u \in Users, NEW t \in Turns,
             Prepare(r, u, t) \/ PrepareFails(r, u, t)
      PROVE  TurnInv'
  <2>1. UNCHANGED <<conversation, turn, purge, day>>
    BY <1>3 DEF Prepare, PrepareFails
  <2> QED
    BY <1>3, <2>1, PrepareContinues, ContinuesKeeps
<1>4. ASSUME NEW r \in Requests, Serve(r) PROVE TurnInv'
  BY <1>4, ServeKeeps
<1>5. ASSUME NEW r \in Requests, ClientLeaves(r) PROVE TurnInv'
  <2>1. UNCHANGED <<conversation, turn, purge, day>>
    BY <1>5 DEF ClientLeaves
  <2> QED
    BY <1>5, <2>1, ClientLeavesContinues, ContinuesKeeps
<1>6. CASE PurgeDeletes
  <2> DEFINE C == {c \in purge : conversation[c].state = "stored"}
  <2>1. /\ C \in SUBSET Conversations /\ RemoveConversations(C)
        /\ \A x \in C : conversation[x].state = "stored"
        /\ purge' \in SUBSET Conversations /\ http' = http /\ day' = day
    BY <1>6 DEF PurgeDeletes, TurnInv, Typed
  <2> QED
    BY <2>1, RemovalKeeps
<1>7. CASE ServerStops
  BY <1>7, ServerStopsKeeps
<1>8. CASE PurgeLists \/ NextDay \/ UNCHANGED assistantVars
  <2>1. /\ conversation' = conversation /\ turn' = turn /\ http' = http
        /\ purge' \in SUBSET Conversations /\ day' \in Days /\ day <= day'
    BY <1>8, AssistantAssumption DEF PurgeLists, NextDay, assistantVars, TurnInv, Typed, Days
  <2>2. Typed'
    BY <2>1 DEF TurnInv, Typed
  <2>3. Rows'
    <3>1. \A t \in Turns : turn[t].day \in Days
      BY DEF TurnInv, Typed, TurnType
    <3>2. \A t \in Turns : turn[t].day <= day => turn[t].day <= day'
      BY <2>1, <3>1, AssistantAssumption DEF TurnInv, Typed, Days
    <3> QED
      BY <2>1, <3>2 DEF TurnInv, Rows
  <2>4. Handlers' /\ Workers'
    BY <2>1 DEF TurnInv, Handlers, Workers
  <2> QED
    BY <2>2, <2>3, <2>4 DEF TurnInv
<1> QED
  BY <1>1, <1>2, <1>3, <1>4, <1>5, <1>6, <1>7, <1>8 DEF AssistantNext

\* So it always holds.
LEMMA TurnInvHolds == AssistantSpec => []TurnInv
BY TurnInvInit, TurnInvStep, PTL DEF AssistantSpec

-----------------------------------------------------------------------------
(* What it says *)

\* The columns of every row agree.
LEMMA RowsHaveTheirColumns == TurnInv => AssistantTypeOK
<1> SUFFICES ASSUME TurnInv PROVE AssistantTypeOK
  OBVIOUS
<1>1. ASSUME NEW c \in Conversations
      PROVE  /\ conversation[c].state \in {"absent", "stored", "deleted"}
             /\ conversation[c].expiresAt \in 0 .. MaxDay + RetentionDays
  BY DEF TurnInv, Typed, ConversationType
<1>2. ASSUME NEW t \in Turns
      PROVE  /\ turn[t].run \in {"absent", "PENDING"} \cup Terminal
             /\ turn[t].message = turn[t].run
             /\ turn[t].content \in {"", "answer", "insufficient"}
             /\ turn[t].content # "" <=> turn[t].message = "COMPLETED"
             /\ turn[t].errorCode \in ErrorCodes \cup {"none"}
             /\ turn[t].errorCode # "none" <=> turn[t].run \in {"FAILED", "CANCELLED"}
             /\ turn[t].toolCalls \in 0 .. MaxToolCalls
  <2>1. turn[t] \in TurnType /\ RowFits(turn[t])
    BY DEF TurnInv, Typed, Rows
  <2> QED
    BY <2>1 DEF TurnType, RowFits, TextsSent
<1>3. ASSUME NEW r \in Requests
      PROVE  http[r].step \in {"unsent"} \cup Running \cup Over
  BY DEF TurnInv, Typed, HttpType, Steps
<1> QED
  BY <1>1, <1>2, <1>3 DEF AssistantTypeOK

\* One run of a conversation is PENDING, and one request works on it.
LEMMA OneRunAtATime == TurnInv => OneRunPerConversation
<1> SUFFICES ASSUME TurnInv, NEW c \in Conversations
             PROVE  /\ Cardinality({t \in TurnsOf(c) : turn[t].run = "PENDING"}) <= 1
                    /\ \A r, q \in Requests :
                         /\ r # q /\ http[r].turn = http[q].turn
                         /\ http[r].step \in Working
                         => http[q].step \notin Working
  BY DEF OneRunPerConversation
<1>1. Cardinality({t \in TurnsOf(c) : turn[t].run = "PENDING"}) <= 1
  <2> DEFINE P == {t \in TurnsOf(c) : turn[t].run = "PENDING"}
  <2>1. \A s, t \in P : s = t
    BY DEF TurnsOf, TurnInv, Rows
  <2> HIDE DEF P
  <2>2. CASE P = {}
    BY <2>2, FS_EmptySet DEF P
  <2>3. CASE P # {}
    <3>1. PICK t : P = {t}
      BY <2>1, <2>3
    <3>2. Cardinality(P) = 1
      BY <3>1, FS_Singleton
    <3> QED
      BY <3>2 DEF P
  <2> QED
    BY <2>2, <2>3
<1> QED
  BY <1>1 DEF TurnInv, Workers

\* A step leaves a run that has ended as it is, or deletes it.
LEMMA OutcomeStep ==
    ASSUME TurnInv, [AssistantNext]_assistantVars, NEW t \in Turns, turn[t].run \in Terminal
    PROVE  turn'[t] \in {turn[t], NoTurn}
<1>1. turn \in [Turns -> TurnType] /\ turn[t] \in TurnType /\ RowFits(turn[t])
      /\ turn[t].run \notin {"absent", "PENDING"}
  BY DEF TurnInv, Typed, Rows, Terminal
<1>2. ASSUME NEW C, RemoveConversations(C) PROVE turn'[t] \in {turn[t], NoTurn}
  BY <1>2 DEF RemoveConversations
<1>3. ASSUME NEW r \in Requests, Reserve(r) PROVE turn'[t] = turn[t]
  BY <1>1, <1>3 DEF Reserve, Exists
<1>4. ASSUME NEW r \in Requests, Complete(r) PROVE turn'[t] = turn[t]
  BY <1>1, <1>4 DEF Complete, MayComplete
<1>5. ASSUME NEW r \in Requests, PersistFailure(r) PROVE turn'[t] = turn[t]
  <2>1. FailedTurn(t, http[r].error) = turn[t]
    BY <1>1 DEF FailedTurn, RowFits, TurnType
  <2> QED
    BY <1>1, <1>5, <2>1 DEF PersistFailure
<1>6. ASSUME NEW r \in Requests, Serve(r) PROVE turn'[t] = turn[t]
  BY <1>3, <1>4, <1>5, <1>6 DEF Serve, ReserveFindsTurn, ReserveRefuses, ReserveFails, Retrieve,
     ModelAnswers, ToolCalls, Deliver, CompletionFails, FailureIsLost, Replay, ReplayOfDeleted,
     ReplaySources, ReplayFails
<1>7. ASSUME NEW u \in Users, NEW c \in Conversations,
             CreateConversation(u, c) \/ DeleteConversation(u, c)
      PROVE  turn'[t] \in {turn[t], NoTurn}
  BY <1>2, <1>7 DEF CreateConversation, DeleteConversation
<1>8. ASSUME NEW r \in Requests, NEW u \in Users, NEW s \in Turns,
             Prepare(r, u, s) \/ PrepareFails(r, u, s)
      PROVE  turn'[t] = turn[t]
  BY <1>8 DEF Prepare, PrepareFails
<1>9. ASSUME NEW r \in Requests, ClientLeaves(r) PROVE turn'[t] = turn[t]
  BY <1>9 DEF ClientLeaves
<1>10. CASE PurgeDeletes
  BY <1>2, <1>10 DEF PurgeDeletes
<1>11. CASE PurgeLists \/ ServerStops \/ NextDay \/ UNCHANGED assistantVars
  BY <1>11 DEF PurgeLists, ServerStops, NextDay, assistantVars
<1> QED
  BY <1>6, <1>7, <1>8, <1>9, <1>10, <1>11 DEF AssistantNext

\* A run is worked on by one request and ends once: at most one run of a conversation is
\* PENDING and one request works on it, every row has the columns its outcome asks for,
\* and a turn that has an outcome keeps it until it is deleted (the conditional updates of
\* create-user-message.ts, message-repository.ts and run-repository.ts).
THEOREM RunsEndOnce == AssistantSpec => RunsAreSettledOnce
<1>1. TurnInv => AssistantTypeOK /\ OneRunPerConversation
  BY RowsHaveTheirColumns, OneRunAtATime
<1>2. TurnInv /\ [AssistantNext]_assistantVars =>
        [\A t \in Turns : turn[t].run \in Terminal =>
           turn'[t] \in {turn[t], NoTurn}]_assistantVars
  BY OutcomeStep
<1> QED
  BY <1>1, <1>2, TurnInvHolds, PTL DEF AssistantSpec, RunsAreSettledOnce, OutcomeKept

\* What is told rests on evidence: an answer of the model is stored with its sources and
\* shown to a client with them, whatever was retrieved and whichever tools were called, or
\* the conversation was deleted while it was shown again (runHybridTurn and replayExisting
\* in service.ts).
THEOREM AnswersRestOnEvidence == AssistantSpec => []AnswersHaveEvidence
<1>1. TurnInv => AnswersHaveEvidence
  <2> SUFFICES ASSUME TurnInv PROVE AnswersHaveEvidence
    OBVIOUS
  <2>1. ASSUME NEW t \in Turns, turn[t].content = "answer" PROVE turn[t].sources
    BY <2>1 DEF TurnInv, Rows, RowFits
  <2>2. ASSUME NEW r \in Requests, NEW i \in 1 .. Len(http[r].seen),
               NEW j \in 1 .. Len(http[r].seen),
               http[r].seen[i] = Event("delta", "answer"), http[r].seen[j].type = "sources"
        PROVE  http[r].seen[j].what \/ conversation[http[r].turn[1]].state = "deleted"
    <3>1. Event("delta", "answer") \in Shown(http[r]) /\ http[r].seen[j] \in Shown(http[r])
      BY <2>2 DEF Shown, Elements
    <3>2. http[r].step # "unsent"
      BY <3>1, HandlerFacts, NothingShown DEF SeenFits
    <3>3. Grounded(http[r]) \/ conversation[http[r].turn[1]].state = "deleted"
      BY <3>2, HandlerFacts DEF Fits
    <3>4. http[r].seen[j].what = TRUE \/ conversation[http[r].turn[1]].state = "deleted"
      BY <2>2, <3>1, <3>3 DEF Grounded
    <3> QED
      BY <3>4
  <2> QED
    BY <2>1, <2>2 DEF AnswersHaveEvidence
<1> QED
  BY <1>1, TurnInvHolds, PTL

\* What the end of a stream says is what the conversation keeps: all of the text after
\* "done", no text, then or later, after an error; unless the conversation is gone, or the
\* error is of a database that failed before the turn was there or while it was read again
\* (iteratePrepared and replayExisting in service.ts).
THEOREM StreamsTellTheConversation == AssistantSpec => []StreamTellsTheConversation
<1>1. TurnInv => StreamTellsTheConversation
  <2> SUFFICES ASSUME TurnInv, NEW r \in Requests
               PROVE  LET t == http[r].turn IN
                      /\ Ended(r, "done") /\ Exists(t) =>
                           /\ turn[t].run = "COMPLETED"
                           /\ \E i \in 1 .. Len(http[r].seen) :
                                http[r].seen[i] = Event("delta", turn[t].content)
                      /\ Ended(r, "error") /\ http[r].step # "unknown" => turn[t].content = ""
    BY DEF StreamTellsTheConversation
  <2> DEFINE t == http[r].turn
  <2>1. \A type : Ended(r, type) <=> LastIs(http[r], type)
    BY DEF Ended, LastIs, EndsWith
  <2>2. CASE http[r].step = "unsent"
    <3>1. http[r].seen = <<>>
      BY <2>2, HandlerFacts DEF SeenFits
    <3> QED
      BY <3>1 DEF Ended
  <2>3. CASE http[r].step # "unsent"
    <3>1. /\ t \in Turns /\ turn[t] \in TurnType /\ RowFits(turn[t])
          /\ Fits(http[r], turn[t], conversation[t[1]].state)
      BY <2>3, HandlerFacts
    <3>2. CASE conversation[t[1]].state = "deleted"
      <4>1. turn[t].run = "absent"
        BY <3>1, <3>2 DEF TurnInv, Rows
      <4> QED
        BY <3>1, <4>1 DEF Exists, RowFits
    <3>3. CASE conversation[t[1]].state # "deleted"
      <4>1. LastIs(http[r], "done") =>
              turn[t].run = "COMPLETED" /\ Event("delta", turn[t].content) \in Shown(http[r])
        BY <3>1, <3>3 DEF Fits
      <4>2. LastIs(http[r], "error") /\ http[r].step # "unknown" => turn[t].content = ""
        BY <3>1, <3>3 DEF Fits
      <4>3. Event("delta", turn[t].content) \in Shown(http[r]) =>
              \E i \in 1 .. Len(http[r].seen) : http[r].seen[i] = Event("delta", turn[t].content)
        BY DEF Shown, Elements
      <4> QED
        BY <2>1, <4>1, <4>2, <4>3
    <3> QED
      BY <3>2, <3>3
  <2> QED
    BY <2>2, <2>3
<1> QED
  BY <1>1, TurnInvHolds, PTL

-----------------------------------------------------------------------------
(* The quotas *)

\* The turns stored, those of today and those of today of user u.
Stored == {t \in Turns : Exists(t)}
Today == {t \in Turns : Exists(t) /\ turn[t].day = day}
TodayOf(u) == {t \in Turns : Exists(t) /\ turn[t].day = day /\ conversation[t[1]].user = u}

QuotaInv == IsFiniteSet(Stored) /\ QuotaHolds

\* Only a reservation adds a turn; a turn keeps its day, its conversation and its user.
LEMMA RowsAge ==
    ASSUME TurnInv, [AssistantNext]_assistantVars, ~(\E r \in Requests : Reserve(r)),
           NEW t \in Turns, turn'[t].run # "absent"
    PROVE  /\ turn[t].run # "absent" /\ turn'[t].day = turn[t].day
           /\ conversation'[t[1]].user = conversation[t[1]].user
<1> DEFINE Goal == /\ turn[t].run # "absent" /\ turn'[t].day = turn[t].day
                   /\ conversation'[t[1]].user = conversation[t[1]].user
<1>1. /\ turn \in [Turns -> TurnType] /\ turn[t] \in TurnType /\ t[1] \in Conversations
      /\ turn[t].run # "absent" => conversation[t[1]].state = "stored"
      /\ conversation \in [Conversations -> ConversationType]
  BY DEF TurnInv, Typed, Rows, Turns
<1>2. ASSUME NEW C, RemoveConversations(C) PROVE Goal
  <2>1. t[1] \notin C
    BY <1>1, <1>2 DEF RemoveConversations, NoTurn
  <2> QED
    BY <1>1, <1>2, <2>1 DEF RemoveConversations
<1>3. ASSUME turn' = turn, conversation' = conversation PROVE Goal
  BY <1>3
<1>4. ASSUME NEW r \in Requests, Complete(r) PROVE Goal
  <2>1. /\ turn' = [turn EXCEPT ![http[r].turn] = CompletedTurn(http[r])]
        /\ conversation' = conversation /\ turn[http[r].turn].run = "PENDING"
    BY <1>4 DEF Complete, MayComplete
  <2>2. CASE http[r].turn = t
    <3>1. turn'[t] = CompletedTurn(http[r]) /\ CompletedTurn(http[r]).day = turn[t].day
      BY <1>1, <2>1, <2>2 DEF CompletedTurn, TurnType
    <3> QED
      BY <2>1, <2>2, <3>1
  <2>3. CASE http[r].turn # t
    BY <1>1, <2>1, <2>3
  <2> QED
    BY <2>2, <2>3
<1>5. ASSUME NEW r \in Requests, PersistFailure(r) PROVE Goal
  <2> DEFINE turnRow == FailedTurn(t, http[r].error)
  <2>1. turnRow.day = turn[t].day /\ (turnRow.run # "absent" => turn[t].run # "absent")
    BY <1>1 DEF FailedTurn, TurnType
  <2>2. /\ turn'[t] = turn[t] \/ turn'[t] = turnRow
        /\ conversation' = conversation
    BY <1>1, <1>5 DEF PersistFailure
  <2> HIDE DEF turnRow
  <2> QED
    BY <2>1, <2>2
<1>6. ASSUME NEW r \in Requests, Serve(r) PROVE Goal
  <2>1. CASE \/ ReserveFindsTurn(r) \/ ReserveRefuses(r) \/ ReserveFails(r)
             \/ Retrieve(r) \/ ModelAnswers(r)
             \/ \E calls \in 1 .. MaxToolCalls + 1 : ToolCalls(r, calls)
             \/ Deliver(r) \/ CompletionFails(r) \/ FailureIsLost(r)
             \/ Replay(r) \/ ReplayOfDeleted(r) \/ ReplaySources(r) \/ ReplayFails(r)
    <3>1. turn' = turn /\ conversation' = conversation
      BY <2>1 DEF ReserveFindsTurn, ReserveRefuses, ReserveFails, Retrieve, ModelAnswers, ToolCalls,
                  Deliver, CompletionFails, FailureIsLost, Replay, ReplayOfDeleted, ReplaySources,
                  ReplayFails
    <3> QED
      BY <1>3, <3>1
  <2> QED
    BY <1>4, <1>5, <1>6, <2>1 DEF Serve
<1>7. ASSUME NEW u \in Users, NEW c \in Conversations, CreateConversation(u, c) PROVE Goal
  <2>1. turn' = turn /\ conversation[c].state = "absent"
    BY <1>7 DEF CreateConversation
  <2>2. t[1] # c
    BY <1>1, <2>1
  <2>3. conversation'[t[1]] = conversation[t[1]]
    BY <1>1, <1>7, <2>2 DEF CreateConversation
  <2> QED
    BY <2>1, <2>3
<1>8. ASSUME NEW u \in Users, NEW c \in Conversations, DeleteConversation(u, c) PROVE Goal
  BY <1>2, <1>8 DEF DeleteConversation
<1>9. ASSUME NEW r \in Requests, NEW u \in Users, NEW s \in Turns,
             Prepare(r, u, s) \/ PrepareFails(r, u, s)
      PROVE  Goal
  BY <1>3, <1>9 DEF Prepare, PrepareFails
<1>10. ASSUME NEW r \in Requests, ClientLeaves(r) PROVE Goal
  BY <1>3, <1>10 DEF ClientLeaves
<1>11. ASSUME PurgeDeletes PROVE Goal
  BY <1>2, <1>11 DEF PurgeDeletes
<1>12. ASSUME PurgeLists \/ ServerStops \/ NextDay \/ UNCHANGED assistantVars PROVE Goal
  <2>1. turn' = turn /\ conversation' = conversation
    BY <1>12 DEF PurgeLists, ServerStops, NextDay, assistantVars
  <2> QED
    BY <1>3, <2>1
<1> HIDE DEF Goal
<1>13. Goal
  BY <1>6, <1>7, <1>8, <1>9, <1>10, <1>11, <1>12 DEF AssistantNext
<1> QED
  BY <1>13 DEF Goal

\* Time does not go back.
LEMMA TimePasses ==
    ASSUME TurnInv, [AssistantNext]_assistantVars
    PROVE  day' = day \/ day' > day
<1>1. day \in Nat
  BY AssistantAssumption DEF TurnInv, Typed, Days
<1>2. ASSUME NEW r \in Requests, Serve(r) PROVE day' = day
  BY <1>2 DEF Serve, ReserveFindsTurn, ReserveRefuses, Reserve, ReserveFails, Retrieve,
     ModelAnswers, ToolCalls, Deliver, Complete, CompletionFails, PersistFailure, FailureIsLost,
     Replay, ReplayOfDeleted, ReplaySources, ReplayFails
<1>3. ASSUME NEW u \in Users, NEW c \in Conversations,
             CreateConversation(u, c) \/ DeleteConversation(u, c)
      PROVE  day' = day
  BY <1>3 DEF CreateConversation, DeleteConversation
<1>4. ASSUME NEW r \in Requests, NEW u \in Users, NEW t \in Turns,
             Prepare(r, u, t) \/ PrepareFails(r, u, t)
      PROVE  day' = day
  BY <1>4 DEF Prepare, PrepareFails
<1>5. ASSUME NEW r \in Requests, ClientLeaves(r) PROVE day' = day
  BY <1>5 DEF ClientLeaves
<1>6. ASSUME PurgeLists \/ PurgeDeletes \/ ServerStops \/ UNCHANGED assistantVars
      PROVE  day' = day
  BY <1>6 DEF PurgeLists, PurgeDeletes, ServerStops, assistantVars
<1>7. ASSUME NextDay PROVE day' > day
  BY <1>1, <1>7 DEF NextDay
<1> QED
  BY <1>2, <1>3, <1>4, <1>5, <1>6, <1>7 DEF AssistantNext

\* One element more.
LEMMA OneElementMore ==
    ASSUME NEW S, NEW x, IsFiniteSet(S)
    PROVE  IsFiniteSet(S \cup {x}) /\ Cardinality(S \cup {x}) <= Cardinality(S) + 1
<1>1. Cardinality(S) \in Nat
  BY FS_CardinalityType
<1>2. /\ IsFiniteSet(S \cup {x})
      /\ Cardinality(S \cup {x}) = IF x \in S THEN Cardinality(S) ELSE Cardinality(S) + 1
  BY FS_AddElement
<1> QED
  BY <1>1, <1>2

\* No step takes a quota beyond its limit.
LEMMA QuotaStep ==
    ASSUME TurnInv, QuotaInv, [AssistantNext]_assistantVars
    PROVE  QuotaInv'
<1>1. /\ Today \in SUBSET Stored /\ \A u : TodayOf(u) \in SUBSET Stored
      /\ IsFiniteSet(Stored)
      /\ UsedGlobally = Cardinality(Today) /\ \A u : UsedToday(u) = Cardinality(TodayOf(u))
  BY DEF QuotaInv, Stored, Today, TodayOf, UsedToday, UsedGlobally
<1>2. /\ IsFiniteSet(Today) /\ Cardinality(Today) \in Nat
      /\ \A u : IsFiniteSet(TodayOf(u)) /\ Cardinality(TodayOf(u)) \in Nat
  BY <1>1, FS_Subset, FS_CardinalityType
<1>3. /\ Cardinality(Today) <= GlobalDailyMessageLimit
      /\ \A u \in Users : Cardinality(TodayOf(u)) <= DailyMessageLimit
  BY <1>1 DEF QuotaInv, QuotaHolds
<1> SUFFICES /\ IsFiniteSet(Stored')
             /\ Cardinality(Today') <= GlobalDailyMessageLimit
             /\ \A u \in Users : Cardinality(TodayOf(u)') <= DailyMessageLimit
  BY DEF QuotaInv, QuotaHolds, UsedToday, UsedGlobally, Today, TodayOf
<1>4. CASE \E r \in Requests : Reserve(r)
  <2> PICK r \in Requests : Reserve(r)
    BY <1>4
  <2>1. PICK t, v : Reserve(r) /\ t = http[r].turn /\ v = http[r].user
    OBVIOUS
  <2>2. /\ t \in Turns /\ turn' = [turn EXCEPT ![t] = NewTurn] /\ day' = day
        /\ Cardinality(Today) < GlobalDailyMessageLimit
        /\ Cardinality(TodayOf(v)) < DailyMessageLimit
        /\ conversation[t[1]].user = v
        /\ conversation' = [conversation EXCEPT ![t[1]].expiresAt = day + RetentionDays]
    BY <1>1, <2>1, HandlerFacts DEF Reserve, MayReserve, WithinQuota, Owned, Touched
  <2>3. \A s \in Turns : s # t => turn'[s] = turn[s]
    BY <2>2 DEF TurnInv, Typed
  <2>4. \A s \in Turns : conversation'[s[1]].user = conversation[s[1]].user
    BY <2>2 DEF TurnInv, Typed, ConversationType, Turns
  <2>5. Stored' \in SUBSET (Stored \cup {t})
    BY <2>3 DEF Stored, Exists
  <2>6. Today' \in SUBSET (Today \cup {t})
    BY <2>2, <2>3 DEF Today, Exists
  <2>7. \A u : u # v => TodayOf(u)' \in SUBSET TodayOf(u)
    BY <2>2, <2>3, <2>4 DEF TodayOf, Exists
  <2>8. TodayOf(v)' \in SUBSET (TodayOf(v) \cup {t})
    BY <2>2, <2>3, <2>4 DEF TodayOf, Exists
  <2>9. IsFiniteSet(Stored')
    <3>1. IsFiniteSet(Stored \cup {t})
      BY <1>1, FS_AddElement
    <3> QED
      BY <2>5, <3>1, FS_Subset
  <2>10. Cardinality(Today') <= GlobalDailyMessageLimit
    <3>1. /\ IsFiniteSet(Today \cup {t})
          /\ Cardinality(Today \cup {t}) <= Cardinality(Today) + 1
      BY <1>2, OneElementMore
    <3>2. IsFiniteSet(Today') /\ Cardinality(Today') <= Cardinality(Today \cup {t})
      BY <2>6, <3>1, FS_Subset
    <3>3. Cardinality(Today') \in Nat /\ Cardinality(Today \cup {t}) \in Nat
      BY <3>1, <3>2, FS_CardinalityType
    <3> QED
      BY <1>2, <2>2, <3>1, <3>2, <3>3, AssistantAssumption
  <2>11. ASSUME NEW u \in Users PROVE Cardinality(TodayOf(u)') <= DailyMessageLimit
    <3>1. CASE u = v
      <4>1. /\ IsFiniteSet(TodayOf(v) \cup {t})
            /\ Cardinality(TodayOf(v) \cup {t}) <= Cardinality(TodayOf(v)) + 1
        BY <1>2, OneElementMore
      <4>2. /\ IsFiniteSet(TodayOf(v)')
            /\ Cardinality(TodayOf(v)') <= Cardinality(TodayOf(v) \cup {t})
        BY <2>8, <4>1, FS_Subset
      <4>3. Cardinality(TodayOf(v)') \in Nat /\ Cardinality(TodayOf(v) \cup {t}) \in Nat
        BY <4>1, <4>2, FS_CardinalityType
      <4>4. Cardinality(TodayOf(v)') <= DailyMessageLimit
        BY <1>2, <2>2, <4>1, <4>2, <4>3, AssistantAssumption
      <4> QED
        BY <3>1, <4>4
    <3>2. CASE u # v
      <4>1. IsFiniteSet(TodayOf(u)') /\ Cardinality(TodayOf(u)') <= Cardinality(TodayOf(u))
        BY <1>2, <2>7, <3>2, FS_Subset
      <4>2. Cardinality(TodayOf(u)') \in Nat
        BY <4>1, FS_CardinalityType
      <4> QED
        BY <1>2, <1>3, <4>1, <4>2, AssistantAssumption
    <3> QED
      BY <3>1, <3>2
  <2> QED
    BY <2>9, <2>10, <2>11
<1>5. CASE ~(\E r \in Requests : Reserve(r))
  <2>1. \A t \in Turns : turn'[t].run # "absent" =>
          /\ turn[t].run # "absent" /\ turn'[t].day = turn[t].day
          /\ conversation'[t[1]].user = conversation[t[1]].user
    BY <1>5, RowsAge
  <2>2. \A t \in Turns : turn[t].run # "absent" => turn[t].day \in Nat /\ turn[t].day <= day
    BY AssistantAssumption DEF TurnInv, Typed, Rows, TurnType, Days
  <2>3. day \in Nat /\ (day' = day \/ day' > day)
    BY TimePasses, AssistantAssumption DEF TurnInv, Typed, Days
  <2>4. Stored' \in SUBSET Stored
    BY <2>1 DEF Stored, Exists
  <2>5. \A t \in Turns : turn'[t].run # "absent" /\ turn'[t].day = day' => day' = day
    BY <2>1, <2>2, <2>3
  <2>6. Today' \in SUBSET Today
    BY <2>1, <2>5 DEF Today, Exists
  <2>7. \A u : TodayOf(u)' \in SUBSET TodayOf(u)
    BY <2>1, <2>5 DEF TodayOf, Exists
  <2>8. IsFiniteSet(Stored')
    BY <1>1, <2>4, FS_Subset
  <2>9. Cardinality(Today') <= GlobalDailyMessageLimit
    <3>1. Cardinality(Today') <= Cardinality(Today) /\ IsFiniteSet(Today')
      BY <1>2, <2>6, FS_Subset
    <3>2. Cardinality(Today') \in Nat
      BY <3>1, FS_CardinalityType
    <3> QED
      BY <1>2, <1>3, <3>1, <3>2, AssistantAssumption
  <2>10. ASSUME NEW u \in Users PROVE Cardinality(TodayOf(u)') <= DailyMessageLimit
    <3>1. Cardinality(TodayOf(u)') <= Cardinality(TodayOf(u)) /\ IsFiniteSet(TodayOf(u)')
      BY <1>2, <2>7, FS_Subset
    <3>2. Cardinality(TodayOf(u)') \in Nat
      BY <3>1, FS_CardinalityType
    <3> QED
      BY <1>2, <1>3, <3>1, <3>2, AssistantAssumption
  <2> QED
    BY <2>8, <2>9, <2>10
<1> QED
  BY <1>4, <1>5

\* The quota of a day counts what is stored: neither a user nor everybody has more messages
\* of today than the limit, however many requests reserve at once (reserveAssistantTurn in
\* reserve-turn.ts, in a serializable transaction).
THEOREM QuotasHold == AssistantSpec => []QuotaHolds
<1>1. TurnsInit => QuotaInv
  <2> SUFFICES ASSUME TurnsInit PROVE QuotaInv
    OBVIOUS
  <2>1. \A t \in Turns : ~Exists(t)
    BY DEF TurnsInit, Exists, NoTurn
  <2>2. /\ Stored = {}
        /\ UsedGlobally = Cardinality({}) /\ \A u : UsedToday(u) = Cardinality({})
    <3>1. /\ {t \in Turns : Exists(t) /\ turn[t].day = day} = {}
          /\ \A u : {t \in Turns : Exists(t) /\ turn[t].day = day
                                    /\ conversation[t[1]].user = u} = {}
      BY <2>1
    <3> QED
      BY <2>1, <3>1 DEF Stored, UsedGlobally, UsedToday
  <2> QED
    BY <2>2, FS_EmptySet, AssistantAssumption DEF QuotaInv, QuotaHolds
<1>2. TurnInv /\ QuotaInv /\ [AssistantNext]_assistantVars => QuotaInv'
  BY QuotaStep
<1>3. QuotaInv => QuotaHolds
  BY DEF QuotaInv
<1> QED
  BY <1>1, <1>2, <1>3, TurnInvHolds, PTL DEF AssistantSpec

-----------------------------------------------------------------------------
(***************************************************************************)
(* About KnowledgeSync: what the assistant may quote is what was approved, *)
(* and a command that says it succeeded has made it so, whatever is        *)
(* edited, fails, dies or is swapped, as long as no two commands overlap.  *)
(* Commands that do overlap still index nothing but what was approved.     *)
(*                                                                         *)
(* A command acts on what it planned from a list of the store and on the   *)
(* rows it read then.  Command says what still is true of both at each of  *)
(* its steps: an action finds its row as the plan did, nobody names the    *)
(* file it uploads, and a document without an action left needs none.      *)
(***************************************************************************)

-----------------------------------------------------------------------------
(* The invariant *)

\* No two commands overlap: the cleanup of one would take away what the other has attached
\* and not recorded yet.
Alone == \A s, t \in Syncs : sync[s].step # "idle" /\ sync[t].step # "idle" => s = t

Statuses == {"absent", "INDEXING", "READY", "FAILED", "REMOVED"}
DocRow == [status : Statuses, file : 0..MaxFiles, text : Texts \cup {0}]
StoredFile == {Absent} \cup [state : {"stored", "pending", "completed"}, doc : Docs,
                             text : Texts \cup {0}]
DocRows == [Docs -> DocRow]
Store == [Files -> StoredFile]
ActionType == [type : {"none", "upload", "replace", "remove"}, doc : Docs \cup {"none"},
               previous : 0..MaxFiles]

\* Steps with an action in hand.
Indexing == {"create", "attach", "markReady", "indexFailed"}
Removing == {"markRemoved", "removeRemote", "forgetFile"}
InHand == Indexing \cup Removing \cup {"markIndexing", "removePrevious"}

SyncType ==
    [step : InHand \cup {"idle", "list", "plan", "next", "cleanup"},
     manifest : [Docs -> Entries], present : SUBSET Files, todo : SUBSET ActionType,
     doing : ActionType, uploaded : 0..MaxFiles, failed : BOOLEAN, remote : SUBSET Files,
     referenced : SUBSET Files, toRead : SUBSET {"remote", "referenced"}]

KnowledgeShape ==
    /\ corpus \in [Docs -> Entries]
    /\ row \in DocRows
    /\ file \in Store
    /\ sync \in [Syncs -> SyncType]
    /\ spent \in [edits : Nat, faults : Nat, swaps : Nat]

\* What was approved stays known, and no file holds anything else.
AllSealed(manifest, known) ==
    \A d \in Docs : manifest[d].as = "approved" => <<d, manifest[d].seal>> \in known

FilesSealed == \A f \in Files : file[f].state # "absent" => <<file[f].doc, file[f].text>> \in sealed

\* The files that rows name, and those attached to the store.
Named(rows) == {rows[d].file : d \in Docs} \ {NoFile}
AttachedIn(files) == {f \in Files : files[f].state \in {"pending", "completed"}}

\* Uploads and replacements are of approved documents, removals of those not listed.
Justified(x, a) ==
    /\ a.doc \in Docs /\ a.type # "none"
    /\ a.type = "remove" <=> x.manifest[a.doc].as # "approved"
    /\ a.type # "remove" => Approved(x.manifest[a.doc])

\* A planned action finds the row as the plan did.
Planned(x, rows) ==
    /\ \A a \in x.todo :
         /\ Justified(x, a) /\ a.previous = rows[a.doc].file
         /\ a.type = "replace" => rows[a.doc].status = "READY"
         /\ x.step \in InHand => a.doc # x.doing.doc
    /\ \A a, b \in x.todo : a.doc = b.doc => a = b
    /\ x.todo # {} => x.step \in InHand \cup {"next"}

\* The action in hand, its row and the file it has uploaded, at each step.
Carried(x, rows, files) ==
    LET a == x.doing
        r == rows[a.doc]
        f == x.uploaded
    IN  x.step \in InHand =>
          /\ Justified(x, a)
          /\ x.step \in Indexing \cup {"markIndexing"} => a.type # "remove"
          /\ x.step = "markIndexing" => a.type = "upload"
          /\ x.step \in Indexing /\ a.type = "upload" => r.status = "INDEXING" /\ r.file = NoFile
          /\ x.step \in Indexing /\ a.type = "replace" => r.status = "READY" /\ r.file = a.previous
          /\ x.step \in {"attach", "markReady"} =>
                /\ f \in Files /\ f \notin Named(rows)
                /\ files[f].doc = a.doc /\ files[f].text = x.manifest[a.doc].text
                /\ files[f].state # "absent"
          /\ x.step = "markReady" => files[f].state = "completed"
          /\ x.step = "removePrevious" =>
                a.type = "replace" /\ a.previous \in Files /\ a.previous \notin Named(rows)
          /\ x.step \in Removing => a.type = "remove" /\ r.file = a.previous
          /\ x.step \in {"removeRemote", "forgetFile"} => r.status = "REMOVED" /\ a.previous \in Files

\* What the plan relied on: a file that was attached and has a READY row is still there.
Listed(x, rows, files) ==
    x.step \notin {"idle", "list"} =>
        \A d \in Docs : rows[d].status = "READY" /\ rows[d].file \in x.present =>
                            files[rows[d].file].state = "completed"

\* A document that needs nothing more of this command.
Done(x, d, rows, files) ==
    LET e == x.manifest[d]
    IN  /\ e.as # "approved" => rows[d].status # "READY"
        /\ ~x.failed =>
             /\ Approved(e) => /\ rows[d].status = "READY" /\ rows[d].text = e.text
                               /\ files[rows[d].file].state = "completed"
             /\ e.as # "approved" => rows[d].file = NoFile

\* Every other document has an action, planned or in hand; once a replacement's row is
\* written only the removal of the previous file is left, which the rows do not show.
Progress(x, rows, files) ==
    /\ x.step \in InHand \cup {"next", "cleanup"} =>
         \A d \in Docs :
            \/ Done(x, d, rows, files)
            \/ \E a \in x.todo : a.doc = d
            \/ x.step \in InHand \ {"removePrevious"} /\ x.doing.doc = d
    /\ x.step = "cleanup" =>
         /\ "referenced" \notin x.toRead => x.referenced = Named(rows)
         /\ "remote" \notin x.toRead /\ ~x.failed => AttachedIn(files) \subseteq x.remote

Command(x, rows, files) ==
    /\ Planned(x, rows) /\ Carried(x, rows, files)
    /\ Listed(x, rows, files) /\ Progress(x, rows, files)

KnowledgeInv ==
    /\ KnowledgeShape /\ KnowledgeTypeOK /\ ReadyIsIndexed
    /\ AllSealed(corpus, sealed) /\ FilesSealed
    /\ \A s \in Syncs : AllSealed(sync[s].manifest, sealed) /\ Command(sync[s], row, file)
    /\ \A s \in Syncs : sync[s].step = "idle" => sync[s] = Idle

-----------------------------------------------------------------------------
(* What may change *)

LEMMA EntryShape ==
    ASSUME NEW e \in Entries
    PROVE  /\ e.as \in {"unlisted", "draft", "approved"}
           /\ e.text \in Texts \cup {0} /\ e.seal \in Texts \cup {0}
           /\ Approved(e) => e.as = "approved" /\ e.text = e.seal
  BY DEF Entries, Unlisted, Approved

\* One file changes that no READY row names.
LEMMA FileChanges ==
    ASSUME KnowledgeInv, NEW f \in Files, NEW y \in StoredFile,
           file' = [file EXCEPT ![f] = y], row' = row, corpus' = corpus, sealed' = sealed,
           spent'.swaps = spent.swaps,
           y.state # "absent" => <<y.doc, y.text>> \in sealed,
           \A d \in Docs : row[d].status = "READY" => row[d].file # f
    PROVE  /\ KnowledgeTypeOK' /\ ReadyIsIndexed' /\ file' \in Store
           /\ FilesSealed'
           /\ \A g \in Files : g # f => file'[g] = file[g]
           /\ file'[f] = y
<1>1. /\ KnowledgeTypeOK /\ ReadyIsIndexed /\ FilesSealed /\ file \in Store
      /\ row \in DocRows
  BY DEF KnowledgeInv, KnowledgeShape
<1>2. file' \in Store /\ file'[f] = y /\ \A g \in Files : g # f => file'[g] = file[g]
  BY <1>1 DEF Store, DocRows
<1>3. KnowledgeTypeOK'
  BY <1>1, <1>2 DEF KnowledgeTypeOK, StoredFile, Absent
<1>4. ReadyIsIndexed'
  <2> SUFFICES ASSUME NEW d \in Docs, row[d].status = "READY"
               PROVE  file'[row[d].file] = file[row[d].file]
    BY <1>1 DEF ReadyIsIndexed
  <2>1. row[d].file \in Files
    BY <1>1, KnowledgeAssumption DEF KnowledgeTypeOK, DocRows, DocRow, Files, NoFile
  <2> QED
    BY <1>2, <2>1
<1> QED
  BY <1>1, <1>2, <1>3, <1>4 DEF FilesSealed

\* One row changes, to one that keeps to the rules.
LEMMA RowChanges ==
    ASSUME KnowledgeInv, NEW d \in Docs, NEW r \in DocRow,
           row' = [row EXCEPT ![d] = r], file' = file, spent'.swaps = spent.swaps,
           r.file # NoFile => r.status \in {"READY", "REMOVED"},
           r.status = "READY" =>
              /\ r.file # NoFile /\ file[r.file].doc = d /\ file[r.file].text = r.text
              /\ file[r.file].state = "completed"
                    \/ (file[r.file].state = "stored" /\ spent.swaps > 0),
           r.file = row[d].file \/ r.file = NoFile \/ r.file \notin Referenced
    PROVE  /\ KnowledgeTypeOK' /\ ReadyIsIndexed' /\ row' \in DocRows
           /\ row'[d] = r /\ \A e \in Docs : e # d => row'[e] = row[e]
<1>1. KnowledgeTypeOK /\ ReadyIsIndexed /\ row \in DocRows
  BY DEF KnowledgeInv, KnowledgeShape
<1>2. row' \in DocRows /\ row'[d] = r /\ \A e \in Docs : e # d => row'[e] = row[e]
  BY <1>1 DEF Store, DocRows
<1>3. ASSUME NEW e \in Docs, e # d, r.file = row[e].file
      PROVE  r.file = NoFile
  BY <1>1, <1>3 DEF KnowledgeTypeOK, Referenced
<1>4. KnowledgeTypeOK'
  <2>1. ASSUME NEW e \in Docs
        PROVE  /\ row'[e].status \in Statuses
               /\ row'[e].file # NoFile => row'[e].status \in {"READY", "REMOVED"}
               /\ row'[e].status = "READY" => row'[e].file # NoFile
    <3>1. CASE e = d
      BY <1>2, <3>1 DEF DocRow
    <3>2. CASE e # d
      BY <1>1, <1>2, <3>2 DEF KnowledgeTypeOK, Statuses
    <3> QED
      BY <3>1, <3>2
  <2>2. ASSUME NEW e \in Docs, NEW x \in Docs, e # x, row'[e].file = row'[x].file
        PROVE  row'[e].file = NoFile
    <3>1. CASE e = d
      BY <1>2, <1>3, <2>2, <3>1
    <3>2. CASE x = d
      BY <1>2, <1>3, <2>2, <3>2
    <3>3. CASE e # d /\ x # d
      BY <1>1, <1>2, <2>2, <3>3 DEF KnowledgeTypeOK
    <3> QED
      BY <3>1, <3>2, <3>3
  <2>3. \A f \in Files : file'[f].state \in {"absent", "stored", "pending", "completed"}
    BY <1>1 DEF KnowledgeTypeOK
  <2> QED
    BY <2>1, <2>2, <2>3 DEF KnowledgeTypeOK, Statuses
<1>5. ReadyIsIndexed'
  <2> SUFFICES ASSUME NEW e \in Docs, row'[e].status = "READY"
               PROVE  LET f == file[row'[e].file] IN
                        /\ f.doc = e /\ f.text = row'[e].text
                        /\ f.state = "completed" \/ (f.state = "stored" /\ spent.swaps > 0)
    BY DEF ReadyIsIndexed
  <2>1. CASE e = d
    BY <1>2, <2>1
  <2>2. CASE e # d
    BY <1>1, <1>2, <2>2 DEF ReadyIsIndexed
  <2> QED
    BY <2>1, <2>2
<1> QED
  BY <1>2, <1>4, <1>5


-----------------------------------------------------------------------------
(* From one place of a command to the next *)

\* What is known of a command before its step.
LEMMA Before ==
    ASSUME KnowledgeInv, NEW s \in Syncs
    PROVE  /\ sync[s] \in SyncType /\ sync \in [Syncs -> SyncType]
           /\ Planned(sync[s], row) /\ Carried(sync[s], row, file)
           /\ Listed(sync[s], row, file) /\ Progress(sync[s], row, file)
           /\ AllSealed(sync[s].manifest, sealed) /\ AllSealed(corpus, sealed) /\ corpus \in [Docs -> Entries]
           /\ row \in DocRows /\ file \in Store
           /\ KnowledgeTypeOK /\ ReadyIsIndexed /\ FilesSealed
           /\ spent \in [edits : Nat, faults : Nat, swaps : Nat]
  BY DEF KnowledgeInv, KnowledgeShape, Command

\* A command that is idle owes nothing.
LEMMA IdleRule ==
    /\ Idle \in SyncType /\ Idle.step = "idle"
    /\ \A x \in SyncType : \A rows, files :
          x.step \in {"idle", "list"} /\ x.todo = {} => Command(x, rows, files)
<1>1. Idle \in SyncType /\ Idle.step = "idle"
  BY KnowledgeAssumption DEF Idle, SyncType, ActionType, NoAction, NoFile, Entries
<1>2. ASSUME NEW x \in SyncType, NEW rows, NEW files, x.step \in {"idle", "list"}, x.todo = {}
      PROVE  Command(x, rows, files)
  <2>1. x.step \notin InHand
    BY <1>2 DEF InHand, Indexing, Removing
  <2>2. Planned(x, rows) /\ Carried(x, rows, files)
    BY <1>2, <2>1 DEF Planned, Carried
  <2>3. Listed(x, rows, files) /\ Progress(x, rows, files)
    BY <1>2, <2>1 DEF Listed, Progress
  <2> QED
    BY <2>2, <2>3 DEF Command
<1> QED
  BY <1>1, <1>2

\* What has to be known of it after its step.
LEMMA After ==
    ASSUME Alone, Alone', KnowledgeInv, NEW s \in Syncs, NEW y \in SyncType,
           sync' = [sync EXCEPT ![s] = y], corpus' = corpus, sealed' = sealed,
           spent' \in [edits : Nat, faults : Nat, swaps : Nat],
           row' \in DocRows, file' \in Store, KnowledgeTypeOK', ReadyIsIndexed', FilesSealed',
           y.manifest = sync[s].manifest \/ y.manifest = corpus \/ y = Idle,
           y.step # "idle" \/ (y = Idle /\ sync[s].step # "idle"),
           Command(y, row', file')
    PROVE  KnowledgeInv'
<1>1. sync' \in [Syncs -> SyncType] /\ sync'[s] = y
  BY Before
<1>2. AllSealed(y.manifest, sealed)
  BY Before DEF AllSealed, Idle, Unlisted
<1>3. KnowledgeShape'
  BY <1>1, Before DEF KnowledgeShape
<1>4. AllSealed(corpus', sealed')
  BY Before
<1>5. ASSUME NEW t \in Syncs
      PROVE  AllSealed(sync'[t].manifest, sealed') /\ Command(sync'[t], row', file')
  <2>1. CASE t = s
    BY <1>1, <1>2, <2>1
  <2>2. CASE t # s
    <3>1. sync'[t] = sync[t]
      BY <2>2, Before
    <3>2. sync[t].step = "idle"
      BY <1>1, <2>2, <3>1 DEF Alone
    <3>3. sync[t] = Idle
      BY <3>2 DEF KnowledgeInv
    <3>4. Command(Idle, row', file')
      BY IdleRule DEF Idle
    <3> QED
      BY <3>1, <3>3, <3>4, Before
  <2> QED
    BY <2>1, <2>2
<1>6. \A t \in Syncs : sync'[t].step = "idle" => sync'[t] = Idle
  BY <1>1 DEF KnowledgeInv
<1> QED
  BY <1>3, <1>4, <1>5, <1>6 DEF KnowledgeInv

\* A step of the action in hand, which changes nothing but the row of its document and
\* files that no other document is served from.
LEMMA GoesOn ==
    ASSUME NEW x \in SyncType, NEW y \in SyncType, NEW d \in Docs,
           NEW rows \in DocRows, NEW after \in DocRows, NEW files \in Store, NEW store \in Store,
           Planned(x, rows), Listed(x, rows, files), Progress(x, rows, files),
           x.step \in InHand, x.doing.doc = d, y.step \in InHand \cup {"next"},
           y.manifest = x.manifest, y.todo = x.todo, y.present = x.present,
           x.failed => y.failed, y.step \in InHand => y.doing = x.doing,
           \A e \in Docs : e # d => after[e] = rows[e],
           \A e \in Docs : e # d /\ rows[e].status = "READY" =>
                               store[rows[e].file] = files[rows[e].file],
           after[d].status = "READY" /\ after[d].file \in x.present =>
                               store[after[d].file].state = "completed",
           y.step \in InHand \ {"removePrevious"} \/ Done(y, d, after, store)
    PROVE  Planned(y, after) /\ Listed(y, after, store) /\ Progress(y, after, store)
<1>1. \A a \in x.todo : a.doc \in Docs /\ a.doc # d /\ after[a.doc] = rows[a.doc]
  BY DEF Planned, Justified
<1>2. Planned(y, after)
  <2>1. ASSUME NEW a \in y.todo
        PROVE  /\ Justified(y, a) /\ a.previous = after[a.doc].file
               /\ a.type = "replace" => after[a.doc].status = "READY"
               /\ y.step \in InHand => a.doc # y.doing.doc
    BY <1>1, <2>1 DEF Planned, Justified
  <2>2. \A a, b \in y.todo : a.doc = b.doc => a = b
    BY DEF Planned
  <2> QED
    BY <2>1, <2>2 DEF Planned
<1>3. Listed(y, after, store)
  <2> SUFFICES ASSUME NEW e \in Docs, after[e].status = "READY", after[e].file \in y.present
               PROVE  store[after[e].file].state = "completed"
    BY DEF Listed
  <2>1. CASE e = d
    BY <2>1
  <2>2. CASE e # d
    <3>1. x.step \notin {"idle", "list"}
      BY DEF InHand, Indexing, Removing
    <3> QED
      BY <2>2, <3>1 DEF Listed
  <2> QED
    BY <2>1, <2>2
<1>4. Progress(y, after, store)
  <2>1. ASSUME NEW e \in Docs, e # d, Done(x, e, rows, files)
        PROVE  Done(y, e, after, store)
    <3>1. after[e] = rows[e] /\ y.manifest[e] = x.manifest[e]
      BY <2>1
    <3>2. rows[e].status = "READY" => store[rows[e].file] = files[rows[e].file]
      BY <2>1
    <3> QED
      BY <2>1, <3>1, <3>2 DEF Done
  <2>2. ASSUME NEW e \in Docs
        PROVE  \/ Done(y, e, after, store)
               \/ \E a \in y.todo : a.doc = e
               \/ y.step \in InHand \ {"removePrevious"} /\ y.doing.doc = e
    <3>1. CASE e = d
      BY <3>1
    <3>2. CASE e # d
      <4>1. Done(x, e, rows, files) \/ \E a \in x.todo : a.doc = e
        BY <3>2 DEF Progress
      <4> QED
        BY <2>1, <3>2, <4>1
    <3> QED
      BY <3>1, <3>2
  <2>3. y.step # "cleanup"
    BY DEF InHand, Indexing, Removing
  <2> QED
    BY <2>2, <2>3 DEF Progress
<1> QED
  BY <1>2, <1>3, <1>4

\* The same for a step that ends no action, writes no row and changes no file in use.
LEMMA StaysInHand ==
    ASSUME KnowledgeInv, NEW s \in Syncs, NEW y \in SyncType, NEW store \in Store,
           sync[s].step \in InHand \ {"removePrevious"}, y.step \in InHand \ {"removePrevious"},
           y.manifest = sync[s].manifest, y.todo = sync[s].todo, y.present = sync[s].present,
           sync[s].failed => y.failed, y.doing = sync[s].doing,
           \A e \in Docs : row[e].status = "READY" => store[row[e].file] = file[row[e].file]
    PROVE  Planned(y, row) /\ Listed(y, row, store) /\ Progress(y, row, store)
<1>1. PICK x : x = sync[s]
  OBVIOUS
<1>2. PICK d : d = x.doing.doc
  OBVIOUS
<1>3. x \in SyncType /\ d \in Docs /\ row \in DocRows /\ file \in Store
      /\ Planned(x, row) /\ Listed(x, row, file) /\ Progress(x, row, file)
  BY <1>1, <1>2, Before DEF Carried, Justified
<1>4. row[d].status = "READY" /\ row[d].file \in x.present => store[row[d].file].state = "completed"
  <2>1. x.step \notin {"idle", "list"}
    BY <1>1 DEF InHand, Indexing, Removing
  <2> QED
    BY <1>3, <2>1 DEF Listed
<1>5. PICK files, rows, after : files = file /\ rows = row /\ after = row
  OBVIOUS
<1>6. /\ x.step \in InHand /\ y.step \in InHand \cup {"next"} /\ files \in Store
      /\ rows \in DocRows /\ after \in DocRows /\ x.doing.doc = d
      /\ Planned(x, rows) /\ Listed(x, rows, files) /\ Progress(x, rows, files)
      /\ y.manifest = x.manifest /\ y.todo = x.todo /\ y.present = x.present
      /\ y.doing = x.doing
      /\ y.step \in InHand \ {"removePrevious"}
  BY <1>1, <1>2, <1>3, <1>5
<1>7. /\ x.failed => y.failed
      /\ \A e \in Docs : e # d => after[e] = rows[e]
      /\ \A e \in Docs : e # d /\ rows[e].status = "READY" =>
                             store[rows[e].file] = files[rows[e].file]
      /\ after[d].status = "READY" /\ after[d].file \in x.present =>
                             store[after[d].file].state = "completed"
  BY <1>1, <1>4, <1>5
<1>8. Planned(y, after) /\ Listed(y, after, store) /\ Progress(y, after, store)
  BY <1>3, <1>6, <1>7, GoesOn
<1> QED
  BY <1>5, <1>8

\* A row that is READY names a file, which is stored, and nobody else's.
LEMMA ReadyFile ==
    ASSUME KnowledgeInv, NEW d \in Docs, row[d].status = "READY"
    PROVE  /\ row[d].file \in Files /\ row[d].file \in Referenced
           /\ file[row[d].file].state \in {"stored", "completed"}
           /\ \A e \in Docs : row[e].file = row[d].file => e = d
<1>1. row[d].file # NoFile /\ row[d].file \in 0..MaxFiles
  BY DEF KnowledgeInv, KnowledgeTypeOK, KnowledgeShape, DocRows, DocRow
<1> QED
  BY <1>1, KnowledgeAssumption
  DEF KnowledgeInv, KnowledgeTypeOK, ReadyIsIndexed, Files, NoFile, Referenced

LEMMA FaultCounts ==
    ASSUME KnowledgeInv, spent' = spent \/ Fault
    PROVE  /\ spent' \in [edits : Nat, faults : Nat, swaps : Nat]
           /\ spent'.swaps = spent.swaps
  BY DEF KnowledgeInv, KnowledgeShape, Fault

\* A step of the command alone.
LEMMA OnlyTheCommand ==
    ASSUME Alone, Alone', KnowledgeInv, NEW s \in Syncs, NEW y \in SyncType,
           sync' = [sync EXCEPT ![s] = y], spent' = spent \/ Fault,
           corpus' = corpus, row' = row, file' = file, sealed' = sealed,
           y.manifest = sync[s].manifest \/ y.manifest = corpus \/ y = Idle,
           y.step # "idle" \/ (y = Idle /\ sync[s].step # "idle"),
           Command(y, row, file)
    PROVE  KnowledgeInv'
<1>1. spent' \in [edits : Nat, faults : Nat, swaps : Nat] /\ spent'.swaps = spent.swaps
  BY FaultCounts
<1>2. KnowledgeTypeOK' /\ FilesSealed'
  BY Before DEF KnowledgeTypeOK, FilesSealed
<1>3. ReadyIsIndexed'
  BY <1>1, Before DEF ReadyIsIndexed
<1>4. row' \in DocRows /\ file' \in Store /\ Command(y, row', file')
  BY Before
<1> QED
  BY <1>1, <1>2, <1>3, <1>4, After

-----------------------------------------------------------------------------
(* The environment *)

LEMMA EditCorpusKeeps ==
    ASSUME KnowledgeInv, NEW d \in Docs, NEW entry \in Entries, EditCorpus(d, entry)
    PROVE  KnowledgeInv'
<1>1. /\ corpus' = [corpus EXCEPT ![d] = entry] /\ row' = row /\ file' = file /\ sync' = sync
      /\ sealed' = IF entry.as = "approved" THEN sealed \cup {<<d, entry.seal>>} ELSE sealed
      /\ spent' = [spent EXCEPT !.edits = @ + 1]
  BY DEF EditCorpus
<1>2. sealed \subseteq sealed'
  BY <1>1
<1>3. spent' \in [edits : Nat, faults : Nat, swaps : Nat] /\ spent'.swaps = spent.swaps
  BY <1>1 DEF KnowledgeInv, KnowledgeShape
<1>4. KnowledgeShape' /\ KnowledgeTypeOK'
  BY <1>1, <1>3 DEF KnowledgeInv, KnowledgeShape, KnowledgeTypeOK
<1>5. ReadyIsIndexed'
  BY <1>1, <1>3 DEF KnowledgeInv, ReadyIsIndexed
<1>6. FilesSealed'
  BY <1>1, <1>2 DEF KnowledgeInv, FilesSealed
<1>7. AllSealed(corpus', sealed')
  <2> SUFFICES ASSUME NEW e \in Docs, corpus'[e].as = "approved"
               PROVE  <<e, corpus'[e].seal>> \in sealed'
    BY DEF AllSealed
  <2>1. CASE e = d
    <3>1. corpus'[e] = entry
      BY <1>1, <2>1 DEF KnowledgeInv, KnowledgeShape
    <3> QED
      BY <1>1, <2>1, <3>1
  <2>2. CASE e # d
    <3>1. corpus'[e] = corpus[e]
      BY <1>1, <2>2 DEF KnowledgeInv, KnowledgeShape
    <3> QED
      BY <1>2, <3>1 DEF KnowledgeInv, AllSealed
  <2> QED
    BY <2>1, <2>2
<1>8. ASSUME NEW s \in Syncs
      PROVE  AllSealed(sync'[s].manifest, sealed') /\ Command(sync'[s], row', file')
  BY <1>1, <1>2 DEF KnowledgeInv, AllSealed
<1>9. \A s \in Syncs : sync'[s].step = "idle" => sync'[s] = Idle
  BY <1>1 DEF KnowledgeInv
<1> QED
  BY <1>4, <1>5, <1>6, <1>7, <1>8, <1>9 DEF KnowledgeInv

LEMMA SwapStoreKeeps ==
    ASSUME KnowledgeInv, SwapStore
    PROVE  KnowledgeInv'
<1>1. /\ corpus' = corpus /\ row' = row /\ sync' = sync /\ sealed' = sealed
      /\ file' = [f \in Files |-> IF file[f] = Absent THEN Absent
                                                     ELSE [file[f] EXCEPT !.state = "stored"]]
      /\ spent' = [spent EXCEPT !.swaps = @ + 1]
      /\ \A s \in Syncs : sync[s].step = "idle"
  BY DEF SwapStore
<1>2. spent' \in [edits : Nat, faults : Nat, swaps : Nat] /\ spent'.swaps > 0
  BY <1>1 DEF KnowledgeInv, KnowledgeShape
<1>3. ASSUME NEW f \in Files
      PROVE  /\ file'[f] \in StoredFile
             /\ file'[f].state # "absent" => file[f].state # "absent"
             /\ file[f].state # "absent" => file'[f].state = "stored"
             /\ file'[f].doc = file[f].doc /\ file'[f].text = file[f].text
  <2>1. file[f] \in StoredFile
    BY DEF KnowledgeInv, KnowledgeShape, Store
  <2>2. CASE file[f] = Absent
    BY <1>1, <2>1, <2>2 DEF Absent
  <2>3. CASE file[f] # Absent
    <3>1. file'[f] = [file[f] EXCEPT !.state = "stored"]
      BY <1>1, <2>3
    <3>2. file[f] \in [state : {"stored", "pending", "completed"}, doc : Docs,
                       text : Texts \cup {0}]
      BY <2>1, <2>3 DEF StoredFile
    <3> QED
      BY <3>1, <3>2 DEF StoredFile
  <2> QED
    BY <2>2, <2>3
<1>4. file' \in Store
  BY <1>1, <1>3 DEF Store
<1>5. KnowledgeShape' /\ KnowledgeTypeOK'
  <2>1. \A f \in Files : file'[f].state \in {"absent", "stored", "pending", "completed"}
    BY <1>3 DEF StoredFile, Absent
  <2> QED
    BY <1>1, <1>2, <1>4, <2>1 DEF KnowledgeInv, KnowledgeShape, KnowledgeTypeOK
<1>6. ReadyIsIndexed'
  <2> SUFFICES ASSUME NEW d \in Docs, row[d].status = "READY"
               PROVE  LET f == file'[row[d].file] IN
                        f.doc = d /\ f.text = row[d].text /\ f.state = "stored"
    BY <1>1, <1>2 DEF ReadyIsIndexed
  <2>1. row[d].file \in Files /\ file[row[d].file].state \in {"stored", "completed"}
    BY ReadyFile
  <2>2. file[row[d].file].doc = d /\ file[row[d].file].text = row[d].text
    BY DEF KnowledgeInv, ReadyIsIndexed
  <2> QED
    BY <1>3, <2>1, <2>2
<1>7. FilesSealed'
  BY <1>1, <1>3 DEF KnowledgeInv, FilesSealed
<1>8. ASSUME NEW s \in Syncs
      PROVE  AllSealed(sync'[s].manifest, sealed') /\ Command(sync'[s], row', file')
  <2>1. sync[s] \in SyncType /\ sync[s].step = "idle" /\ AllSealed(sync[s].manifest, sealed)
        /\ Planned(sync[s], row)
    BY <1>1, Before
  <2>2. sync[s].todo = {}
    BY <2>1 DEF Planned, InHand, Indexing, Removing
  <2> QED
    BY <1>1, <2>1, <2>2, IdleRule
<1> QED
  BY <1>1, <1>5, <1>6, <1>7, <1>8 DEF KnowledgeInv

\* A file that no READY row names, and no command has just uploaded.
LEMMA ProviderIndexesKeeps ==
    ASSUME Alone, Alone', KnowledgeInv, NEW f \in Files, ProviderIndexes(f)
    PROVE  KnowledgeInv'
<1>1. /\ file[f].state = "pending" /\ \A s \in Syncs : sync[s].uploaded # f
      /\ file' = [file EXCEPT ![f].state = "completed"]
      /\ corpus' = corpus /\ row' = row /\ sync' = sync /\ sealed' = sealed /\ spent' = spent
  BY DEF ProviderIndexes
<1>2. PICK y : y = [file[f] EXCEPT !.state = "completed"]
  OBVIOUS
<1>3. y \in StoredFile /\ y.state = "completed" /\ y.doc = file[f].doc /\ y.text = file[f].text
  <2>1. file[f] \in [state : {"stored", "pending", "completed"}, doc : Docs,
                     text : Texts \cup {0}]
    BY <1>1 DEF KnowledgeInv, KnowledgeShape, Store, StoredFile, Absent
  <2> QED
    BY <1>2, <2>1 DEF StoredFile
<1>4. file' = [file EXCEPT ![f] = y]
  BY <1>1, <1>2
<1>5. \A d \in Docs : row[d].status = "READY" => row[d].file # f
  BY <1>1, ReadyFile
<1>6. <<y.doc, y.text>> \in sealed
  BY <1>1, <1>3 DEF KnowledgeInv, FilesSealed
<1>7. /\ KnowledgeTypeOK' /\ ReadyIsIndexed' /\ file' \in Store /\ FilesSealed'
      /\ \A g \in Files : g # f => file'[g] = file[g]
      /\ file'[f] = y
  BY <1>1, <1>3, <1>4, <1>5, <1>6, FileChanges
<1>8. KnowledgeShape'
  BY <1>1, <1>7 DEF KnowledgeInv, KnowledgeShape
<1>9. ASSUME NEW s \in Syncs
      PROVE  AllSealed(sync'[s].manifest, sealed') /\ Command(sync'[s], row', file')
  <2>1. /\ Planned(sync[s], row) /\ Carried(sync[s], row, file)
        /\ Listed(sync[s], row, file) /\ Progress(sync[s], row, file)
        /\ AllSealed(sync[s].manifest, sealed)
    BY Before
  <2>2. PICK x : x = sync[s]
    OBVIOUS
  <2>3. Carried(x, row, file')
    <3>1. x.uploaded \in Files => file'[x.uploaded] = file[x.uploaded]
      BY <1>1, <1>7, <2>2
    <3> QED
      BY <2>1, <2>2, <3>1 DEF Carried
  <2>4. \A d \in Docs : row[d].status = "READY" => file'[row[d].file] = file[row[d].file]
    BY <1>5, <1>7, ReadyFile
  <2>5. Listed(x, row, file')
    BY <2>1, <2>2, <2>4 DEF Listed
  <2>6. AttachedIn(file') = AttachedIn(file)
    BY <1>1, <1>3, <1>7 DEF AttachedIn
  <2>7. \A d \in Docs : Done(x, d, row, file) => Done(x, d, row, file')
    BY <2>4 DEF Done
  <2>8. Progress(x, row, file')
    BY <2>1, <2>2, <2>6, <2>7 DEF Progress
  <2> QED
    BY <1>1, <2>1, <2>2, <2>3, <2>5, <2>8 DEF Command
<1> QED
  BY <1>1, <1>7, <1>8, <1>9 DEF KnowledgeInv

-----------------------------------------------------------------------------
(* The plan *)

LEMMA CommandStopsKeeps ==
    ASSUME Alone, Alone', KnowledgeInv, NEW s \in Syncs, CommandStops(s) \/ FinishSync(s)
    PROVE  KnowledgeInv'
<1>1. PICK y : y = Idle
  OBVIOUS
<1>2. /\ sync' = [sync EXCEPT ![s] = y] /\ (spent' = spent \/ Fault)
      /\ corpus' = corpus /\ row' = row /\ file' = file /\ sealed' = sealed
      /\ sync[s].step # "idle"
  BY <1>1 DEF CommandStops, FinishSync
<1>3. y \in SyncType /\ Command(y, row, file)
  BY <1>1, IdleRule DEF Idle
<1> QED
  BY <1>1, <1>2, <1>3, OnlyTheCommand

LEMMA StartSyncKeeps ==
    ASSUME Alone, Alone', KnowledgeInv, NEW s \in Syncs, StartSync(s)
    PROVE  KnowledgeInv'
<1>1. PICK y : y = [Idle EXCEPT !.step = "list", !.manifest = corpus]
  OBVIOUS
<1>2. /\ sync' = [sync EXCEPT ![s] = y] /\ spent' = spent
      /\ corpus' = corpus /\ row' = row /\ file' = file /\ sealed' = sealed
  BY <1>1 DEF StartSync
<1>3. y \in SyncType /\ y.step = "list" /\ y.manifest = corpus /\ y.todo = {}
  BY <1>1, Before, IdleRule DEF Idle, SyncType
<1>4. Command(y, row, file)
  BY <1>3, IdleRule
<1> QED
  BY <1>2, <1>3, <1>4, OnlyTheCommand

LEMMA ListStoreKeeps ==
    ASSUME Alone, Alone', KnowledgeInv, NEW s \in Syncs, ListStore(s)
    PROVE  KnowledgeInv'
<1>1. PICK x, y : x = sync[s] /\ y = [x EXCEPT !.step = "plan", !.present = Attached]
  OBVIOUS
<1>2. /\ x.step = "list" /\ spent' = spent /\ sync' = [sync EXCEPT ![s] = y]
      /\ corpus' = corpus /\ row' = row /\ file' = file /\ sealed' = sealed
  BY <1>1 DEF ListStore
<1>3. x \in SyncType /\ Planned(x, row)
  BY <1>1, Before
<1>4. /\ y \in SyncType /\ y.step = "plan" /\ y.present = Attached
      /\ y.manifest = x.manifest /\ y.todo = x.todo
  BY <1>1, <1>3 DEF SyncType, Attached
<1>5. Planned(y, row) /\ Carried(y, row, file) /\ Progress(y, row, file)
  <2>1. y.step \notin InHand /\ x.step \notin InHand
    BY <1>2, <1>4 DEF InHand, Indexing, Removing
  <2>2. y.todo = {}
    BY <1>2, <1>3, <1>4, <2>1 DEF Planned
  <2> QED
    BY <1>4, <2>1, <2>2 DEF Planned, Carried, Progress
<1>6. Listed(y, row, file)
  BY <1>4, ReadyFile DEF Listed, Attached
<1> QED
  BY <1>1, <1>2, <1>4, <1>5, <1>6, OnlyTheCommand DEF Command

\* Each document has at most one action in a plan, and none only when it needs none.
LEMMA PlanFits ==
    ASSUME KnowledgeInv, NEW manifest \in [Docs -> Entries], NEW present \in SUBSET Files
    PROVE  /\ PlanOf(manifest, present) \subseteq ActionType
           /\ \A a \in PlanOf(manifest, present) :
                /\ a.doc \in Docs /\ a.previous = row[a.doc].file
                /\ a.type \in {"upload", "replace", "remove"}
                /\ a.type = "upload" => ToUpload(manifest, present, a.doc)
                /\ a.type = "replace" => ToReplace(manifest, present, a.doc)
                /\ a.type = "remove" => ToRemove(manifest, a.doc)
           /\ \A a, b \in PlanOf(manifest, present) : a.doc = b.doc => a = b
           /\ \A d \in Docs :
                ToUpload(manifest, present, d) \/ ToReplace(manifest, present, d)
                   \/ ToRemove(manifest, d)
                => \E a \in PlanOf(manifest, present) : a.doc = d
<1>1. \A d \in Docs : row[d].file \in 0..MaxFiles
  BY DEF KnowledgeInv, KnowledgeShape, DocRows, DocRow
<1>2. \A a \in PlanOf(manifest, present) :
        \/ \E d \in Docs : a = Action("upload", d) /\ ToUpload(manifest, present, d)
        \/ \E d \in Docs : a = Action("replace", d) /\ ToReplace(manifest, present, d)
        \/ \E d \in Docs : a = Action("remove", d) /\ ToRemove(manifest, d)
  BY DEF PlanOf
<1>3. \A type, d : /\ Action(type, d).type = type /\ Action(type, d).doc = d
                   /\ Action(type, d).previous = row[d].file
  BY DEF Action
<1>4. ASSUME NEW a \in PlanOf(manifest, present)
      PROVE  /\ a = [type |-> a.type, doc |-> a.doc, previous |-> a.previous]
             /\ a.doc \in Docs /\ a.previous = row[a.doc].file
             /\ a.type \in {"upload", "replace", "remove"}
             /\ a.type = "upload" => ToUpload(manifest, present, a.doc)
             /\ a.type = "replace" => ToReplace(manifest, present, a.doc)
             /\ a.type = "remove" => ToRemove(manifest, a.doc)
  BY <1>2, <1>3 DEF Action
<1>5. PlanOf(manifest, present) \subseteq ActionType
  <2> SUFFICES ASSUME NEW a \in PlanOf(manifest, present) PROVE a \in ActionType
    OBVIOUS
  <2> QED
    BY <1>1, <1>4 DEF ActionType
<1>6. ASSUME NEW a \in PlanOf(manifest, present), NEW b \in PlanOf(manifest, present),
             a.doc = b.doc
      PROVE  a = b
  <2>1. a.type = b.type
    BY <1>4, <1>6 DEF ToReplace, ToUpload, ToRemove
  <2> QED
    BY <1>4, <1>6, <2>1
<1>7. ASSUME NEW d \in Docs,
             ToUpload(manifest, present, d) \/ ToReplace(manifest, present, d)
                \/ ToRemove(manifest, d)
      PROVE  \E a \in PlanOf(manifest, present) : a.doc = d
  <2>1. \E type : Action(type, d) \in PlanOf(manifest, present)
    BY <1>7 DEF PlanOf
  <2> QED
    BY <1>3, <2>1
<1> QED
  BY <1>4, <1>5, <1>6, <1>7

LEMMA PlanKeeps ==
    ASSUME Alone, Alone', KnowledgeInv, NEW s \in Syncs, Plan(s)
    PROVE  KnowledgeInv'
<1>1. PICK x, y : x = sync[s] /\ y = [x EXCEPT !.step = "next",
                                               !.todo = PlanOf(x.manifest, x.present)]
  OBVIOUS
<1>2. /\ x.step = "plan" /\ spent' = spent /\ sync' = [sync EXCEPT ![s] = y]
      /\ corpus' = corpus /\ row' = row /\ file' = file /\ sealed' = sealed
  BY <1>1 DEF Plan
<1>3. x \in SyncType /\ Listed(x, row, file)
  BY <1>1, Before
<1>4. x.manifest \in [Docs -> Entries] /\ x.present \in SUBSET Files
  BY <1>3 DEF SyncType
<1>5. /\ y \in SyncType /\ y.step = "next" /\ y.present = x.present
      /\ y.manifest = x.manifest /\ y.todo = PlanOf(x.manifest, x.present)
  BY <1>1, <1>3, <1>4, PlanFits DEF SyncType
<1>6. y.step \notin InHand
  BY <1>5 DEF InHand, Indexing, Removing
<1>7. Planned(y, row)
  <2>1. ASSUME NEW a \in y.todo
        PROVE  Justified(y, a) /\ a.previous = row[a.doc].file
               /\ (a.type = "replace" => row[a.doc].status = "READY")
    <3>1. /\ a.doc \in Docs /\ a.previous = row[a.doc].file
          /\ a.type \in {"upload", "replace", "remove"}
          /\ a.type = "upload" => ToUpload(y.manifest, y.present, a.doc)
          /\ a.type = "replace" => ToReplace(y.manifest, y.present, a.doc)
          /\ a.type = "remove" => ToRemove(y.manifest, a.doc)
      BY <1>4, <1>5, <2>1, PlanFits
    <3>2. a.type = "remove" => y.manifest[a.doc].as # "approved"
      BY <3>1 DEF ToRemove, Protected
    <3>3. a.type # "remove" => Approved(y.manifest[a.doc])
      BY <3>1 DEF ToUpload, ToReplace
    <3>4. a.type = "replace" => row[a.doc].status = "READY"
      BY <3>1 DEF ToReplace, ToUpload
    <3>5. Approved(y.manifest[a.doc]) => y.manifest[a.doc].as = "approved"
      BY DEF Approved
    <3> QED
      BY <3>1, <3>2, <3>3, <3>4, <3>5 DEF Justified
  <2>2. \A a, b \in y.todo : a.doc = b.doc => a = b
    BY <1>4, <1>5, PlanFits
  <2> QED
    BY <1>5, <1>6, <2>1, <2>2 DEF Planned
<1>8. Carried(y, row, file)
  BY <1>6 DEF Carried
<1>9. Listed(y, row, file)
  BY <1>2, <1>3, <1>5 DEF Listed
<1>10. Progress(y, row, file)
  <2>1. ASSUME NEW d \in Docs, ~ToUpload(y.manifest, y.present, d),
               ~ToReplace(y.manifest, y.present, d), ~ToRemove(y.manifest, d)
        PROVE  Done(y, d, row, file)
    <3>1. CASE Approved(y.manifest[d])
      <4>1. /\ row[d].status = "READY" /\ row[d].file \in y.present
            /\ row[d].text = y.manifest[d].text
        BY <2>1, <3>1 DEF ToUpload, ToReplace
      <4>2. file[row[d].file].state = "completed"
        BY <1>5, <1>9, <4>1 DEF Listed
      <4> QED
        BY <3>1, <4>1, <4>2 DEF Done, Approved
    <3>2. CASE y.manifest[d].as # "approved"
      <4>1. row[d].status = "absent" \/ (row[d].status = "REMOVED" /\ row[d].file = NoFile)
        BY <2>1, <3>2 DEF ToRemove, Protected, Approved
      <4>2. row[d].status # "READY" /\ row[d].file = NoFile
        BY <4>1, Before DEF KnowledgeTypeOK
      <4> QED
        BY <3>2, <4>2 DEF Done, Approved
    <3>3. CASE ~Approved(y.manifest[d]) /\ y.manifest[d].as = "approved"
      BY <3>3 DEF Done
    <3> QED
      BY <3>1, <3>2, <3>3
  <2>2. \A d \in Docs : Done(y, d, row, file) \/ \E a \in y.todo : a.doc = d
    BY <1>4, <1>5, <2>1, PlanFits
  <2> QED
    BY <1>5, <2>2 DEF Progress
<1> QED
  BY <1>1, <1>2, <1>5, <1>7, <1>8, <1>9, <1>10, OnlyTheCommand DEF Command

LEMMA NextActionKeeps ==
    ASSUME Alone, Alone', KnowledgeInv, NEW s \in Syncs, NEW a \in sync[s].todo, NextAction(s, a)
    PROVE  KnowledgeInv'
<1>1. PICK x, y : x = sync[s] /\ y = [x EXCEPT !.step = FirstStep[a.type], !.doing = a,
                                               !.todo = @ \ {a}]
  OBVIOUS
<1>2. /\ x.step = "next" /\ spent' = spent /\ sync' = [sync EXCEPT ![s] = y]
      /\ corpus' = corpus /\ row' = row /\ file' = file /\ sealed' = sealed
  BY <1>1 DEF NextAction
<1>3. /\ x \in SyncType /\ Planned(x, row) /\ Listed(x, row, file) /\ Progress(x, row, file)
      /\ a \in x.todo
  BY <1>1, Before
<1>4. /\ Justified(x, a) /\ a.previous = row[a.doc].file
      /\ a.type = "replace" => row[a.doc].status = "READY"
      /\ a \in ActionType
  BY <1>3 DEF Planned, SyncType
<1>5. /\ a.type \in {"upload", "replace", "remove"} /\ a.doc \in Docs
      /\ FirstStep[a.type] = IF a.type = "upload" THEN "markIndexing"
                             ELSE IF a.type = "replace" THEN "create" ELSE "markRemoved"
  BY <1>4 DEF Justified, ActionType, FirstStep
<1>6. /\ y \in SyncType /\ y.step = FirstStep[a.type] /\ y.doing = a /\ y.todo = x.todo \ {a}
      /\ y.manifest = x.manifest /\ y.present = x.present /\ y.failed = x.failed
  BY <1>1, <1>3, <1>4, <1>5 DEF SyncType, InHand, Indexing, Removing
<1>7. y.step \in InHand \ {"removePrevious"}
  BY <1>5, <1>6 DEF InHand, Indexing, Removing
<1>8. Planned(y, row)
  <2>1. ASSUME NEW b \in y.todo
        PROVE  /\ Justified(y, b) /\ b.previous = row[b.doc].file
               /\ b.type = "replace" => row[b.doc].status = "READY"
               /\ b.doc # a.doc
    BY <1>3, <1>6 DEF Planned, Justified
  <2>2. \A b, c \in y.todo : b.doc = c.doc => b = c
    BY <1>3, <1>6 DEF Planned
  <2> QED
    BY <1>6, <1>7, <2>1, <2>2 DEF Planned
<1>9. Carried(y, row, file)
  BY <1>4, <1>5, <1>6 DEF Carried, Justified, Indexing, Removing
<1>10. Listed(y, row, file)
  BY <1>2, <1>3, <1>6 DEF Listed
<1>11. Progress(y, row, file)
  <2>1. \A d \in Docs : Done(x, d, row, file) => Done(y, d, row, file)
    BY <1>6 DEF Done
  <2>2. \A d \in Docs : Done(x, d, row, file) \/ \E b \in x.todo : b.doc = d
    BY <1>2, <1>3 DEF Progress, InHand, Indexing, Removing
  <2>3. y.step # "cleanup"
    BY <1>7 DEF InHand, Indexing, Removing
  <2> QED
    BY <1>6, <1>7, <2>1, <2>2, <2>3 DEF Progress
<1> QED
  BY <1>1, <1>2, <1>6, <1>7, <1>8, <1>9, <1>10, <1>11, OnlyTheCommand
  DEF Command, InHand, Indexing, Removing

-----------------------------------------------------------------------------
(* The action in hand *)

\* Another step is all that changes.
LEMMA GoesTo ==
    ASSUME KnowledgeInv, NEW s \in Syncs, NEW step \in InHand, GoTo(s, step)
    PROVE  \E y \in SyncType :
             /\ sync' = [sync EXCEPT ![s] = y] /\ y = [sync[s] EXCEPT !.step = step]
             /\ y.step = step /\ y.manifest = sync[s].manifest /\ y.todo = sync[s].todo
             /\ y.present = sync[s].present /\ y.doing = sync[s].doing
             /\ y.failed = sync[s].failed /\ y.uploaded = sync[s].uploaded
<1>1. PICK y : y = [sync[s] EXCEPT !.step = step]
  OBVIOUS
<1>2. sync[s] \in SyncType
  BY Before
<1>3. y \in SyncType
  BY <1>1, <1>2 DEF SyncType
<1>4. /\ y.step = step /\ y.manifest = sync[s].manifest /\ y.todo = sync[s].todo
      /\ y.present = sync[s].present /\ y.doing = sync[s].doing
      /\ y.failed = sync[s].failed /\ y.uploaded = sync[s].uploaded
  BY <1>1, <1>2 DEF SyncType
<1>5. sync' = [sync EXCEPT ![s] = y]
  BY <1>1 DEF GoTo
<1> QED
  BY <1>1, <1>3, <1>4, <1>5

\* The action ends.
LEMMA EndsAction ==
    ASSUME KnowledgeInv, NEW s \in Syncs, NEW b \in BOOLEAN, EndAction(s, b)
    PROVE  \E y \in SyncType :
             /\ sync' = [sync EXCEPT ![s] = y]
             /\ y.step = "next" /\ y.manifest = sync[s].manifest /\ y.todo = sync[s].todo
             /\ y.present = sync[s].present /\ y.failed = (sync[s].failed \/ b)
<1>1. PICK y : y = [sync[s] EXCEPT !.step = "next", !.doing = NoAction, !.uploaded = NoFile,
                                   !.failed = @ \/ b]
  OBVIOUS
<1>2. sync[s] \in SyncType
  BY Before
<1>3. NoAction \in ActionType /\ NoFile \in 0..MaxFiles
  BY KnowledgeAssumption DEF NoAction, ActionType, NoFile
<1>4. (sync[s].failed \/ b) \in BOOLEAN
  OBVIOUS
<1>5. y \in SyncType
  BY <1>1, <1>2, <1>3, <1>4 DEF SyncType
<1>6. /\ y.step = "next" /\ y.manifest = sync[s].manifest /\ y.todo = sync[s].todo
      /\ y.present = sync[s].present /\ y.failed = (sync[s].failed \/ b)
  BY <1>1, <1>2 DEF SyncType
<1>7. sync' = [sync EXCEPT ![s] = y]
  BY <1>1 DEF EndAction
<1> QED
  BY <1>5, <1>6, <1>7

\* The action ends: its document is done.
LEMMA EndsWell ==
    ASSUME KnowledgeInv, NEW s \in Syncs, NEW y \in SyncType, NEW d \in Docs,
           NEW after \in DocRows, NEW store \in Store,
           sync[s].step \in InHand, sync[s].doing.doc = d, y.step = "next",
           y.manifest = sync[s].manifest, y.todo = sync[s].todo, y.present = sync[s].present,
           sync[s].failed => y.failed, Done(y, d, after, store),
           \A e \in Docs : e # d => after[e] = row[e],
           \A e \in Docs : e # d /\ row[e].status = "READY" =>
                               store[row[e].file] = file[row[e].file],
           after[d].status = "READY" /\ after[d].file \in sync[s].present =>
                               store[after[d].file].state = "completed"
    PROVE  Command(y, after, store)
<1>1. PICK x, rows, files : x = sync[s] /\ rows = row /\ files = file
  OBVIOUS
<1>2. /\ x \in SyncType /\ rows \in DocRows /\ files \in Store
      /\ Planned(x, rows) /\ Listed(x, rows, files) /\ Progress(x, rows, files)
  BY <1>1, Before
<1>3. y.step \in InHand \cup {"next"} /\ y.step \notin InHand
  BY DEF InHand, Indexing, Removing
<1>4. Planned(y, after) /\ Listed(y, after, store) /\ Progress(y, after, store)
  BY <1>1, <1>2, <1>3, GoesOn
<1>5. Carried(y, after, store)
  BY <1>3 DEF Carried
<1> QED
  BY <1>4, <1>5 DEF Command

\* A step that leaves rows and files as they are and goes on with the action.
LEMMA OnlyGoesOn ==
    ASSUME Alone, Alone', KnowledgeInv, NEW s \in Syncs, NEW y \in SyncType,
           sync' = [sync EXCEPT ![s] = y], spent' = spent \/ Fault,
           corpus' = corpus, row' = row, file' = file, sealed' = sealed,
           sync[s].step \in InHand \ {"removePrevious"}, y.step \in InHand \ {"removePrevious"},
           y.manifest = sync[s].manifest, y.todo = sync[s].todo, y.present = sync[s].present,
           sync[s].failed => y.failed, y.doing = sync[s].doing, Carried(y, row, file)
    PROVE  KnowledgeInv'
<1>1. Planned(y, row) /\ Listed(y, row, file) /\ Progress(y, row, file)
  BY StaysInHand, Before
<1>2. y.step # "idle"
  BY DEF InHand, Indexing, Removing
<1> QED
  BY <1>1, <1>2, OnlyTheCommand DEF Command

\* What is known of the action in hand.
LEMMA ActionFacts ==
    ASSUME KnowledgeInv, NEW s \in Syncs, sync[s].step \in InHand
    PROVE  /\ sync[s].doing \in ActionType /\ sync[s].doing.doc \in Docs
           /\ sync[s].doing.type \in {"upload", "replace", "remove"}
           /\ sync[s].manifest[sync[s].doing.doc] \in Entries
           /\ sync[s].doing.type = "remove"
                 <=> sync[s].manifest[sync[s].doing.doc].as # "approved"
           /\ sync[s].doing.type # "remove" => Approved(sync[s].manifest[sync[s].doing.doc])
           /\ row[sync[s].doing.doc] \in DocRow
<1>1. PICK x, a, d : x = sync[s] /\ a = x.doing /\ d = a.doc
  OBVIOUS
<1>2. x \in SyncType /\ Carried(x, row, file) /\ row \in DocRows
  BY <1>1, Before
<1>3. a \in ActionType /\ x.manifest \in [Docs -> Entries]
  BY <1>1, <1>2 DEF SyncType
<1>4. Justified(x, a)
  BY <1>1, <1>2 DEF Carried
<1>5. d \in Docs /\ a.type \in {"upload", "replace", "remove"}
  BY <1>1, <1>3, <1>4 DEF Justified, ActionType
<1>6. row[d] \in DocRow
  BY <1>2, <1>5 DEF DocRows
<1> QED
  BY <1>1, <1>3, <1>4, <1>5, <1>6 DEF Justified

\* An upload or a replacement that is about to record its failure.
LEMMA FailureIsCarried ==
    ASSUME KnowledgeInv, NEW s \in Syncs, NEW y \in SyncType, NEW files,
           sync[s].step \in Indexing, y.step = "indexFailed",
           y.doing = sync[s].doing, y.manifest = sync[s].manifest
    PROVE  Carried(y, row, files)
<1>1. PICK a, d : a = sync[s].doing /\ d = a.doc
  OBVIOUS
<1>2. sync[s].step \in InHand
  BY DEF InHand
<1>3. /\ Justified(sync[s], a) /\ a.type # "remove"
      /\ a.type = "upload" => row[d].status = "INDEXING" /\ row[d].file = NoFile
      /\ a.type = "replace" => row[d].status = "READY" /\ row[d].file = a.previous
  BY <1>1, <1>2, Before DEF Carried
<1>4. Justified(y, a)
  BY <1>3 DEF Justified
<1> QED
  BY <1>1, <1>3, <1>4 DEF Carried, Removing

LEMMA CreateFileFailsKeeps ==
    ASSUME Alone, Alone', KnowledgeInv, NEW s \in Syncs, CreateFileFails(s)
    PROVE  KnowledgeInv'
<1>1. /\ sync[s].step = "create" /\ GoTo(s, "indexFailed") /\ Fault
      /\ corpus' = corpus /\ row' = row /\ file' = file /\ sealed' = sealed
  BY DEF CreateFileFails
<1>2. {"create", "indexFailed"} \subseteq InHand \ {"removePrevious"}
  BY DEF InHand, Indexing, Removing
<1>3. PICK y \in SyncType :
             /\ sync' = [sync EXCEPT ![s] = y] /\ y = [sync[s] EXCEPT !.step = "indexFailed"]
             /\ y.step = "indexFailed" /\ y.manifest = sync[s].manifest /\ y.todo = sync[s].todo
             /\ y.present = sync[s].present /\ y.doing = sync[s].doing
             /\ y.failed = sync[s].failed /\ y.uploaded = sync[s].uploaded
  BY <1>1, <1>2, GoesTo
<1>4. Carried(y, row, file)
  <2>1. sync[s].step \in Indexing
    BY <1>1 DEF Indexing
  <2> QED
    BY <1>3, <2>1, FailureIsCarried
<1> QED
  BY <1>1, <1>2, <1>3, <1>4, OnlyGoesOn

LEMMA MarkReadyFailsKeeps ==
    ASSUME Alone, Alone', KnowledgeInv, NEW s \in Syncs, MarkReadyFails(s)
    PROVE  KnowledgeInv'
<1>1. /\ sync[s].step = "markReady" /\ Fault
      /\ corpus' = corpus /\ row' = row /\ file' = file /\ sealed' = sealed
  BY DEF MarkReadyFails
<1>2. {"markReady", "indexFailed"} \subseteq InHand \ {"removePrevious"}
  BY DEF InHand, Indexing, Removing
<1>3. CASE sync[s].doing.type = "upload"
  <2>1. PICK x, y : x = sync[s] /\ y = [x EXCEPT !.step = "indexFailed", !.uploaded = NoFile]
    OBVIOUS
  <2>2. sync' = [sync EXCEPT ![s] = y]
    BY <1>3, <2>1 DEF MarkReadyFails
  <2>3. x \in SyncType /\ NoFile \in 0..MaxFiles
    BY <2>1, Before, KnowledgeAssumption DEF NoFile
  <2>4. y \in SyncType
    BY <1>2, <2>1, <2>3 DEF SyncType
  <2>5. /\ y.step = "indexFailed" /\ y.manifest = x.manifest /\ y.todo = x.todo
        /\ y.present = x.present /\ y.doing = x.doing /\ y.failed = x.failed
    BY <2>1, <2>3 DEF SyncType
  <2>6. Carried(y, row, file)
    <3>1. sync[s].step \in Indexing
      BY <1>1 DEF Indexing
    <3> QED
      BY <2>1, <2>4, <2>5, <3>1, FailureIsCarried
  <2> QED
    BY <1>1, <1>2, <2>1, <2>2, <2>4, <2>5, <2>6, OnlyGoesOn
<1>4. CASE sync[s].doing.type # "upload"
  <2>1. PICK y \in SyncType :
             /\ sync' = [sync EXCEPT ![s] = y]
             /\ y.step = "next" /\ y.manifest = sync[s].manifest /\ y.todo = sync[s].todo
             /\ y.present = sync[s].present /\ y.failed = (sync[s].failed \/ TRUE)
    BY <1>4, EndsAction DEF MarkReadyFails
  <2>2. PICK x, d : x = sync[s] /\ d = x.doing.doc
    OBVIOUS
  <2>3. /\ d \in Docs /\ x \in SyncType /\ Planned(x, row) /\ Listed(x, row, file)
        /\ Progress(x, row, file) /\ row \in DocRows /\ file \in Store
    BY <1>1, <1>2, <2>2, ActionFacts, Before
  <2>4. Done(y, d, row, file)
    <3>1. x.manifest[d].as = "approved"
      BY <1>1, <1>2, <2>2, ActionFacts, Before DEF Carried, Indexing
    <3> QED
      BY <2>1, <2>2, <3>1 DEF Done
  <2>5. row[d].status = "READY" /\ row[d].file \in x.present => file[row[d].file].state = "completed"
    BY <1>1, <2>2, <2>3 DEF Listed
  <2>6. Command(y, row, file)
    BY <1>1, <1>2, <2>1, <2>2, <2>3, <2>4, <2>5, EndsWell
  <2> QED
    BY <1>1, <2>1, <2>6, OnlyTheCommand
<1> QED
  BY <1>3, <1>4

-----------------------------------------------------------------------------
(* Steps that write the row of the action in hand *)

\* The action goes on.
LEMMA GoesWell ==
    ASSUME KnowledgeInv, NEW s \in Syncs, NEW y \in SyncType, NEW d \in Docs,
           NEW after \in DocRows, NEW store \in Store,
           sync[s].step \in InHand, sync[s].doing.doc = d, y.step \in InHand,
           y.manifest = sync[s].manifest, y.todo = sync[s].todo, y.present = sync[s].present,
           y.failed = sync[s].failed, y.doing = sync[s].doing,
           y.step # "removePrevious" \/ Done(y, d, after, store),
           \A e \in Docs : e # d => after[e] = row[e],
           \A e \in Docs : e # d /\ row[e].status = "READY" =>
                               store[row[e].file] = file[row[e].file],
           after[d].status = "READY" /\ after[d].file \in sync[s].present =>
                               store[after[d].file].state = "completed",
           Carried(y, after, store)
    PROVE  Command(y, after, store)
<1>1. PICK x, rows, files : x = sync[s] /\ rows = row /\ files = file
  OBVIOUS
<1>2. /\ x \in SyncType /\ rows \in DocRows /\ files \in Store
      /\ Planned(x, rows) /\ Listed(x, rows, files) /\ Progress(x, rows, files)
  BY <1>1, Before
<1>3. y.step \in InHand \cup {"next"}
  OBVIOUS
<1>4. Planned(y, after) /\ Listed(y, after, store) /\ Progress(y, after, store)
  BY <1>1, <1>2, <1>3, GoesOn
<1> QED
  BY <1>4 DEF Command

\* A step that writes the row of the document of the action in hand, and no file.
LEMMA WritesRow ==
    ASSUME KnowledgeInv, NEW s \in Syncs, NEW y \in SyncType, NEW d \in Docs, NEW after \in DocRows,
           sync[s].step \in InHand, sync[s].doing.doc = d,
           y.manifest = sync[s].manifest, y.todo = sync[s].todo, y.present = sync[s].present,
           \A e \in Docs : e # d => after[e] = row[e],
           after[d].status = "READY" /\ after[d].file \in sync[s].present =>
                               file[after[d].file].state = "completed",
           \/ y.step = "next" /\ Done(y, d, after, file) /\ (sync[s].failed => y.failed)
           \/ /\ y.step \in InHand /\ y.doing = sync[s].doing /\ y.failed = sync[s].failed
              /\ y.step # "removePrevious" \/ Done(y, d, after, file)
              /\ Carried(y, after, file)
    PROVE  Command(y, after, file)
<1>1. PICK store : store = file
  OBVIOUS
<1>2. store \in Store
  BY <1>1, Before
<1>3. CASE y.step = "next" /\ Done(y, d, after, file) /\ (sync[s].failed => y.failed)
  BY <1>1, <1>2, <1>3, EndsWell
<1>4. CASE /\ y.step \in InHand /\ y.doing = sync[s].doing /\ y.failed = sync[s].failed
           /\ y.step # "removePrevious" \/ Done(y, d, after, file)
           /\ Carried(y, after, file)
  BY <1>1, <1>2, <1>4, GoesWell
<1> QED
  BY <1>3, <1>4

LEMMA RowStep ==
    ASSUME Alone, Alone', KnowledgeInv, NEW s \in Syncs, NEW y \in SyncType, NEW d \in Docs,
           NEW r \in DocRow, sync' = [sync EXCEPT ![s] = y], row' = [row EXCEPT ![d] = r],
           corpus' = corpus, file' = file, sealed' = sealed, spent' = spent,
           r.file # NoFile => r.status \in {"READY", "REMOVED"},
           r.status = "READY" =>
              /\ r.file # NoFile /\ file[r.file].doc = d /\ file[r.file].text = r.text
              /\ file[r.file].state = "completed"
                    \/ (file[r.file].state = "stored" /\ spent.swaps > 0),
           r.file = row[d].file \/ r.file = NoFile \/ r.file \notin Referenced,
           y.step # "idle", y.manifest = sync[s].manifest, Command(y, row', file)
    PROVE  KnowledgeInv'
<1>1. spent' \in [edits : Nat, faults : Nat, swaps : Nat] /\ spent'.swaps = spent.swaps
  BY FaultCounts
<1>2. KnowledgeTypeOK' /\ ReadyIsIndexed' /\ row' \in DocRows
  BY <1>1, RowChanges
<1>3. FilesSealed' /\ file' \in Store /\ Command(y, row', file')
  BY Before DEF FilesSealed
<1> QED
  BY <1>1, <1>2, <1>3, After

LEMMA MarkIndexingKeeps ==
    ASSUME Alone, Alone', KnowledgeInv, NEW s \in Syncs, MarkIndexing(s)
    PROVE  KnowledgeInv'
<1>1. PICK d, r : /\ d = sync[s].doing.doc
                  /\ r = [status |-> "INDEXING", file |-> NoFile,
                          text |-> sync[s].manifest[d].text]
  OBVIOUS
<1>2. /\ sync[s].step = "markIndexing" /\ GoTo(s, "create") /\ row' = [row EXCEPT ![d] = r]
      /\ corpus' = corpus /\ file' = file /\ sealed' = sealed /\ spent' = spent
  BY <1>1 DEF MarkIndexing
<1>3. {"markIndexing", "create"} \subseteq InHand \ {"removePrevious"}
  BY DEF InHand, Indexing, Removing
<1>4. PICK y \in SyncType :
             /\ sync' = [sync EXCEPT ![s] = y] /\ y = [sync[s] EXCEPT !.step = "create"]
             /\ y.step = "create" /\ y.manifest = sync[s].manifest /\ y.todo = sync[s].todo
             /\ y.present = sync[s].present /\ y.doing = sync[s].doing
             /\ y.failed = sync[s].failed /\ y.uploaded = sync[s].uploaded
  BY <1>2, <1>3, GoesTo
<1>5. d \in Docs /\ sync[s].manifest[d] \in Entries
  BY <1>1, <1>2, <1>3, ActionFacts
<1>6. r \in DocRow /\ r.status = "INDEXING" /\ r.file = NoFile
  BY <1>1, <1>5, EntryShape, KnowledgeAssumption DEF DocRow, Statuses, NoFile
<1>7. PICK after : after = row'
  OBVIOUS
<1>8. after \in DocRows /\ after[d] = r /\ \A e \in Docs : e # d => after[e] = row[e]
  BY <1>2, <1>5, <1>6, <1>7, Before DEF DocRows
<1>9. Carried(y, after, file)
  <2>1. /\ Justified(sync[s], sync[s].doing) /\ sync[s].doing.type = "upload"
    BY <1>2, <1>3, Before DEF Carried
  <2> QED
    BY <1>1, <1>4, <1>6, <1>8, <2>1 DEF Carried, Justified, Indexing, Removing
<1>10. Command(y, after, file)
  BY <1>1, <1>2, <1>3, <1>4, <1>5, <1>6, <1>8, <1>9, WritesRow
<1> QED
  BY <1>2, <1>4, <1>5, <1>6, <1>7, <1>10, RowStep

LEMMA MarkReadyKeeps ==
    ASSUME Alone, Alone', KnowledgeInv, NEW s \in Syncs, MarkReady(s)
    PROVE  KnowledgeInv'
<1>1. PICK d, f, r, a : /\ a = sync[s].doing /\ d = a.doc /\ f = sync[s].uploaded
                        /\ r = [status |-> "READY", file |-> f,
                                text |-> sync[s].manifest[d].text]
  OBVIOUS
<1>2. /\ sync[s].step = "markReady" /\ row' = [row EXCEPT ![d] = r]
      /\ corpus' = corpus /\ file' = file /\ sealed' = sealed /\ spent' = spent
      /\ IF a.type = "replace" THEN GoTo(s, "removePrevious") ELSE EndAction(s, FALSE)
  BY <1>1 DEF MarkReady
<1>3. "markReady" \in InHand /\ "removePrevious" \in InHand /\ "markReady" \in Indexing
  BY DEF InHand, Indexing, Removing
<1>4. /\ d \in Docs /\ sync[s].manifest[d] \in Entries /\ a.type \in {"upload", "replace"}
      /\ sync[s].manifest[d].as = "approved" /\ Justified(sync[s], a)
  BY <1>1, <1>2, <1>3, ActionFacts, Before DEF Carried
<1>5. /\ f \in Files /\ f \notin Named(row) /\ file[f].doc = d
      /\ file[f].text = sync[s].manifest[d].text /\ file[f].state = "completed"
      /\ a.type = "replace" => row[d].status = "READY" /\ row[d].file = a.previous
  BY <1>1, <1>2, <1>3, Before DEF Carried
<1>6. /\ r \in DocRow /\ r.status = "READY" /\ r.file = f /\ r.text = sync[s].manifest[d].text
      /\ f # NoFile
  BY <1>1, <1>4, <1>5, EntryShape, KnowledgeAssumption DEF DocRow, Statuses, Files, NoFile
<1>7. PICK after : after = row'
  OBVIOUS
<1>8. after \in DocRows /\ after[d] = r /\ \A e \in Docs : e # d => after[e] = row[e]
  BY <1>2, <1>4, <1>6, <1>7, Before DEF DocRows
<1>9. ASSUME NEW y \in SyncType, y.manifest = sync[s].manifest
      PROVE  Done(y, d, after, file)
  BY <1>4, <1>5, <1>6, <1>8, <1>9 DEF Done
<1>10. CASE a.type = "replace"
  <2>1. PICK y \in SyncType :
             /\ sync' = [sync EXCEPT ![s] = y] /\ y = [sync[s] EXCEPT !.step = "removePrevious"]
             /\ y.step = "removePrevious" /\ y.manifest = sync[s].manifest
             /\ y.todo = sync[s].todo
             /\ y.present = sync[s].present /\ y.doing = sync[s].doing
             /\ y.failed = sync[s].failed /\ y.uploaded = sync[s].uploaded
    BY <1>2, <1>3, <1>10, GoesTo
  <2>2. a.previous \in Files /\ a.previous \notin Named(after)
    <3>1. /\ a.previous \in Files /\ a.previous \in Referenced
          /\ \A e \in Docs : row[e].file = a.previous => e = d
      BY <1>4, <1>5, <1>10, ReadyFile
    <3>2. a.previous # f
      BY <1>5, <3>1 DEF Named, Referenced
    <3>3. \A e \in Docs : after[e].file # a.previous
      BY <1>6, <1>8, <3>1, <3>2
    <3> QED
      BY <3>1, <3>3 DEF Named
  <2>3. Carried(y, after, file)
    BY <1>1, <1>4, <1>10, <2>1, <2>2 DEF Carried, Justified, Indexing, Removing
  <2>4. Command(y, after, file)
    <3>1. file[after[d].file].state = "completed"
      BY <1>5, <1>6, <1>8
    <3>2. sync[s].step \in InHand /\ sync[s].doing.doc = d /\ y.step \in InHand
      BY <1>1, <1>2, <1>3, <2>1
    <3>3. Done(y, d, after, file)
      BY <1>9, <2>1
    <3> QED
      BY <1>4, <1>8, <2>1, <2>3, <3>1, <3>2, <3>3, WritesRow
  <2> QED
    <3>1. r.file \notin Referenced
      BY <1>5, <1>6 DEF Named, Referenced
    <3>2. /\ r.file # NoFile /\ file[r.file].doc = d /\ file[r.file].text = r.text
          /\ file[r.file].state = "completed"
      BY <1>5, <1>6
    <3>3. Command(y, row', file)
      BY <1>7, <2>4
    <3> QED
      BY <1>2, <1>4, <1>6, <2>1, <3>1, <3>3, <3>2, RowStep
<1>11. CASE a.type = "upload"
  <2>1. PICK y \in SyncType :
             /\ sync' = [sync EXCEPT ![s] = y]
             /\ y.step = "next" /\ y.manifest = sync[s].manifest /\ y.todo = sync[s].todo
             /\ y.present = sync[s].present /\ y.failed = (sync[s].failed \/ FALSE)
    BY <1>2, <1>11, EndsAction
  <2>2. Command(y, after, file)
    <3>1. file[after[d].file].state = "completed"
      BY <1>5, <1>6, <1>8
    <3>2. sync[s].step \in InHand /\ sync[s].doing.doc = d
      BY <1>1, <1>2, <1>3
    <3>3. Done(y, d, after, file) /\ (sync[s].failed => y.failed)
      BY <1>9, <2>1
    <3> QED
      BY <1>4, <1>8, <2>1, <3>1, <3>2, <3>3, WritesRow
  <2> QED
    <3>1. r.file \notin Referenced
      BY <1>5, <1>6 DEF Named, Referenced
    <3>2. /\ r.file # NoFile /\ file[r.file].doc = d /\ file[r.file].text = r.text
          /\ file[r.file].state = "completed"
      BY <1>5, <1>6
    <3>3. Command(y, row', file)
      BY <1>7, <2>2
    <3> QED
      BY <1>2, <1>4, <1>6, <2>1, <3>1, <3>3, <3>2, RowStep
<1> QED
  BY <1>4, <1>10, <1>11

LEMMA RecordIndexFailureKeeps ==
    ASSUME Alone, Alone', KnowledgeInv, NEW s \in Syncs, RecordIndexFailure(s)
    PROVE  KnowledgeInv'
<1>1. PICK a, d, status : /\ a = sync[s].doing /\ d = a.doc
                           /\ status = IF a.type = "upload" THEN "FAILED" ELSE "READY"
  OBVIOUS
<1>2. PICK r : r = [row[d] EXCEPT !.status = status]
  OBVIOUS
<1>3. /\ a = sync[s].doing /\ d = a.doc /\ r = [row[d] EXCEPT !.status = status]
      /\ status = IF a.type = "upload" THEN "FAILED" ELSE "READY"
  BY <1>1, <1>2
<1>4. /\ sync[s].step = "indexFailed" /\ row' = [row EXCEPT ![d] = r] /\ EndAction(s, TRUE)
      /\ corpus' = corpus /\ file' = file /\ sealed' = sealed /\ spent' = spent
  BY <1>3 DEF RecordIndexFailure
<1>5. "indexFailed" \in InHand /\ "indexFailed" \in Indexing
  BY DEF InHand, Indexing, Removing
<1>6. /\ d \in Docs /\ a.type \in {"upload", "replace"} /\ row[d] \in DocRow
      /\ sync[s].manifest[d].as = "approved"
      /\ a.type = "upload" => row[d].status = "INDEXING" /\ row[d].file = NoFile
      /\ a.type = "replace" => row[d].status = "READY"
  BY <1>3, <1>4, <1>5, ActionFacts, Before DEF Carried
<1>7. /\ r \in DocRow /\ r.file = row[d].file /\ r.text = row[d].text
      /\ r.status = IF a.type = "upload" THEN "FAILED" ELSE "READY"
  BY <1>3, <1>6 DEF DocRow, Statuses
<1>8. PICK after : after = row'
  OBVIOUS
<1>9. after \in DocRows /\ after[d] = r /\ \A e \in Docs : e # d => after[e] = row[e]
  BY <1>4, <1>6, <1>7, <1>8, Before DEF DocRows
<1>10. PICK y \in SyncType :
             /\ sync' = [sync EXCEPT ![s] = y]
             /\ y.step = "next" /\ y.manifest = sync[s].manifest /\ y.todo = sync[s].todo
             /\ y.present = sync[s].present /\ y.failed = (sync[s].failed \/ TRUE)
  BY <1>4, EndsAction
<1>11. Done(y, d, after, file)
  BY <1>6, <1>10 DEF Done
<1>12. after[d].status = "READY" =>
         /\ row[d].status = "READY"
         /\ after[d].file \in sync[s].present => file[after[d].file].state = "completed"
  BY <1>4, <1>6, <1>7, <1>9, Before DEF Listed
<1>13. Command(y, after, file)
  <2>1. sync[s].step \in InHand /\ sync[s].doing.doc = d
    BY <1>3, <1>4, <1>5
  <2>2. sync[s].failed => y.failed
    BY <1>10
  <2> QED
    BY <1>6, <1>9, <1>10, <1>11, <1>12, <2>1, <2>2, WritesRow
<1>14. r.status = "READY" =>
          /\ r.file # NoFile /\ file[r.file].doc = d /\ file[r.file].text = r.text
          /\ file[r.file].state = "completed"
                \/ (file[r.file].state = "stored" /\ spent.swaps > 0)
  BY <1>6, <1>7, Before DEF ReadyIsIndexed, KnowledgeTypeOK
<1> QED
  BY <1>4, <1>6, <1>7, <1>8, <1>10, <1>13, <1>14, RowStep

LEMMA MarkRemovedKeeps ==
    ASSUME Alone, Alone', KnowledgeInv, NEW s \in Syncs, MarkRemoved(s)
    PROVE  KnowledgeInv'
<1>1. PICK d, r, a : /\ a = sync[s].doing /\ d = a.doc
                     /\ r = [row[d] EXCEPT !.status = "REMOVED"]
  OBVIOUS
<1>2. /\ sync[s].step = "markRemoved" /\ row' = [row EXCEPT ![d] = r]
      /\ IF a.previous = NoFile THEN EndAction(s, FALSE) ELSE GoTo(s, "removeRemote")
      /\ corpus' = corpus /\ file' = file /\ sealed' = sealed /\ spent' = spent
  BY <1>1 DEF MarkRemoved
<1>3. "markRemoved" \in InHand /\ "markRemoved" \in Removing /\ "removeRemote" \in InHand
  BY DEF InHand, Indexing, Removing
<1>4. /\ d \in Docs /\ a.type = "remove" /\ row[d] \in DocRow /\ row[d].file = a.previous
      /\ sync[s].manifest[d].as # "approved" /\ Justified(sync[s], a)
  BY <1>1, <1>2, <1>3, ActionFacts, Before DEF Carried
<1>5. r \in DocRow /\ r.file = row[d].file /\ r.status = "REMOVED"
  BY <1>1, <1>4 DEF DocRow, Statuses
<1>6. PICK after : after = row'
  OBVIOUS
<1>7. after \in DocRows /\ after[d] = r /\ \A e \in Docs : e # d => after[e] = row[e]
  BY <1>2, <1>4, <1>5, <1>6, Before DEF DocRows
<1>8. CASE a.previous = NoFile
  <2>1. PICK y \in SyncType :
             /\ sync' = [sync EXCEPT ![s] = y]
             /\ y.step = "next" /\ y.manifest = sync[s].manifest /\ y.todo = sync[s].todo
             /\ y.present = sync[s].present /\ y.failed = (sync[s].failed \/ FALSE)
    BY <1>2, <1>8, EndsAction
  <2>2. Done(y, d, after, file)
    BY <1>4, <1>5, <1>7, <1>8, <2>1 DEF Done, Approved
  <2>3. Command(y, after, file)
    <3>1. after[d].status # "READY"
      BY <1>5, <1>7
    <3>2. sync[s].step \in InHand /\ sync[s].doing.doc = d
      BY <1>1, <1>2, <1>3
    <3>3. sync[s].failed => y.failed
      BY <2>1
    <3> QED
      BY <1>4, <1>7, <2>1, <2>2, <3>1, <3>2, <3>3, WritesRow
  <2> QED
    BY <1>2, <1>4, <1>5, <1>6, <2>1, <2>3, RowStep
<1>9. CASE a.previous # NoFile
  <2>1. PICK y \in SyncType :
             /\ sync' = [sync EXCEPT ![s] = y] /\ y = [sync[s] EXCEPT !.step = "removeRemote"]
             /\ y.step = "removeRemote" /\ y.manifest = sync[s].manifest
             /\ y.todo = sync[s].todo
             /\ y.present = sync[s].present /\ y.doing = sync[s].doing
             /\ y.failed = sync[s].failed /\ y.uploaded = sync[s].uploaded
    BY <1>2, <1>3, <1>9, GoesTo
  <2>2. a.previous \in Files
    BY <1>4, <1>9, KnowledgeAssumption DEF DocRow, Files, NoFile
  <2>3. Carried(y, after, file)
    <3>1. /\ y.doing = a /\ a.doc = d /\ after[d].status = "REMOVED"
          /\ after[d].file = a.previous /\ Justified(y, a)
      BY <1>1, <1>4, <1>5, <1>7, <2>1 DEF Justified
    <3>2. y.step = "removeRemote"
      BY <2>1
    <3> QED
      BY <1>4, <2>2, <3>1, <3>2 DEF Carried, Indexing, Removing
  <2>4. Command(y, after, file)
    <3>1. after[d].status # "READY"
      BY <1>5, <1>7
    <3>2. sync[s].step \in InHand /\ sync[s].doing.doc = d /\ y.step \in InHand
      BY <1>1, <1>2, <1>3, <2>1
    <3> QED
      BY <1>4, <1>7, <2>1, <2>3, <3>1, <3>2, WritesRow
  <2> QED
    BY <1>2, <1>4, <1>5, <1>6, <2>1, <2>4, RowStep, Before DEF KnowledgeTypeOK
<1> QED
  BY <1>8, <1>9

LEMMA ForgetFileKeeps ==
    ASSUME Alone, Alone', KnowledgeInv, NEW s \in Syncs, ForgetFile(s)
    PROVE  KnowledgeInv'
<1>1. PICK d, r, a : /\ a = sync[s].doing /\ d = a.doc
                     /\ r = [row[d] EXCEPT !.status = "REMOVED", !.file = NoFile]
  OBVIOUS
<1>2. /\ sync[s].step = "forgetFile"
      /\ \/ row' = [row EXCEPT ![d] = r] /\ EndAction(s, FALSE) /\ spent' = spent
         \/ row' = row /\ EndAction(s, TRUE) /\ Fault
      /\ corpus' = corpus /\ file' = file /\ sealed' = sealed
  BY <1>1 DEF ForgetFile
<1>3. "forgetFile" \in InHand /\ "forgetFile" \in Removing
  BY DEF InHand, Indexing, Removing
<1>4. /\ d \in Docs /\ a.type = "remove" /\ row[d] \in DocRow /\ row[d].status = "REMOVED"
      /\ sync[s].manifest[d].as # "approved" /\ row \in DocRows /\ file \in Store
  BY <1>1, <1>2, <1>3, ActionFacts, Before DEF Carried
<1>5. CASE row' = [row EXCEPT ![d] = r] /\ EndAction(s, FALSE) /\ spent' = spent
  <2>1. r \in DocRow /\ r.file = NoFile /\ r.status = "REMOVED"
    <3>1. row[d] \in DocRow /\ NoFile \in 0..MaxFiles /\ "REMOVED" \in Statuses
      BY <1>4, KnowledgeAssumption DEF NoFile, Statuses
    <3> QED
      BY <1>1, <3>1 DEF DocRow
  <2>2. PICK after : after = row'
    OBVIOUS
  <2>3. after \in DocRows /\ after[d] = r /\ \A e \in Docs : e # d => after[e] = row[e]
    BY <1>4, <1>5, <2>1, <2>2 DEF DocRows
  <2>4. PICK y \in SyncType :
             /\ sync' = [sync EXCEPT ![s] = y]
             /\ y.step = "next" /\ y.manifest = sync[s].manifest /\ y.todo = sync[s].todo
             /\ y.present = sync[s].present /\ y.failed = (sync[s].failed \/ FALSE)
    BY <1>5, EndsAction
  <2>5. Done(y, d, after, file)
    BY <1>4, <2>1, <2>3, <2>4 DEF Done, Approved
  <2>6. Command(y, after, file)
    <3>1. sync[s].step \in InHand /\ sync[s].doing.doc = d /\ after[d].status # "READY"
      BY <1>1, <1>2, <1>3, <2>1, <2>3
    <3>2. sync[s].failed => y.failed
      BY <2>4
    <3> QED
      BY <1>4, <2>3, <2>4, <2>5, <3>1, <3>2, WritesRow
  <2> QED
    BY <1>2, <1>4, <1>5, <2>1, <2>2, <2>4, <2>6, RowStep
<1>6. CASE row' = row /\ EndAction(s, TRUE) /\ Fault
  <2>1. PICK y \in SyncType :
             /\ sync' = [sync EXCEPT ![s] = y]
             /\ y.step = "next" /\ y.manifest = sync[s].manifest /\ y.todo = sync[s].todo
             /\ y.present = sync[s].present /\ y.failed = (sync[s].failed \/ TRUE)
    BY <1>6, EndsAction
  <2>2. Done(y, d, row, file)
    BY <1>4, <2>1 DEF Done
  <2>3. Command(y, row, file)
    BY <1>1, <1>2, <1>3, <1>4, <2>1, <2>2, EndsWell
  <2> QED
    BY <1>2, <1>6, <2>1, <2>3, OnlyTheCommand
<1> QED
  BY <1>2, <1>5, <1>6

-----------------------------------------------------------------------------
(* Steps that change a file *)

\* No row that is READY names the file.
Hidden(f) == \A d \in Docs : row[d].status = "READY" => row[d].file # f

LEMMA NotNamed ==
    ASSUME KnowledgeInv, NEW f \in Files, f \notin Referenced
    PROVE  Hidden(f)
  BY ReadyFile DEF Hidden

LEMMA FileStep ==
    ASSUME Alone, Alone', KnowledgeInv, NEW s \in Syncs, NEW y \in SyncType, NEW f \in Files,
           NEW z \in StoredFile, sync' = [sync EXCEPT ![s] = y], file' = [file EXCEPT ![f] = z],
           corpus' = corpus, row' = row, sealed' = sealed, spent' = spent \/ Fault,
           z.state # "absent" => <<z.doc, z.text>> \in sealed, Hidden(f),
           y.step # "idle", y.manifest = sync[s].manifest, Command(y, row, file')
    PROVE  KnowledgeInv'
<1>1. spent' \in [edits : Nat, faults : Nat, swaps : Nat] /\ spent'.swaps = spent.swaps
  BY FaultCounts
<1>2. \A d \in Docs : row[d].status = "READY" => row[d].file # f
  BY DEF Hidden
<1>3. KnowledgeTypeOK' /\ ReadyIsIndexed' /\ file' \in Store /\ FilesSealed'
  BY <1>1, <1>2, FileChanges
<1>4. row' \in DocRows /\ Command(y, row', file')
  BY Before
<1> QED
  BY <1>1, <1>3, <1>4, After

\* Nor does it see what becomes of it.
LEMMA Unseen ==
    ASSUME KnowledgeInv, NEW f \in Files, NEW z \in StoredFile,
           file' = [file EXCEPT ![f] = z], Hidden(f)
    PROVE  /\ file' \in Store /\ file'[f] = z
           /\ \A g \in Files : g # f => file'[g] = file[g]
           /\ \A d \in Docs : row[d].status = "READY" =>
                /\ row[d].file \in Files /\ row[d].file # f
                /\ file'[row[d].file] = file[row[d].file]
<1>1. file \in Store
  BY DEF KnowledgeInv, KnowledgeShape
<1>2. file' \in Store /\ file'[f] = z /\ \A g \in Files : g # f => file'[g] = file[g]
  BY <1>1 DEF Store
<1>3. \A d \in Docs : row[d].status = "READY" => row[d].file \in Files /\ row[d].file # f
  BY ReadyFile DEF Hidden
<1> QED
  BY <1>2, <1>3

LEMMA CreateFileKeeps ==
    ASSUME Alone, Alone', KnowledgeInv, NEW s \in Syncs, CreateFile(s)
    PROVE  KnowledgeInv'
<1>1. PICK x, a, d : x = sync[s] /\ a = x.doing /\ d = a.doc
  OBVIOUS
<1>2. PICK f \in Files : /\ Fresh(f) /\ f = CHOOSE g \in Files : Fresh(g)
  BY DEF CreateFile
<1>3. PICK z, y : /\ z = [state |-> "stored", doc |-> d, text |-> x.manifest[d].text]
                  /\ y = [x EXCEPT !.step = "attach", !.uploaded = f]
  OBVIOUS
<1>4. /\ x.step = "create" /\ file' = [file EXCEPT ![f] = z] /\ sync' = [sync EXCEPT ![s] = y]
      /\ corpus' = corpus /\ row' = row /\ sealed' = sealed /\ spent' = spent
  BY <1>1, <1>2, <1>3 DEF CreateFile
<1>5. {"create", "attach"} \subseteq InHand \ {"removePrevious"}
  BY DEF InHand, Indexing, Removing
<1>6. /\ x \in SyncType /\ d \in Docs /\ x.manifest[d] \in Entries /\ Justified(x, a)
      /\ a.type # "remove" /\ Approved(x.manifest[d]) /\ Carried(x, row, file)
  BY <1>1, <1>4, <1>5, ActionFacts, Before DEF Carried, Indexing
<1>7. f \notin Referenced /\ f \in 0..MaxFiles /\ Hidden(f)
  <2>1. f \notin Referenced
    BY <1>2 DEF Fresh
  <2>2. Hidden(f)
    BY <2>1, NotNamed
  <2> QED
    BY <2>1, <2>2, KnowledgeAssumption DEF Files
<1>8. /\ y \in SyncType /\ y.step = "attach" /\ y.uploaded = f /\ y.manifest = x.manifest
      /\ y.todo = x.todo /\ y.present = x.present /\ y.doing = x.doing /\ y.failed = x.failed
  BY <1>3, <1>5, <1>6, <1>7 DEF SyncType
<1>9. /\ z \in StoredFile /\ z.state = "stored" /\ z.doc = d /\ z.text = x.manifest[d].text
  BY <1>3, <1>6, EntryShape DEF StoredFile
<1>10. <<z.doc, z.text>> \in sealed
  <2>1. x.manifest[d].as = "approved" /\ x.manifest[d].text = x.manifest[d].seal
    BY <1>6 DEF Approved
  <2>2. AllSealed(x.manifest, sealed)
    BY <1>1, Before
  <2> QED
    BY <1>6, <1>9, <2>1, <2>2 DEF AllSealed
<1>11. PICK store : store = file'
  OBVIOUS
<1>12. /\ store \in Store /\ store[f] = z
       /\ \A e \in Docs : row[e].status = "READY" => store[row[e].file] = file[row[e].file]
  <2>1. file' = [file EXCEPT ![f] = z] /\ store = file'
    BY <1>4, <1>11
  <2>2. f \in Files /\ z \in StoredFile /\ Hidden(f)
    BY <1>7, <1>9
  <2> QED
    BY <2>1, <2>2, Unseen
<1>13. Planned(y, row) /\ Listed(y, row, store) /\ Progress(y, row, store)
  BY <1>1, <1>4, <1>5, <1>8, <1>12, StaysInHand
<1>14. Carried(y, row, store)
  <2>1. /\ a.type = "upload" => row[d].status = "INDEXING" /\ row[d].file = NoFile
        /\ a.type = "replace" => row[d].status = "READY" /\ row[d].file = a.previous
    BY <1>1, <1>4, <1>5, <1>6 DEF Carried, Indexing
  <2>2. Justified(y, a) /\ y.doing = a /\ a.doc = d /\ f \notin Named(row)
    BY <1>1, <1>6, <1>7, <1>8 DEF Justified, Named, Referenced
  <2> QED
    BY <1>6, <1>8, <1>9, <1>12, <2>1, <2>2 DEF Carried, Indexing, Removing
<1> QED
  BY <1>1, <1>4, <1>7, <1>8, <1>9, <1>10, <1>11, <1>13, <1>14, FileStep DEF Command

LEMMA AttachKeeps ==
    ASSUME Alone, Alone', KnowledgeInv, NEW s \in Syncs, Attach(s)
    PROVE  KnowledgeInv'
<1>1. PICK x, a, d, f : x = sync[s] /\ a = x.doing /\ d = a.doc /\ f = x.uploaded
  OBVIOUS
<1>2. PICK z : z = [file[f] EXCEPT !.state = "completed"]
  OBVIOUS
<1>3. /\ x.step = "attach" /\ file[f] # Absent /\ file' = [file EXCEPT ![f] = z]
      /\ GoTo(s, "markReady")
      /\ corpus' = corpus /\ row' = row /\ sealed' = sealed /\ spent' = spent
  BY <1>1, <1>2 DEF Attach
<1>4. {"attach", "markReady"} \subseteq InHand \ {"removePrevious"}
  BY DEF InHand, Indexing, Removing
<1>5. PICK y \in SyncType :
             /\ sync' = [sync EXCEPT ![s] = y] /\ y = [sync[s] EXCEPT !.step = "markReady"]
             /\ y.step = "markReady" /\ y.manifest = sync[s].manifest /\ y.todo = sync[s].todo
             /\ y.present = sync[s].present /\ y.doing = sync[s].doing
             /\ y.failed = sync[s].failed /\ y.uploaded = sync[s].uploaded
  BY <1>3, <1>4, GoesTo
<1>6. /\ f \in Files /\ f \notin Named(row) /\ file[f].doc = d
      /\ file[f].text = x.manifest[d].text /\ file[f].state # "absent"
      /\ Justified(x, a) /\ a.type # "remove"
      /\ a.type = "upload" => row[d].status = "INDEXING" /\ row[d].file = NoFile
      /\ a.type = "replace" => row[d].status = "READY" /\ row[d].file = a.previous
  BY <1>1, <1>3, <1>4, Before DEF Carried, Indexing
<1>7. Hidden(f)
  BY <1>6, NotNamed DEF Named, Referenced
<1>8. z \in StoredFile /\ z.state = "completed" /\ z.doc = file[f].doc /\ z.text = file[f].text
  <2>1. file[f] \in [state : {"stored", "pending", "completed"}, doc : Docs,
                     text : Texts \cup {0}]
    BY <1>3, <1>6, Before DEF Store, StoredFile
  <2> QED
    BY <1>2, <2>1 DEF StoredFile
<1>9. <<z.doc, z.text>> \in sealed
  BY <1>6, <1>8, Before DEF FilesSealed
<1>10. PICK store : store = file'
  OBVIOUS
<1>11. /\ store \in Store /\ store[f] = z
       /\ \A e \in Docs : row[e].status = "READY" => store[row[e].file] = file[row[e].file]
  <2>1. file' = [file EXCEPT ![f] = z] /\ store = file'
    BY <1>3, <1>10
  <2>2. f \in Files /\ z \in StoredFile /\ Hidden(f)
    BY <1>6, <1>7, <1>8
  <2> QED
    BY <2>1, <2>2, Unseen
<1>12. Planned(y, row) /\ Listed(y, row, store) /\ Progress(y, row, store)
  BY <1>1, <1>3, <1>4, <1>5, <1>11, StaysInHand
<1>13. Carried(y, row, store)
  <2>1. Justified(y, a) /\ y.doing = a /\ a.doc = d /\ y.uploaded = f
        /\ y.manifest = x.manifest
    BY <1>1, <1>5, <1>6 DEF Justified
  <2> QED
    BY <1>5, <1>6, <1>8, <1>11, <2>1 DEF Carried, Indexing, Removing
<1> QED
  BY <1>3, <1>5, <1>6, <1>7, <1>8, <1>9, <1>10, <1>12, <1>13, FileStep DEF Command

LEMMA AttachFailsKeeps ==
    ASSUME Alone, Alone', KnowledgeInv, NEW s \in Syncs, AttachFails(s)
    PROVE  KnowledgeInv'
<1>1. PICK x, a, d, f, y : /\ x = sync[s] /\ a = x.doing /\ d = a.doc /\ f = x.uploaded
                           /\ y = [x EXCEPT !.step = "indexFailed", !.uploaded = NoFile]
  OBVIOUS
<1>2. /\ x.step = "attach" /\ sync' = [sync EXCEPT ![s] = y]
      /\ corpus' = corpus /\ row' = row /\ sealed' = sealed
  BY <1>1 DEF AttachFails
<1>3. {"attach", "indexFailed"} \subseteq InHand \ {"removePrevious"}
  BY DEF InHand, Indexing, Removing
<1>4. /\ x \in SyncType /\ f \in Files /\ f \notin Named(row) /\ file[f] \in StoredFile
      /\ file[f].state # "absent" => <<file[f].doc, file[f].text>> \in sealed
      /\ file \in Store /\ Justified(x, a) /\ a.type # "remove"
      /\ a.type = "upload" => row[d].status = "INDEXING" /\ row[d].file = NoFile
      /\ a.type = "replace" => row[d].status = "READY" /\ row[d].file = a.previous
  BY <1>1, <1>2, <1>3, Before DEF Carried, Indexing, FilesSealed, Store
<1>5. /\ y \in SyncType /\ y.step = "indexFailed" /\ y.manifest = x.manifest
      /\ y.todo = x.todo /\ y.present = x.present /\ y.doing = x.doing /\ y.failed = x.failed
  <2>1. NoFile \in 0..MaxFiles
    BY KnowledgeAssumption DEF NoFile
  <2>2. y = [x EXCEPT !.step = "indexFailed", !.uploaded = NoFile]
    BY <1>1
  <2>3. "indexFailed" \in InHand
    BY <1>3
  <2> QED
    BY <1>4, <2>1, <2>2, <2>3 DEF SyncType
<1>6. \E z \in StoredFile :
        /\ file' = [file EXCEPT ![f] = z] /\ (spent' = spent \/ Fault)
        /\ z.state # "absent" => <<z.doc, z.text>> \in sealed
  <2>1. CASE file[f] = Absent /\ UNCHANGED <<file, spent>>
    <3>1. file' = [file EXCEPT ![f] = file[f]]
      BY <1>4, <2>1 DEF Store
    <3> QED
      BY <1>4, <2>1, <3>1
  <2>2. ASSUME file[f] # Absent, Fault,
               NEW left \in {"absent", "stored", "pending", "completed"},
               file' = [file EXCEPT ![f] = IF left = "absent" THEN Absent
                                           ELSE [@ EXCEPT !.state = left]]
        PROVE  \E z \in StoredFile :
                 /\ file' = [file EXCEPT ![f] = z] /\ (spent' = spent \/ Fault)
                 /\ z.state # "absent" => <<z.doc, z.text>> \in sealed
    <3>1. CASE left = "absent"
      <4>1. file' = [file EXCEPT ![f] = Absent] /\ Absent \in StoredFile
            /\ Absent.state = "absent"
        BY <2>2, <3>1 DEF StoredFile, Absent
      <4> QED
        BY <2>2, <4>1
    <3>2. CASE left # "absent"
      <4>1. PICK z : z = [file[f] EXCEPT !.state = left]
        OBVIOUS
      <4>2. file' = [file EXCEPT ![f] = z]
        BY <2>2, <3>2, <4>1
      <4>3. file[f] \in [state : {"stored", "pending", "completed"}, doc : Docs,
                         text : Texts \cup {0}]
        BY <1>4, <2>2 DEF StoredFile
      <4>4. z \in StoredFile /\ z.doc = file[f].doc /\ z.text = file[f].text
        BY <2>2, <3>2, <4>1, <4>3 DEF StoredFile
      <4>5. <<z.doc, z.text>> \in sealed
        BY <1>4, <4>3, <4>4
      <4> QED
        BY <2>2, <4>2, <4>4, <4>5
    <3> QED
      BY <3>1, <3>2
  <2> QED
    BY <1>1, <2>1, <2>2 DEF AttachFails
<1>7. PICK z \in StoredFile :
        /\ file' = [file EXCEPT ![f] = z] /\ (spent' = spent \/ Fault)
        /\ z.state # "absent" => <<z.doc, z.text>> \in sealed
  BY <1>6
<1>8. Hidden(f)
  BY <1>4, NotNamed DEF Named, Referenced
<1>9. PICK store : store = file'
  OBVIOUS
<1>10. /\ store \in Store
       /\ \A e \in Docs : row[e].status = "READY" => store[row[e].file] = file[row[e].file]
  <2>1. file' = [file EXCEPT ![f] = z] /\ store = file'
    BY <1>7, <1>9
  <2>2. f \in Files /\ z \in StoredFile /\ Hidden(f)
    BY <1>4, <1>8
  <2> QED
    BY <2>1, <2>2, Unseen
<1>11. Planned(y, row) /\ Listed(y, row, store) /\ Progress(y, row, store)
  <2>1. /\ sync[s].step \in InHand \ {"removePrevious"}
        /\ y.step \in InHand \ {"removePrevious"}
    BY <1>1, <1>2, <1>3, <1>5
  <2>2. /\ y.manifest = sync[s].manifest /\ y.todo = sync[s].todo
        /\ y.present = sync[s].present /\ y.doing = sync[s].doing
        /\ sync[s].failed => y.failed
    BY <1>1, <1>5
  <2> QED
    BY <1>5, <1>10, <2>1, <2>2, StaysInHand
<1>12. Carried(y, row, store)
  <2>1. sync[s].step \in Indexing
    BY <1>1, <1>2 DEF Indexing
  <2> QED
    BY <1>1, <1>5, <2>1, FailureIsCarried
<1>13. Command(y, row, store) /\ y.manifest = sync[s].manifest
  BY <1>1, <1>5, <1>11, <1>12 DEF Command
<1> QED
  BY <1>2, <1>4, <1>5, <1>7, <1>8, <1>9, <1>13, FileStep

\* What the writer makes of a file, removed or not.
LEMMA WriterEffect ==
    ASSUME KnowledgeInv, NEW f \in Files,
           \/ WriterRemoves(f) /\ spent' = spent
           \/ WriterFailsToRemove(f)
    PROVE  \E z \in StoredFile :
             /\ file' = [file EXCEPT ![f] = z]
             /\ spent' = spent \/ Fault
             /\ z.state # "absent" => <<z.doc, z.text>> \in sealed
             /\ WriterRemoves(f) => z = Absent
<1>1. /\ file \in Store /\ file[f] \in StoredFile
      /\ file[f].state # "absent" => <<file[f].doc, file[f].text>> \in sealed
  BY DEF KnowledgeInv, KnowledgeShape, Store, FilesSealed
<1>2. CASE WriterRemoves(f)
  <2>1. Absent \in StoredFile /\ Absent.state = "absent"
    BY DEF StoredFile, Absent
  <2>2. file' = [file EXCEPT ![f] = Absent] /\ (spent' = spent \/ Fault)
    BY <1>2 DEF WriterRemoves, WriterFailsToRemove
  <2> QED
    BY <2>1, <2>2
<1>3. CASE ~WriterRemoves(f)
  <2>1. Fault /\ file[f] # Absent
    BY <1>3 DEF WriterFailsToRemove
  <2>2. CASE file' = file
    <3>1. file' = [file EXCEPT ![f] = file[f]]
      BY <1>1, <2>2 DEF Store
    <3> QED
      BY <1>1, <1>3, <2>1, <3>1
  <2>3. CASE file' = [file EXCEPT ![f].state = "stored"]
    <3>1. PICK z : z = [file[f] EXCEPT !.state = "stored"]
      OBVIOUS
    <3>2. file[f] \in [state : {"stored", "pending", "completed"}, doc : Docs,
                       text : Texts \cup {0}]
      BY <1>1, <2>1 DEF StoredFile
    <3>3. z \in StoredFile /\ z.doc = file[f].doc /\ z.text = file[f].text
      BY <3>1, <3>2 DEF StoredFile
    <3>4. <<z.doc, z.text>> \in sealed
      BY <1>1, <3>2, <3>3
    <3>5. file' = [file EXCEPT ![f] = z]
      BY <2>3, <3>1
    <3> QED
      BY <1>3, <2>1, <3>3, <3>4, <3>5
  <2> QED
    BY <1>3, <2>2, <2>3 DEF WriterFailsToRemove
<1> QED
  BY <1>2, <1>3

LEMMA RemovePreviousKeeps ==
    ASSUME Alone, Alone', KnowledgeInv, NEW s \in Syncs, RemovePrevious(s)
    PROVE  KnowledgeInv'
<1>1. PICK x, a, d, f : x = sync[s] /\ a = x.doing /\ d = a.doc /\ f = a.previous
  OBVIOUS
<1>2. /\ x.step = "removePrevious" /\ EndAction(s, FALSE)
      /\ corpus' = corpus /\ row' = row /\ sealed' = sealed
      /\ \/ WriterRemoves(f) /\ spent' = spent
         \/ WriterFailsToRemove(f)
  BY <1>1 DEF RemovePrevious
<1>3. "removePrevious" \in InHand
  BY DEF InHand, Indexing, Removing
<1>4. /\ f \in Files /\ f \notin Named(row) /\ d \in Docs /\ row \in DocRows /\ file \in Store
      /\ Planned(x, row) /\ Listed(x, row, file) /\ Progress(x, row, file)
  BY <1>1, <1>2, <1>3, ActionFacts, Before DEF Carried
<1>5. Hidden(f)
  BY <1>4, NotNamed DEF Named, Referenced
<1>6. PICK z \in StoredFile :
             /\ file' = [file EXCEPT ![f] = z]
             /\ spent' = spent \/ Fault
             /\ z.state # "absent" => <<z.doc, z.text>> \in sealed
             /\ WriterRemoves(f) => z = Absent
  BY <1>2, <1>4, WriterEffect
<1>7. PICK y \in SyncType :
             /\ sync' = [sync EXCEPT ![s] = y]
             /\ y.step = "next" /\ y.manifest = sync[s].manifest /\ y.todo = sync[s].todo
             /\ y.present = sync[s].present /\ y.failed = (sync[s].failed \/ FALSE)
  BY <1>2, EndsAction
<1>8. PICK store : store = file'
  OBVIOUS
<1>9. /\ store \in Store
      /\ \A e \in Docs : row[e].status = "READY" => store[row[e].file] = file[row[e].file]
  <2>1. file' = [file EXCEPT ![f] = z] /\ store = file'
    BY <1>6, <1>8
  <2>2. f \in Files /\ z \in StoredFile /\ Hidden(f)
    BY <1>4, <1>5
  <2> QED
    BY <2>1, <2>2, Unseen
<1>10. Done(y, d, row, store)
  <2>1. \A b \in x.todo : b.doc # d
    BY <1>1, <1>2, <1>3, <1>4 DEF Planned
  <2>2. Done(x, d, row, file)
    BY <1>1, <1>2, <1>3, <1>4, <2>1 DEF Progress
  <2>3. y.manifest = x.manifest /\ (y.failed => x.failed) /\ (x.failed => y.failed)
    BY <1>1, <1>7
  <2>4. row[d].status = "READY" => store[row[d].file] = file[row[d].file]
    BY <1>4, <1>9
  <2> QED
    BY <2>2, <2>3, <2>4 DEF Done
<1>11. row[d].status = "READY" /\ row[d].file \in x.present
         => store[row[d].file].state = "completed"
  BY <1>2, <1>4, <1>9 DEF Listed
<1>12. Command(y, row, store)
  <2>1. x.step \in InHand /\ x.doing.doc = d /\ (x.failed => y.failed)
    BY <1>1, <1>2, <1>3, <1>7
  <2> QED
    BY <1>1, <1>4, <1>7, <1>9, <1>10, <1>11, <2>1, EndsWell
<1> QED
  BY <1>2, <1>4, <1>5, <1>6, <1>7, <1>8, <1>12, FileStep

LEMMA RemoveRemoteKeeps ==
    ASSUME Alone, Alone', KnowledgeInv, NEW s \in Syncs, RemoveRemote(s)
    PROVE  KnowledgeInv'
<1>1. PICK x, a, d, f : x = sync[s] /\ a = x.doing /\ d = a.doc /\ f = a.previous
  OBVIOUS
<1>2. /\ x.step = "removeRemote"
      /\ corpus' = corpus /\ row' = row /\ sealed' = sealed
      /\ \/ WriterRemoves(f) /\ GoTo(s, "forgetFile") /\ spent' = spent
         \/ WriterFailsToRemove(f) /\ EndAction(s, TRUE)
  BY <1>1 DEF RemoveRemote
<1>3. /\ {"removeRemote", "forgetFile"} \subseteq InHand \ {"removePrevious"}
      /\ "removeRemote" \in Removing
  BY DEF InHand, Indexing, Removing
<1>4. /\ f \in Files /\ d \in Docs /\ row \in DocRows /\ file \in Store /\ row[d].file = f
      /\ row[d].status = "REMOVED" /\ a.type = "remove" /\ Justified(x, a)
      /\ x.manifest[d].as # "approved"
  BY <1>1, <1>2, <1>3, ActionFacts, Before DEF Carried
<1>5. Hidden(f)
  BY <1>4, ReadyFile DEF Hidden
<1>6. PICK z \in StoredFile :
             /\ file' = [file EXCEPT ![f] = z]
             /\ spent' = spent \/ Fault
             /\ z.state # "absent" => <<z.doc, z.text>> \in sealed
             /\ WriterRemoves(f) => z = Absent
  BY <1>2, <1>4, WriterEffect
<1>7. PICK store : store = file'
  OBVIOUS
<1>8. /\ store \in Store
      /\ \A e \in Docs : row[e].status = "READY" => store[row[e].file] = file[row[e].file]
  <2>1. file' = [file EXCEPT ![f] = z] /\ store = file'
    BY <1>6, <1>7
  <2>2. f \in Files /\ z \in StoredFile /\ Hidden(f)
    BY <1>4, <1>5
  <2> QED
    BY <2>1, <2>2, Unseen
<1>9. CASE GoTo(s, "forgetFile")
  <2>1. PICK y \in SyncType :
             /\ sync' = [sync EXCEPT ![s] = y] /\ y = [sync[s] EXCEPT !.step = "forgetFile"]
             /\ y.step = "forgetFile" /\ y.manifest = sync[s].manifest /\ y.todo = sync[s].todo
             /\ y.present = sync[s].present /\ y.doing = sync[s].doing
             /\ y.failed = sync[s].failed /\ y.uploaded = sync[s].uploaded
    BY <1>3, <1>9, GoesTo
  <2>2. Planned(y, row) /\ Listed(y, row, store) /\ Progress(y, row, store)
    BY <1>1, <1>2, <1>3, <1>8, <2>1, StaysInHand
  <2>3. Carried(y, row, store)
    <3>1. Justified(y, a) /\ y.doing = a /\ a.doc = d /\ a.previous = f
      BY <1>1, <1>4, <2>1 DEF Justified
    <3>2. y.step = "forgetFile"
      BY <2>1
    <3> QED
      BY <1>4, <3>1, <3>2 DEF Carried, Indexing, Removing
  <2>4. Command(y, row, store)
    BY <2>2, <2>3 DEF Command
  <2> QED
    BY <1>2, <1>4, <1>5, <1>6, <1>7, <2>1, <2>4, FileStep
<1>10. CASE EndAction(s, TRUE)
  <2>1. PICK y \in SyncType :
             /\ sync' = [sync EXCEPT ![s] = y]
             /\ y.step = "next" /\ y.manifest = sync[s].manifest /\ y.todo = sync[s].todo
             /\ y.present = sync[s].present /\ y.failed = (sync[s].failed \/ TRUE)
    BY <1>10, EndsAction
  <2>2. Done(y, d, row, store)
    BY <1>4, <2>1 DEF Done
  <2>3. sync[s].step \in InHand /\ sync[s].doing.doc = d /\ row[d].status # "READY"
        /\ y.failed
    BY <1>1, <1>2, <1>3, <1>4, <2>1
  <2>4. Command(y, row, store)
    BY <1>4, <1>8, <2>1, <2>2, <2>3, EndsWell
  <2> QED
    BY <1>2, <1>4, <1>5, <1>6, <1>7, <2>1, <2>4, FileStep
<1> QED
  BY <1>2, <1>9, <1>10

-----------------------------------------------------------------------------
(* The cleanup *)

LEMMA BeginCleanupKeeps ==
    ASSUME Alone, Alone', KnowledgeInv, NEW s \in Syncs, BeginCleanup(s)
    PROVE  KnowledgeInv'
<1>1. PICK x, y : x = sync[s] /\ y = [x EXCEPT !.step = "cleanup",
                                               !.toRead = {"remote", "referenced"}]
  OBVIOUS
<1>2. /\ x.step = "next" /\ x.todo = {} /\ spent' = spent /\ sync' = [sync EXCEPT ![s] = y]
      /\ corpus' = corpus /\ row' = row /\ file' = file /\ sealed' = sealed
  BY <1>1 DEF BeginCleanup
<1>3. /\ x \in SyncType /\ Planned(x, row) /\ Listed(x, row, file) /\ Progress(x, row, file)
  BY <1>1, Before
<1>4. /\ y \in SyncType /\ y.step = "cleanup" /\ y.toRead = {"remote", "referenced"}
      /\ y.todo = x.todo /\ y.manifest = x.manifest /\ y.present = x.present
      /\ y.failed = x.failed
  BY <1>1, <1>3 DEF SyncType
<1>5. y.step \notin InHand
  BY <1>4 DEF InHand, Indexing, Removing
<1>6. Planned(y, row) /\ Carried(y, row, file)
  BY <1>2, <1>4, <1>5 DEF Planned, Carried
<1>7. Listed(y, row, file)
  BY <1>2, <1>3, <1>4 DEF Listed
<1>8. Progress(y, row, file)
  <2>1. \A d \in Docs : Done(x, d, row, file)
    BY <1>2, <1>3 DEF Progress, InHand, Indexing, Removing
  <2>2. \A d \in Docs : Done(y, d, row, file)
    BY <1>4, <2>1 DEF Done
  <2> QED
    BY <1>4, <2>2 DEF Progress
<1> QED
  BY <1>1, <1>2, <1>4, <1>6, <1>7, <1>8, OnlyTheCommand DEF Command

LEMMA ReadForCleanupKeeps ==
    ASSUME Alone, Alone', KnowledgeInv, NEW s \in Syncs, NEW what \in {"remote", "referenced"},
           ReadForCleanup(s, what)
    PROVE  KnowledgeInv'
<1>1. PICK x, y : x = sync[s] /\ y = [x EXCEPT !.toRead = @ \ {what},
                            !.remote = IF what = "remote" THEN Attached ELSE @,
                            !.referenced = IF what = "referenced" THEN Referenced ELSE @]
  OBVIOUS
<1>2. /\ x.step = "cleanup" /\ spent' = spent /\ sync' = [sync EXCEPT ![s] = y]
      /\ corpus' = corpus /\ row' = row /\ file' = file /\ sealed' = sealed
  BY <1>1 DEF ReadForCleanup
<1>3. /\ x \in SyncType /\ Planned(x, row) /\ Listed(x, row, file) /\ Progress(x, row, file)
  BY <1>1, Before
<1>4. Attached \in SUBSET Files /\ Referenced \in SUBSET Files
  BY Before, KnowledgeAssumption DEF Attached, Referenced, DocRows, DocRow, Files, NoFile
<1>5. /\ y \in SyncType /\ y.step = "cleanup" /\ y.toRead = x.toRead \ {what}
      /\ y.remote = (IF what = "remote" THEN Attached ELSE x.remote)
      /\ y.referenced = (IF what = "referenced" THEN Referenced ELSE x.referenced)
      /\ y.todo = x.todo /\ y.manifest = x.manifest /\ y.present = x.present
      /\ y.failed = x.failed
  BY <1>1, <1>2, <1>3, <1>4 DEF SyncType
<1>6. x.step \notin InHand /\ y.step \notin InHand
  BY <1>2, <1>5 DEF InHand, Indexing, Removing
<1>7. Planned(y, row) /\ Carried(y, row, file)
  BY <1>2, <1>3, <1>5, <1>6 DEF Planned, Carried, Justified
<1>8. Listed(y, row, file)
  BY <1>2, <1>3, <1>5 DEF Listed
<1>9. Progress(y, row, file)
  <2>1. \A d \in Docs : Done(x, d, row, file) => Done(y, d, row, file)
    BY <1>5 DEF Done
  <2>2. \A d \in Docs : Done(y, d, row, file) \/ \E a \in y.todo : a.doc = d
    BY <1>2, <1>3, <1>5, <1>6, <2>1 DEF Progress
  <2>3. /\ "referenced" \notin y.toRead => y.referenced = Named(row)
        /\ "remote" \notin y.toRead /\ ~y.failed => AttachedIn(file) \subseteq y.remote
    <3>1. Attached = AttachedIn(file) /\ Referenced = Named(row)
      BY DEF Attached, AttachedIn, Referenced, Named
    <3>2. CASE what = "remote"
      BY <1>2, <1>3, <1>5, <3>1, <3>2 DEF Progress
    <3>3. CASE what = "referenced"
      BY <1>2, <1>3, <1>5, <3>1, <3>3 DEF Progress
    <3> QED
      BY <3>2, <3>3
  <2> QED
    BY <1>5, <2>2, <2>3 DEF Progress
<1> QED
  BY <1>1, <1>2, <1>5, <1>7, <1>8, <1>9, OnlyTheCommand DEF Command

LEMMA RemoveOrphanKeeps ==
    ASSUME Alone, Alone', KnowledgeInv, NEW s \in Syncs, NEW f \in Files, RemoveOrphan(s, f)
    PROVE  KnowledgeInv'
<1>1. PICK x, failed : /\ x = sync[s]
                       /\ failed = IF WriterRemoves(f) /\ spent' = spent
                                      /\ sync' = [sync EXCEPT ![s].remote = @ \ {f}]
                                   THEN x.failed ELSE TRUE
  OBVIOUS
<1>2. PICK y : y = [x EXCEPT !.remote = @ \ {f}, !.failed = failed]
  OBVIOUS
<1>3. x \in SyncType /\ Planned(x, row) /\ Listed(x, row, file) /\ Progress(x, row, file)
  BY <1>1, Before
<1>4. /\ x.step = "cleanup" /\ x.toRead = {} /\ f \in x.remote \ x.referenced
      /\ corpus' = corpus /\ row' = row /\ sealed' = sealed
      /\ (WriterRemoves(f) /\ spent' = spent) \/ WriterFailsToRemove(f)
  BY <1>1 DEF RemoveOrphan, Orphans
<1>5. /\ sync' = [sync EXCEPT ![s] = y] /\ failed \in BOOLEAN /\ (x.failed => failed)
      /\ ~failed => WriterRemoves(f)
  <2>1. x.failed \in BOOLEAN
    BY <1>3 DEF SyncType
  <2>2. CASE /\ WriterRemoves(f) /\ spent' = spent
             /\ sync' = [sync EXCEPT ![s].remote = @ \ {f}]
    <3>1. failed = x.failed
      BY <1>1, <2>2
    <3>2. y = [x EXCEPT !.remote = @ \ {f}]
      BY <1>2, <1>3, <3>1 DEF SyncType
    <3> QED
      BY <1>1, <2>1, <2>2, <3>1, <3>2
  <2>3. CASE ~(/\ WriterRemoves(f) /\ spent' = spent
               /\ sync' = [sync EXCEPT ![s].remote = @ \ {f}])
    <3>1. failed = TRUE
      BY <1>1, <2>3
    <3>2. sync' = [sync EXCEPT ![s].remote = @ \ {f}, ![s].failed = TRUE]
      BY <2>3 DEF RemoveOrphan
    <3> QED
      BY <1>1, <1>2, <3>1, <3>2
  <2> QED
    BY <2>2, <2>3
<1>6. /\ y \in SyncType /\ y.step = "cleanup" /\ y.toRead = {} /\ y.remote = x.remote \ {f}
      /\ y.todo = x.todo /\ y.manifest = x.manifest /\ y.present = x.present
      /\ y.failed = failed /\ y.referenced = x.referenced
  BY <1>2, <1>3, <1>4, <1>5 DEF SyncType
<1>7. x.referenced = Named(row) /\ (~x.failed => AttachedIn(file) \subseteq x.remote)
  BY <1>3, <1>4 DEF Progress
<1>8. Hidden(f)
  BY <1>4, <1>7, NotNamed DEF Named, Referenced
<1>9. PICK z \in StoredFile :
             /\ file' = [file EXCEPT ![f] = z]
             /\ spent' = spent \/ Fault
             /\ z.state # "absent" => <<z.doc, z.text>> \in sealed
             /\ WriterRemoves(f) => z = Absent
  BY <1>4, WriterEffect
<1>10. PICK store : store = file'
  OBVIOUS
<1>11. /\ store \in Store /\ store[f] = z /\ \A g \in Files : g # f => store[g] = file[g]
       /\ \A e \in Docs : row[e].status = "READY" => store[row[e].file] = file[row[e].file]
  <2>1. file' = [file EXCEPT ![f] = z] /\ store = file'
    BY <1>9, <1>10
  <2> QED
    BY <1>8, <2>1, Unseen
<1>12. x.step \notin InHand /\ y.step \notin InHand
  BY <1>4, <1>6 DEF InHand, Indexing, Removing
<1>13. Planned(y, row) /\ Carried(y, row, store)
  BY <1>3, <1>4, <1>6, <1>12 DEF Planned, Carried, Justified
<1>14. Listed(y, row, store)
  BY <1>3, <1>4, <1>6, <1>11 DEF Listed
<1>15. Progress(y, row, store)
  <2>1. \A d \in Docs : Done(x, d, row, file) => Done(y, d, row, store)
    BY <1>5, <1>6, <1>11 DEF Done
  <2>2. \A d \in Docs : Done(y, d, row, store) \/ \E a \in y.todo : a.doc = d
    BY <1>3, <1>4, <1>6, <1>12, <2>1 DEF Progress
  <2>3. ~y.failed => AttachedIn(store) \subseteq y.remote
    <3> SUFFICES ASSUME ~failed, NEW g \in AttachedIn(store) PROVE g \in x.remote \ {f}
      BY <1>6
    <3>1. z = Absent /\ ~x.failed
      BY <1>5, <1>9
    <3>2. g # f
      BY <1>11, <3>1 DEF AttachedIn, Absent
    <3> QED
      BY <1>7, <1>11, <3>1, <3>2 DEF AttachedIn
  <2> QED
    BY <1>6, <1>7, <2>2, <2>3 DEF Progress
<1>16. Command(y, row, store)
  BY <1>13, <1>14, <1>15 DEF Command
<1> QED
  BY <1>1, <1>4, <1>5, <1>6, <1>8, <1>9, <1>10, <1>16, FileStep

-----------------------------------------------------------------------------
(* The theorem *)

LEMMA KnowledgeInitHolds == KnowledgeInit => KnowledgeInv
<1> SUFFICES ASSUME KnowledgeInit PROVE KnowledgeInv
  OBVIOUS
<1>1. /\ \A d \in Docs : corpus[d] = Unlisted /\ row[d] = NoRow
      /\ \A f \in Files : file[f] = Absent
      /\ \A s \in Syncs : sync[s] = Idle
  BY DEF KnowledgeInit
<1>2. KnowledgeShape
  <2>1. corpus \in [Docs -> Entries]
    BY DEF KnowledgeInit, Entries
  <2>2. NoRow \in DocRow
    BY KnowledgeAssumption DEF NoRow, DocRow, Statuses, NoFile
  <2>3. row \in DocRows
    BY <2>2 DEF KnowledgeInit, DocRows
  <2>4. file \in Store
    BY DEF KnowledgeInit, Store, StoredFile
  <2>5. sync \in [Syncs -> SyncType]
    BY IdleRule DEF KnowledgeInit
  <2>6. spent \in [edits : Nat, faults : Nat, swaps : Nat]
    BY DEF KnowledgeInit
  <2> QED
    BY <2>1, <2>3, <2>4, <2>5, <2>6 DEF KnowledgeShape
<1>3. KnowledgeTypeOK /\ ReadyIsIndexed /\ FilesSealed
  BY <1>1 DEF KnowledgeTypeOK, ReadyIsIndexed, FilesSealed, NoRow, NoFile, Absent
<1>4. AllSealed(corpus, sealed)
  BY <1>1 DEF AllSealed, Unlisted
<1>5. ASSUME NEW s \in Syncs
      PROVE  AllSealed(sync[s].manifest, sealed) /\ Command(sync[s], row, file)
  <2>1. \A d \in Docs : Idle.manifest[d] = Unlisted
    BY DEF Idle
  <2>2. AllSealed(Idle.manifest, sealed)
    BY <2>1 DEF AllSealed, Unlisted
  <2>3. Command(Idle, row, file)
    BY IdleRule DEF Idle
  <2> QED
    BY <1>1, <2>2, <2>3
<1>6. \A s \in Syncs : sync[s] = Idle
  BY <1>1
<1> QED
  BY <1>2, <1>3, <1>4, <1>5, <1>6 DEF KnowledgeInv

LEMMA KnowledgeStepKeeps ==
    ASSUME Alone, Alone', KnowledgeInv, [KnowledgeNext]_knowledgeVars
    PROVE  KnowledgeInv'
<1>1. CASE UNCHANGED knowledgeVars
  <2>1. KnowledgeShape' /\ KnowledgeTypeOK' /\ ReadyIsIndexed' /\ FilesSealed'
    BY <1>1 DEF knowledgeVars, KnowledgeInv, KnowledgeShape, KnowledgeTypeOK, ReadyIsIndexed,
                FilesSealed
  <2>2. /\ corpus' = corpus /\ sealed' = sealed /\ sync' = sync /\ row' = row /\ file' = file
    BY <1>1 DEF knowledgeVars
  <2> QED
    BY <2>1, <2>2 DEF KnowledgeInv
<1>2. ASSUME NEW d \in Docs, NEW e \in Entries, EditCorpus(d, e) PROVE KnowledgeInv'
  BY <1>2, EditCorpusKeeps
<1>3. CASE SwapStore
  BY <1>3, SwapStoreKeeps
<1>4. ASSUME NEW f \in Files, ProviderIndexes(f) PROVE KnowledgeInv'
  BY <1>4, ProviderIndexesKeeps
<1>5. ASSUME NEW s \in Syncs, StartSync(s) \/ CommandStops(s) PROVE KnowledgeInv'
  BY <1>5, StartSyncKeeps, CommandStopsKeeps
<1>6. ASSUME NEW s \in Syncs, Work(s) PROVE KnowledgeInv'
  <2>1. CASE \/ ListStore(s) \/ Plan(s) \/ (\E a \in sync[s].todo : NextAction(s, a))
    BY <2>1, ListStoreKeeps, PlanKeeps, NextActionKeeps
  <2>2. CASE MarkIndexing(s) \/ CreateFile(s) \/ CreateFileFails(s) \/ Attach(s) \/ AttachFails(s)
    BY <2>2, MarkIndexingKeeps, CreateFileKeeps, CreateFileFailsKeeps, AttachKeeps,
       AttachFailsKeeps
  <2>3. CASE MarkReady(s) \/ MarkReadyFails(s) \/ RecordIndexFailure(s) \/ RemovePrevious(s)
    BY <2>3, MarkReadyKeeps, MarkReadyFailsKeeps, RecordIndexFailureKeeps, RemovePreviousKeeps
  <2>4. CASE MarkRemoved(s) \/ RemoveRemote(s) \/ ForgetFile(s)
    BY <2>4, MarkRemovedKeeps, RemoveRemoteKeeps, ForgetFileKeeps
  <2>5. CASE \/ BeginCleanup(s)
             \/ \E what \in {"remote", "referenced"} : ReadForCleanup(s, what)
             \/ \E f \in Files : RemoveOrphan(s, f)
             \/ FinishSync(s)
    BY <2>5, BeginCleanupKeeps, ReadForCleanupKeeps, RemoveOrphanKeeps, CommandStopsKeeps
  <2> QED
    BY <1>6, <2>1, <2>2, <2>3, <2>4, <2>5 DEF Work
<1> QED
  BY <1>1, <1>2, <1>3, <1>4, <1>5, <1>6 DEF KnowledgeNext

\* A file that is served was approved: it is the file of a row that is READY.
LEMMA ApprovedOnly == KnowledgeInv => ServableIsApproved
<1> SUFFICES ASSUME KnowledgeInv, NEW f \in Servable
             PROVE  <<file[f].doc, file[f].text>> \in sealed
  BY DEF ServableIsApproved
<1> QED
  BY DEF KnowledgeInv, FilesSealed, Servable

\* A command ends in one place only.
LEMMA EndsThere ==
    ASSUME Alone, Alone', KnowledgeInv, [KnowledgeNext]_knowledgeVars, NEW s \in Syncs, Ends(s)
    PROVE  FinishSync(s)
<1>1. /\ sync[s].step = "cleanup" /\ sync'[s].step = "idle" /\ spent' = spent
      /\ sync' # sync /\ \A t \in Syncs : t # s => sync[t].step = "idle"
      /\ sync \in [Syncs -> SyncType] /\ sync[s] \in SyncType
  BY Before DEF Ends, Alone
<1>2. ASSUME Fault PROVE FALSE
  <2>1. spent \in [edits : Nat, faults : Nat, swaps : Nat]
    BY Before
  <2>2. spent'.faults = spent.faults + 1 /\ spent.faults \in Nat
    BY <1>2, <2>1 DEF Fault
  <2> QED
    BY <1>1, <2>2
<1>3. ASSUME NEW y, sync' = [sync EXCEPT ![s] = y] PROVE y.step = "idle"
  BY <1>1, <1>3
<1>4. ~CommandStops(s)
  BY <1>2 DEF CommandStops
<1>5. ~(SwapStore \/ StartSync(s))
  BY <1>1 DEF SwapStore, StartSync
<1>6. ASSUME NEW what \in {"remote", "referenced"} PROVE ~ReadForCleanup(s, what)
  <2> SUFFICES ASSUME ReadForCleanup(s, what) PROVE FALSE
    OBVIOUS
  <2>1. PICK y : y = [sync[s] EXCEPT !.toRead = @ \ {what},
                            !.remote = IF what = "remote" THEN Attached ELSE @,
                            !.referenced = IF what = "referenced" THEN Referenced ELSE @]
    OBVIOUS
  <2>2. sync' = [sync EXCEPT ![s] = y]
    BY <2>1 DEF ReadForCleanup
  <2>3. y.step = "cleanup"
    BY <1>1, <2>1 DEF SyncType
  <2> QED
    BY <1>3, <2>2, <2>3
<1>7. ASSUME NEW f \in Files PROVE ~RemoveOrphan(s, f)
  <2> SUFFICES ASSUME RemoveOrphan(s, f) PROVE FALSE
    OBVIOUS
  <2>1. \/ sync' = [sync EXCEPT ![s].remote = @ \ {f}]
        \/ sync' = [sync EXCEPT ![s].remote = @ \ {f}, ![s].failed = TRUE]
    BY DEF RemoveOrphan
  <2>2. PICK b \in BOOLEAN :
          /\ b = TRUE => sync' = [sync EXCEPT ![s].remote = @ \ {f}]
          /\ b = FALSE => sync' = [sync EXCEPT ![s].remote = @ \ {f}, ![s].failed = TRUE]
    BY <2>1
  <2>3. CASE b = TRUE
    <3>1. PICK y : y = [sync[s] EXCEPT !.remote = @ \ {f}]
      OBVIOUS
    <3>2. sync' = [sync EXCEPT ![s] = y]
      BY <2>2, <2>3, <3>1
    <3>3. y.step = "cleanup"
      BY <1>1, <3>1 DEF SyncType
    <3> QED
      BY <1>3, <3>2, <3>3
  <2>4. CASE b = FALSE
    <3>1. PICK y : y = [sync[s] EXCEPT !.remote = @ \ {f}, !.failed = TRUE]
      OBVIOUS
    <3>2. sync' = [sync EXCEPT ![s] = y]
      BY <2>2, <2>4, <3>1
    <3>3. y.step = "cleanup"
      BY <1>1, <3>1 DEF SyncType
    <3> QED
      BY <1>3, <3>2, <3>3
  <2> QED
    BY <2>3, <2>4
<1>8. ~(\/ ListStore(s) \/ Plan(s) \/ (\E a \in sync[s].todo : NextAction(s, a))
        \/ MarkIndexing(s) \/ CreateFile(s) \/ CreateFileFails(s) \/ Attach(s) \/ AttachFails(s))
  BY <1>1 DEF ListStore, Plan, NextAction, MarkIndexing, CreateFile, CreateFileFails, Attach,
              AttachFails
<1>9. ~(\/ MarkReady(s) \/ MarkReadyFails(s) \/ RecordIndexFailure(s) \/ RemovePrevious(s)
        \/ MarkRemoved(s) \/ RemoveRemote(s) \/ ForgetFile(s) \/ BeginCleanup(s))
  BY <1>1 DEF MarkReady, MarkReadyFails, RecordIndexFailure, RemovePrevious, MarkRemoved,
              RemoveRemote, ForgetFile, BeginCleanup
<1>10. /\ ~UNCHANGED knowledgeVars
       /\ \A d \in Docs, e \in Entries : ~EditCorpus(d, e)
       /\ \A f \in Files : ~ProviderIndexes(f)
  BY <1>1 DEF knowledgeVars, EditCorpus, ProviderIndexes
<1>11. ASSUME NEW t \in Syncs, t # s PROVE ~(StartSync(t) \/ Work(t) \/ CommandStops(t))
  <2>1. sync[t].step = "idle" /\ sync[t] = Idle
    BY <1>1, <1>11 DEF KnowledgeInv
  <2>2. ~StartSync(t)
    BY <1>1, <1>11 DEF StartSync
  <2>3. ~(CommandStops(t) \/ Work(t))
    BY <2>1 DEF CommandStops, Work, ListStore, Plan, NextAction, MarkIndexing, CreateFile,
       CreateFileFails, Attach, AttachFails, MarkReady, MarkReadyFails, RecordIndexFailure,
       RemovePrevious, MarkRemoved, RemoveRemote, ForgetFile, BeginCleanup, ReadForCleanup,
       RemoveOrphan, FinishSync
  <2> QED
    BY <2>2, <2>3
<1>12. Work(s)
  BY <1>1, <1>4, <1>5, <1>10, <1>11 DEF KnowledgeNext
<1> QED
  BY <1>6, <1>7, <1>8, <1>9, <1>12 DEF Work

LEMMA EndsAsPromised ==
    ASSUME Alone, Alone', KnowledgeInv, [KnowledgeNext]_knowledgeVars, NEW s \in Syncs, Ends(s)
    PROVE  /\ \A d \in Docs : row[d].status = "READY" => sync[s].manifest[d].as = "approved"
           /\ ~sync[s].failed => Serves(sync[s].manifest)
<1>1. PICK x : x = sync[s]
  OBVIOUS
<1>2. x.step = "cleanup" /\ x.toRead = {} /\ Orphans(s) = {}
  BY <1>1, EndsThere DEF FinishSync
<1>3. x \in SyncType /\ Planned(x, row) /\ Progress(x, row, file) /\ x.step \notin InHand
  BY <1>1, <1>2, Before DEF InHand, Indexing, Removing
<1>4. \A d \in Docs : Done(x, d, row, file)
  BY <1>2, <1>3 DEF Planned, Progress
<1>5. \A d \in Docs : row[d].status = "READY" => x.manifest[d].as = "approved"
  BY <1>4 DEF Done
<1>6. ASSUME ~x.failed PROVE Serves(x.manifest)
  <2>1. ASSUME NEW d \in Docs, Approved(x.manifest[d])
        PROVE  /\ row[d].status = "READY" /\ row[d].text = x.manifest[d].text
               /\ row[d].file \in Servable
    <3>1. /\ row[d].status = "READY" /\ row[d].text = x.manifest[d].text
          /\ file[row[d].file].state = "completed"
      BY <1>4, <1>6, <2>1 DEF Done
    <3> QED
      BY <3>1, ReadyFile DEF Servable
  <2>2. \A d \in Docs : x.manifest[d].as \in {"unlisted", "draft"} => row[d].file = NoFile
    BY <1>4, <1>6 DEF Done
  <2>3. Attached \subseteq Referenced
    <3>1. x.referenced = Named(row) /\ AttachedIn(file) \subseteq x.remote
      BY <1>2, <1>3, <1>6 DEF Progress
    <3>2. x.remote \subseteq x.referenced
      BY <1>1, <1>2 DEF Orphans
    <3> QED
      BY <3>1, <3>2 DEF Attached, AttachedIn, Referenced, Named
  <2> QED
    BY <2>1, <2>2, <2>3 DEF Serves
<1> QED
  BY <1>1, <1>5, <1>6

\* In every behaviour in which no two commands overlap, which the code leaves to the operator
\* (docs/assistant-ops/RUNBOOK.md), and whatever is edited, fails, dies or is swapped: what may
\* be quoted was approved, a READY row has its own indexed text, a command that ends leaves
\* nothing READY that its manifest does not list, and one that reports no failure has made
\* the store serve it.
THEOREM CorpusStaysApproved == KnowledgeSpec /\ []Alone => CorpusIsApproved
<1>1. KnowledgeInv => KnowledgeTypeOK /\ ServableIsApproved /\ ReadyIsIndexed
  BY ApprovedOnly DEF KnowledgeInv
<1>2. KnowledgeInv /\ Alone /\ Alone' /\ [KnowledgeNext]_knowledgeVars => KnowledgeInv'
  BY KnowledgeStepKeeps
<1>3. KnowledgeInv /\ Alone /\ Alone' /\ [KnowledgeNext]_knowledgeVars =>
        [\A s \in Syncs : Ends(s) =>
          \A d \in Docs : row[d].status = "READY" => sync[s].manifest[d].as = "approved"]_knowledgeVars
  BY EndsAsPromised
<1>4. KnowledgeInv /\ Alone /\ Alone' /\ [KnowledgeNext]_knowledgeVars =>
        [\A s \in Syncs : Ends(s) /\ ~sync[s].failed => Serves(sync[s].manifest)]_knowledgeVars
  BY EndsAsPromised
<1> QED
  BY <1>1, <1>2, <1>3, <1>4, KnowledgeInitHolds, PTL
  DEF KnowledgeSpec, CorpusIsApproved, RemovedIsHidden, CleanSyncServes

-----------------------------------------------------------------------------
(***************************************************************************)
(* What commands that overlap cannot break either: a file is created only  *)
(* with the text its manifest approved, and keeps it.                      *)
(***************************************************************************)

\* What a command means to index was approved in its manifest.
Scrupulous(x) ==
    /\ \A a \in x.todo : /\ a.doc \in Docs /\ a.type \in {"upload", "replace", "remove"}
                         /\ a.type # "remove" => Approved(x.manifest[a.doc])
    /\ x.step \in InHand => x.doing.doc \in Docs
    /\ x.step \in {"markIndexing", "create"} => Approved(x.manifest[x.doing.doc])

ApprovedInv ==
    /\ KnowledgeShape /\ AllSealed(corpus, sealed) /\ FilesSealed
    /\ \A s \in Syncs : AllSealed(sync[s].manifest, sealed) /\ Scrupulous(sync[s])

LEMMA ApprovedFacts ==
    ASSUME ApprovedInv, NEW s \in Syncs
    PROVE  /\ sync[s] \in SyncType /\ sync \in [Syncs -> SyncType]
           /\ row \in DocRows /\ file \in Store /\ corpus \in [Docs -> Entries]
           /\ spent \in [edits : Nat, faults : Nat, swaps : Nat]
           /\ AllSealed(corpus, sealed) /\ FilesSealed
           /\ AllSealed(sync[s].manifest, sealed) /\ Scrupulous(sync[s])
  BY DEF ApprovedInv, KnowledgeShape

\* What has to be known of a command after its step, if nothing was edited.
LEMMA StaysScrupulous ==
    ASSUME ApprovedInv, NEW s \in Syncs, NEW y \in SyncType, sync' = [sync EXCEPT ![s] = y],
           corpus' = corpus, sealed' = sealed, spent' = spent \/ Fault,
           row' \in DocRows, file' \in Store, FilesSealed',
           y.manifest = sync[s].manifest \/ y.manifest = corpus \/ y.manifest = Idle.manifest,
           Scrupulous(y)
    PROVE  ApprovedInv'
<1>1. sync' \in [Syncs -> SyncType] /\ sync'[s] = y /\ \A t \in Syncs : t # s => sync'[t] = sync[t]
  BY ApprovedFacts
<1>2. spent' \in [edits : Nat, faults : Nat, swaps : Nat]
  BY ApprovedFacts DEF Fault
<1>3. AllSealed(y.manifest, sealed)
  BY ApprovedFacts DEF AllSealed, Idle, Unlisted
<1>4. KnowledgeShape'
  BY <1>1, <1>2, ApprovedFacts DEF KnowledgeShape
<1>5. ASSUME NEW t \in Syncs PROVE AllSealed(sync'[t].manifest, sealed') /\ Scrupulous(sync'[t])
  <2>1. CASE t = s
    BY <1>1, <1>3, <2>1
  <2>2. CASE t # s
    BY <1>1, <2>2, ApprovedFacts
  <2> QED
    BY <2>1, <2>2
<1> QED
  BY <1>4, <1>5, ApprovedFacts DEF ApprovedInv

\* The same of a step that writes no row and no file.
LEMMA StaysScrupulousAlone ==
    ASSUME ApprovedInv, NEW s \in Syncs, NEW y \in SyncType, sync' = [sync EXCEPT ![s] = y],
           corpus' = corpus, sealed' = sealed, spent' = spent \/ Fault, row' = row, file' = file,
           y.manifest = sync[s].manifest \/ y.manifest = corpus \/ y.manifest = Idle.manifest,
           Scrupulous(y)
    PROVE  ApprovedInv'
<1>1. row' \in DocRows /\ file' \in Store /\ FilesSealed'
  BY ApprovedFacts DEF FilesSealed
<1> QED
  BY <1>1, StaysScrupulous

\* A command that goes to another step, or ends its action, plans nothing new.
LEMMA StepOfAction ==
    ASSUME ApprovedInv, NEW s \in Syncs, sync[s].step \in InHand
    PROVE  /\ sync[s].doing.doc \in Docs
           /\ \A next \in InHand \ {"markIndexing", "create"} : GoTo(s, next) =>
                \E y \in SyncType : /\ sync' = [sync EXCEPT ![s] = y]
                                    /\ y.manifest = sync[s].manifest /\ Scrupulous(y)
           /\ \A failed \in BOOLEAN : EndAction(s, failed) =>
                \E y \in SyncType : /\ sync' = [sync EXCEPT ![s] = y]
                                    /\ y.manifest = sync[s].manifest /\ Scrupulous(y)
<1>1. PICK x : x = sync[s]
  OBVIOUS
<1>2. x \in SyncType /\ Scrupulous(x) /\ x.doing.doc \in Docs
  BY <1>1, ApprovedFacts DEF Scrupulous
<1>3. ASSUME NEW next \in InHand \ {"markIndexing", "create"}, GoTo(s, next)
      PROVE  \E y \in SyncType : /\ sync' = [sync EXCEPT ![s] = y]
                                 /\ y.manifest = sync[s].manifest /\ Scrupulous(y)
  <2>1. PICK y : y = [x EXCEPT !.step = next]
    OBVIOUS
  <2>2. /\ y \in SyncType /\ y.step = next /\ y.todo = x.todo /\ y.manifest = x.manifest
        /\ y.doing = x.doing
    BY <1>2, <2>1 DEF SyncType
  <2>3. Scrupulous(y)
    BY <1>2, <2>2 DEF Scrupulous
  <2>4. sync' = [sync EXCEPT ![s] = y]
    BY <1>1, <1>3, <2>1 DEF GoTo
  <2> QED
    BY <1>1, <2>2, <2>3, <2>4
<1>4. ASSUME NEW failed \in BOOLEAN, EndAction(s, failed)
      PROVE  \E y \in SyncType : /\ sync' = [sync EXCEPT ![s] = y]
                                 /\ y.manifest = sync[s].manifest /\ Scrupulous(y)
  <2>1. PICK y : y = [x EXCEPT !.step = "next", !.doing = NoAction, !.uploaded = NoFile,
                               !.failed = @ \/ failed]
    OBVIOUS
  <2>2. NoAction \in ActionType /\ NoFile \in 0..MaxFiles
    BY KnowledgeAssumption DEF NoAction, ActionType, NoFile
  <2>3. y \in SyncType /\ y.step = "next" /\ y.todo = x.todo /\ y.manifest = x.manifest
    BY <1>2, <2>1, <2>2 DEF SyncType
  <2>4. Scrupulous(y)
    BY <1>2, <2>3 DEF Scrupulous, InHand, Indexing, Removing
  <2>5. sync' = [sync EXCEPT ![s] = y]
    BY <1>1, <1>4, <2>1 DEF EndAction
  <2> QED
    BY <1>1, <2>3, <2>4, <2>5
<1> QED
  BY <1>1, <1>2, <1>3, <1>4

\* A file whose state changes, or that goes, holds what it held.
LEMMA SameText ==
    ASSUME ApprovedInv, NEW f, NEW z,
           f \in Files => z = Absent \/ (\E left \in {"stored", "pending", "completed"} :
                                           file[f] # Absent /\ z = [file[f] EXCEPT !.state = left]),
           file' = [file EXCEPT ![f] = z], sealed' = sealed
    PROVE  file' \in Store /\ FilesSealed'
<1>1. file \in Store /\ FilesSealed
  BY DEF ApprovedInv, KnowledgeShape
<1>2. ASSUME NEW g \in Files
      PROVE  /\ file'[g] \in StoredFile
             /\ file'[g].state # "absent" => <<file'[g].doc, file'[g].text>> \in sealed
  <2>1. file[g] \in StoredFile /\ (file[g].state # "absent" => <<file[g].doc, file[g].text>> \in sealed)
    BY <1>1 DEF Store, FilesSealed
  <2>2. CASE g # f
    BY <1>1, <2>1, <2>2 DEF Store
  <2>3. CASE g = f
    <3>1. file'[g] = z
      BY <1>1, <2>3 DEF Store
    <3>2. CASE z = Absent
      BY <3>1, <3>2 DEF Absent, StoredFile
    <3>3. ASSUME NEW left \in {"stored", "pending", "completed"}, file[f] # Absent,
                 z = [file[f] EXCEPT !.state = left]
          PROVE  z \in StoredFile /\ <<z.doc, z.text>> \in sealed
      <4>1. file[f] \in [state : {"stored", "pending", "completed"}, doc : Docs,
                         text : Texts \cup {0}]
        BY <2>1, <2>3, <3>3 DEF StoredFile
      <4> QED
        BY <2>1, <2>3, <3>3, <4>1 DEF StoredFile
    <3> QED
      BY <2>3, <3>1, <3>2, <3>3
  <2> QED
    BY <2>2, <2>3
<1>3. file' \in Store
  BY <1>1, <1>2 DEF Store
<1> QED
  BY <1>2, <1>3 DEF FilesSealed

\* removeDocument of the writer, whether or not its calls succeed.
LEMMA WriterKeepsText ==
    ASSUME ApprovedInv, NEW f, sealed' = sealed, WriterRemoves(f) \/ WriterFailsToRemove(f)
    PROVE  file' \in Store /\ FilesSealed'
<1>1. CASE WriterRemoves(f)
  BY <1>1, SameText DEF WriterRemoves
<1>2. CASE file' = file
  BY <1>2 DEF ApprovedInv, KnowledgeShape, FilesSealed
<1>3. CASE file[f] # Absent /\ file' = [file EXCEPT ![f].state = "stored"]
  BY <1>3, SameText
<1> QED
  BY <1>1, <1>2, <1>3 DEF WriterFailsToRemove

LEMMA FileNumbers == NoFile \in 0..MaxFiles /\ Files \subseteq 0..MaxFiles
  BY KnowledgeAssumption DEF NoFile, Files

LEMMA PlansScrupulously ==
    ASSUME ApprovedInv, NEW s \in Syncs,
           \/ StartSync(s) \/ ListStore(s) \/ Plan(s) \/ CommandStops(s) \/ FinishSync(s)
           \/ \E a \in sync[s].todo : NextAction(s, a)
    PROVE  ApprovedInv'
<1>1. PICK x : x = sync[s]
  OBVIOUS
<1>2. x \in SyncType /\ Scrupulous(x)
  BY <1>1, ApprovedFacts
<1>3. Idle \in SyncType /\ Idle.step = "idle" /\ Idle.todo = {}
  BY IdleRule DEF Idle
<1>4. CASE CommandStops(s) \/ FinishSync(s)
  <2>1. PICK y : y = Idle
    OBVIOUS
  <2>2. /\ sync' = [sync EXCEPT ![s] = y] /\ (spent' = spent \/ Fault)
        /\ corpus' = corpus /\ row' = row /\ file' = file /\ sealed' = sealed
    BY <1>4, <2>1 DEF CommandStops, FinishSync
  <2>3. y \in SyncType /\ y.manifest = Idle.manifest /\ Scrupulous(y)
    BY <1>3, <2>1 DEF Scrupulous, InHand, Indexing, Removing
  <2> QED
    BY <2>2, <2>3, StaysScrupulousAlone
<1>5. CASE StartSync(s)
  <2>1. PICK y : y = [Idle EXCEPT !.step = "list", !.manifest = corpus]
    OBVIOUS
  <2>2. /\ sync' = [sync EXCEPT ![s] = y] /\ spent' = spent
        /\ corpus' = corpus /\ row' = row /\ file' = file /\ sealed' = sealed
    BY <1>5, <2>1 DEF StartSync
  <2>3. y \in SyncType /\ y.step = "list" /\ y.manifest = corpus /\ y.todo = {}
    BY <1>3, <2>1, ApprovedFacts DEF Idle, SyncType
  <2>4. Scrupulous(y)
    BY <2>3 DEF Scrupulous, InHand, Indexing, Removing
  <2> QED
    BY <2>2, <2>3, <2>4, StaysScrupulousAlone
<1>6. CASE ListStore(s)
  <2>1. PICK y : y = [x EXCEPT !.step = "plan", !.present = Attached]
    OBVIOUS
  <2>2. /\ sync' = [sync EXCEPT ![s] = y] /\ spent' = spent
        /\ corpus' = corpus /\ row' = row /\ file' = file /\ sealed' = sealed
    BY <1>1, <1>6, <2>1 DEF ListStore
  <2>3. y \in SyncType /\ y.step = "plan" /\ y.manifest = x.manifest /\ y.todo = x.todo
    BY <1>2, <2>1 DEF SyncType, Attached
  <2>4. Scrupulous(y)
    BY <1>2, <2>3 DEF Scrupulous, InHand, Indexing, Removing
  <2> QED
    BY <1>1, <2>2, <2>3, <2>4, StaysScrupulousAlone
<1>7. CASE Plan(s)
  <2>1. PICK todo : todo = PlanOf(x.manifest, x.present)
    OBVIOUS
  <2>2. PICK y : y = [x EXCEPT !.step = "next", !.todo = todo]
    OBVIOUS
  <2>3. /\ sync' = [sync EXCEPT ![s] = y] /\ spent' = spent
        /\ corpus' = corpus /\ row' = row /\ file' = file /\ sealed' = sealed
    BY <1>1, <1>7, <2>1, <2>2 DEF Plan
  <2>4. ASSUME NEW a \in todo
        PROVE  /\ a \in ActionType /\ a.doc \in Docs /\ a.type \in {"upload", "replace", "remove"}
               /\ a.type # "remove" => Approved(x.manifest[a.doc])
    <3>1. PICK d \in Docs :
            \/ a = Action("upload", d) /\ ToUpload(x.manifest, x.present, d)
            \/ a = Action("replace", d) /\ ToReplace(x.manifest, x.present, d)
            \/ a = Action("remove", d)
      BY <2>1, <2>4 DEF PlanOf
    <3>2. row[d].file \in 0..MaxFiles
      BY ApprovedFacts DEF DocRows, DocRow
    <3> QED
      BY <3>1, <3>2 DEF Action, ActionType, ToUpload, ToReplace
  <2>5. y \in SyncType /\ y.step = "next" /\ y.manifest = x.manifest /\ y.todo = todo
    BY <1>2, <2>2, <2>4 DEF SyncType
  <2>6. Scrupulous(y)
    BY <2>4, <2>5 DEF Scrupulous, InHand, Indexing, Removing
  <2> QED
    BY <1>1, <2>3, <2>5, <2>6, StaysScrupulousAlone
<1>8. ASSUME NEW a \in sync[s].todo, NextAction(s, a) PROVE ApprovedInv'
  <2>1. PICK y : y = [x EXCEPT !.step = FirstStep[a.type], !.doing = a, !.todo = @ \ {a}]
    OBVIOUS
  <2>2. /\ sync' = [sync EXCEPT ![s] = y] /\ spent' = spent
        /\ corpus' = corpus /\ row' = row /\ file' = file /\ sealed' = sealed
    BY <1>1, <1>8, <2>1 DEF NextAction
  <2>3. /\ a \in ActionType /\ a.doc \in Docs /\ a.type \in {"upload", "replace", "remove"}
        /\ a.type # "remove" => Approved(x.manifest[a.doc])
    BY <1>1, <1>2 DEF Scrupulous, SyncType
  <2>4. FirstStep[a.type] = IF a.type = "upload" THEN "markIndexing"
                            ELSE IF a.type = "replace" THEN "create" ELSE "markRemoved"
    BY <2>3 DEF FirstStep
  <2>5. /\ y \in SyncType /\ y.step = FirstStep[a.type] /\ y.manifest = x.manifest
        /\ y.todo = x.todo \ {a} /\ y.doing = a
    BY <1>2, <2>1, <2>3, <2>4 DEF SyncType, InHand, Indexing, Removing
  <2>6. Scrupulous(y)
    BY <1>2, <2>3, <2>4, <2>5 DEF Scrupulous
  <2> QED
    BY <1>1, <2>2, <2>5, <2>6, StaysScrupulousAlone
<1> QED
  BY <1>4, <1>5, <1>6, <1>7, <1>8

LEMMA CleansScrupulously ==
    ASSUME ApprovedInv, NEW s \in Syncs,
           \/ BeginCleanup(s) \/ \E what \in {"remote", "referenced"} : ReadForCleanup(s, what)
           \/ \E f \in Files : RemoveOrphan(s, f)
    PROVE  ApprovedInv'
<1>1. PICK x : x = sync[s]
  OBVIOUS
<1>2. x \in SyncType /\ Scrupulous(x)
  BY <1>1, ApprovedFacts
<1>3. ASSUME NEW y \in SyncType, y.step = "cleanup", y.manifest = x.manifest, y.todo = x.todo
      PROVE  Scrupulous(y)
  BY <1>2, <1>3 DEF Scrupulous, InHand, Indexing, Removing
<1>4. CASE BeginCleanup(s)
  <2>1. PICK y : y = [x EXCEPT !.step = "cleanup", !.toRead = {"remote", "referenced"}]
    OBVIOUS
  <2>2. /\ sync' = [sync EXCEPT ![s] = y] /\ spent' = spent
        /\ corpus' = corpus /\ row' = row /\ file' = file /\ sealed' = sealed
    BY <1>1, <1>4, <2>1 DEF BeginCleanup
  <2>3. y \in SyncType /\ y.step = "cleanup" /\ y.manifest = x.manifest /\ y.todo = x.todo
    BY <1>2, <2>1 DEF SyncType
  <2> QED
    BY <1>1, <1>3, <2>2, <2>3, StaysScrupulousAlone
<1>5. ASSUME NEW what \in {"remote", "referenced"}, ReadForCleanup(s, what) PROVE ApprovedInv'
  <2>1. PICK y : y = [x EXCEPT !.toRead = @ \ {what},
                               !.remote = IF what = "remote" THEN Attached ELSE @,
                               !.referenced = IF what = "referenced" THEN Referenced ELSE @]
    OBVIOUS
  <2>2. /\ sync' = [sync EXCEPT ![s] = y] /\ spent' = spent /\ x.step = "cleanup"
        /\ corpus' = corpus /\ row' = row /\ file' = file /\ sealed' = sealed
    BY <1>1, <1>5, <2>1 DEF ReadForCleanup
  <2>3. Attached \in SUBSET Files /\ Referenced \in SUBSET Files
    BY ApprovedFacts, KnowledgeAssumption DEF Attached, Referenced, DocRows, DocRow, Files, NoFile
  <2>4. y \in SyncType /\ y.step = "cleanup" /\ y.manifest = x.manifest /\ y.todo = x.todo
    BY <1>2, <2>1, <2>2, <2>3 DEF SyncType
  <2> QED
    BY <1>1, <1>3, <2>2, <2>4, StaysScrupulousAlone
<1>6. ASSUME NEW f \in Files, RemoveOrphan(s, f) PROVE ApprovedInv'
  <2>1. PICK b \in BOOLEAN :
          sync' = [sync EXCEPT ![s] = [x EXCEPT !.remote = @ \ {f}, !.failed = b]]
    <3>1. CASE sync' = [sync EXCEPT ![s].remote = @ \ {f}]
      <4>1. [x EXCEPT !.remote = @ \ {f}] = [x EXCEPT !.remote = @ \ {f}, !.failed = x.failed]
        BY <1>2 DEF SyncType
      <4>2. sync' = [sync EXCEPT ![s] = [x EXCEPT !.remote = @ \ {f}]]
        BY <1>1, <3>1
      <4> QED
        BY <1>2, <4>1, <4>2 DEF SyncType
    <3>2. CASE sync' = [sync EXCEPT ![s].remote = @ \ {f}, ![s].failed = TRUE]
      <4>1. sync' = [sync EXCEPT ![s] = [x EXCEPT !.remote = @ \ {f}, !.failed = TRUE]]
        BY <1>1, <3>2
      <4> QED
        BY <4>1
    <3> QED
      BY <1>6, <3>1, <3>2 DEF RemoveOrphan
  <2>2. PICK y : y = [x EXCEPT !.remote = @ \ {f}, !.failed = b]
    OBVIOUS
  <2>3. y \in SyncType /\ y.step = x.step /\ y.manifest = x.manifest /\ y.todo = x.todo
    BY <1>2, <2>2 DEF SyncType
  <2>4. /\ x.step = "cleanup" /\ (spent' = spent \/ Fault) /\ row' = row /\ corpus' = corpus
        /\ sealed' = sealed /\ (WriterRemoves(f) \/ WriterFailsToRemove(f))
    BY <1>1, <1>6 DEF RemoveOrphan, WriterFailsToRemove
  <2>5. file' \in Store /\ FilesSealed'
    BY <2>4, WriterKeepsText
  <2>6. sync' = [sync EXCEPT ![s] = y] /\ row' \in DocRows /\ Scrupulous(y)
    BY <1>3, <2>1, <2>2, <2>3, <2>4, ApprovedFacts
  <2> QED
    BY <1>1, <2>3, <2>4, <2>5, <2>6, StaysScrupulous
<1> QED
  BY <1>4, <1>5, <1>6

\* The steps of indexDocument that touch a file or fail.
LEMMA IndexesScrupulously ==
    ASSUME ApprovedInv, NEW s \in Syncs,
           \/ MarkIndexing(s) \/ CreateFile(s) \/ CreateFileFails(s) \/ Attach(s)
           \/ AttachFails(s) \/ MarkReadyFails(s)
    PROVE  ApprovedInv'
<1>1. PICK x, d : x = sync[s] /\ d = x.doing.doc
  OBVIOUS
<1>2. x \in SyncType /\ Scrupulous(x) /\ x.manifest \in [Docs -> Entries]
  BY <1>1, ApprovedFacts DEF SyncType
<1>3. ASSUME NEW e \in Docs PROVE x.manifest[e].text \in Texts \cup {0}
  BY <1>2, EntryShape
<1>4. ASSUME NEW y \in SyncType, y.manifest = x.manifest, y.todo = x.todo, y.doing = x.doing,
             x.step \in InHand, y.step = "create" => x.step = "markIndexing",
             y.step # "markIndexing"
      PROVE  Scrupulous(y)
  BY <1>2, <1>4 DEF Scrupulous
<1>5. CASE MarkIndexing(s)
  <2>1. PICK y : y = [x EXCEPT !.step = "create"]
    OBVIOUS
  <2>2. PICK r : r = [status |-> "INDEXING", file |-> NoFile, text |-> x.manifest[d].text]
    OBVIOUS
  <2>3. /\ sync' = [sync EXCEPT ![s] = y] /\ spent' = spent /\ x.step = "markIndexing"
        /\ corpus' = corpus /\ file' = file /\ sealed' = sealed
        /\ row' = [row EXCEPT ![d] = r]
    BY <1>1, <1>5, <2>1, <2>2 DEF MarkIndexing, GoTo
  <2>4. x.step \in InHand /\ d \in Docs
    BY <1>1, <1>2, <2>3 DEF Scrupulous, InHand, Indexing, Removing
  <2>5. /\ y \in SyncType /\ y.step = "create" /\ y.manifest = x.manifest /\ y.todo = x.todo
        /\ y.doing = x.doing
    BY <1>2, <2>1 DEF SyncType, InHand, Indexing
  <2>6. r \in DocRow
    BY <1>3, <2>2, <2>4, KnowledgeAssumption DEF DocRow, Statuses, NoFile
  <2>7. row' \in DocRows /\ file' \in Store /\ FilesSealed'
    BY <2>3, <2>6, ApprovedFacts DEF DocRows, FilesSealed
  <2> QED
    BY <1>1, <1>4, <2>3, <2>4, <2>5, <2>7, StaysScrupulous
<1>6. CASE CreateFile(s)
  <2>1. PICK f : f = CHOOSE g \in Files : Fresh(g)
    OBVIOUS
  <2>2. f \in Files
    BY <1>6, <2>1 DEF CreateFile
  <2>3. PICK y : y = [x EXCEPT !.step = "attach", !.uploaded = f]
    OBVIOUS
  <2>4. PICK z : z = [state |-> "stored", doc |-> d, text |-> x.manifest[d].text]
    OBVIOUS
  <2>5. /\ sync' = [sync EXCEPT ![s] = y] /\ spent' = spent /\ x.step = "create"
        /\ corpus' = corpus /\ row' = row /\ sealed' = sealed
        /\ file' = [file EXCEPT ![f] = z]
    BY <1>1, <1>6, <2>1, <2>3, <2>4 DEF CreateFile
  <2>6. x.step \in InHand /\ d \in Docs /\ Approved(x.manifest[d])
    BY <1>1, <1>2, <2>5 DEF Scrupulous, InHand, Indexing, Removing
  <2>7. /\ y \in SyncType /\ y.step = "attach" /\ y.manifest = x.manifest /\ y.todo = x.todo
        /\ y.doing = x.doing
    BY <1>2, <2>2, <2>3, FileNumbers DEF SyncType, InHand, Indexing
  <2>8. z \in StoredFile /\ <<z.doc, z.text>> \in sealed
    <3>1. z \in StoredFile
      BY <1>3, <2>4, <2>6 DEF StoredFile
    <3>2. AllSealed(x.manifest, sealed)
      BY <1>1, ApprovedFacts
    <3> QED
      BY <2>4, <2>6, <3>1, <3>2 DEF AllSealed, Approved
  <2>9. file' \in Store /\ FilesSealed'
    BY <2>2, <2>5, <2>8, ApprovedFacts DEF Store, FilesSealed
  <2>10. row' \in DocRows
    BY <2>5, ApprovedFacts
  <2> QED
    BY <1>1, <1>4, <2>5, <2>6, <2>7, <2>9, <2>10, StaysScrupulous
<1>7. CASE CreateFileFails(s)
  <2>1. PICK y : y = [x EXCEPT !.step = "indexFailed"]
    OBVIOUS
  <2>2. /\ sync' = [sync EXCEPT ![s] = y] /\ Fault /\ x.step \in InHand
        /\ corpus' = corpus /\ row' = row /\ file' = file /\ sealed' = sealed
    BY <1>1, <1>7, <2>1 DEF CreateFileFails, GoTo, InHand, Indexing
  <2>3. /\ y \in SyncType /\ y.step = "indexFailed" /\ y.manifest = x.manifest
        /\ y.todo = x.todo /\ y.doing = x.doing
    BY <1>2, <2>1 DEF SyncType, InHand, Indexing
  <2> QED
    BY <1>1, <1>4, <2>2, <2>3, StaysScrupulousAlone
<1>8. CASE Attach(s)
  <2>1. PICK f, y : f = x.uploaded /\ y = [x EXCEPT !.step = "markReady"]
    OBVIOUS
  <2>2. PICK z : z = [file[f] EXCEPT !.state = "completed"]
    OBVIOUS
  <2>3. /\ sync' = [sync EXCEPT ![s] = y] /\ spent' = spent /\ x.step \in InHand
        /\ corpus' = corpus /\ row' = row /\ sealed' = sealed /\ file[f] # Absent
    BY <1>1, <1>8, <2>1 DEF Attach, GoTo, InHand, Indexing
  <2>4. file' = [file EXCEPT ![f] = z]
    BY <1>1, <1>8, <2>1, <2>2 DEF Attach
  <2>5. file' \in Store /\ FilesSealed'
    BY <2>2, <2>3, <2>4, SameText
  <2>6. /\ y \in SyncType /\ y.step = "markReady" /\ y.manifest = x.manifest
        /\ y.todo = x.todo /\ y.doing = x.doing /\ row' \in DocRows
    BY <1>2, <2>1, <2>3, ApprovedFacts DEF SyncType, InHand, Indexing
  <2> QED
    BY <1>1, <1>4, <2>3, <2>5, <2>6, StaysScrupulous
<1>9. CASE AttachFails(s)
  <2>1. PICK f, y : f = x.uploaded /\ y = [x EXCEPT !.step = "indexFailed", !.uploaded = NoFile]
    OBVIOUS
  <2>2. /\ sync' = [sync EXCEPT ![s] = y] /\ (spent' = spent \/ Fault) /\ x.step \in InHand
        /\ corpus' = corpus /\ row' = row /\ sealed' = sealed
    BY <1>1, <1>9, <2>1 DEF AttachFails, InHand, Indexing
  <2>3. file' \in Store /\ FilesSealed'
    <3>1. CASE file' = file
      BY <2>2, <3>1, ApprovedFacts DEF FilesSealed
    <3>2. ASSUME file[f] # Absent, NEW left \in {"absent", "stored", "pending", "completed"},
                 file' = [file EXCEPT ![f] = IF left = "absent" THEN Absent
                                             ELSE [@ EXCEPT !.state = left]]
          PROVE  file' \in Store /\ FilesSealed'
      <4>1. PICK z : z = IF left = "absent" THEN Absent ELSE [file[f] EXCEPT !.state = left]
        OBVIOUS
      <4>2. file' = [file EXCEPT ![f] = z]
        BY <3>2, <4>1
      <4> QED
        BY <2>2, <3>2, <4>1, <4>2, SameText
    <3> QED
      BY <1>1, <1>9, <2>1, <3>1, <3>2 DEF AttachFails
  <2>4. /\ y \in SyncType /\ y.step = "indexFailed" /\ y.manifest = x.manifest
        /\ y.todo = x.todo /\ y.doing = x.doing /\ row' \in DocRows
    BY <1>2, <2>1, <2>2, ApprovedFacts, FileNumbers DEF SyncType, InHand, Indexing
  <2> QED
    BY <1>1, <1>4, <2>2, <2>3, <2>4, StaysScrupulous
<1>10. CASE MarkReadyFails(s)
  <2>1. /\ Fault /\ x.step \in InHand /\ corpus' = corpus /\ row' = row /\ file' = file
        /\ sealed' = sealed
    BY <1>1, <1>10 DEF MarkReadyFails, InHand, Indexing
  <2>2. CASE sync' = [sync EXCEPT ![s].step = "indexFailed", ![s].uploaded = NoFile]
    <3>1. PICK y : y = [x EXCEPT !.step = "indexFailed", !.uploaded = NoFile]
      OBVIOUS
    <3>2. sync' = [sync EXCEPT ![s] = y]
      BY <1>1, <2>2, <3>1
    <3>3. /\ y \in SyncType /\ y.step = "indexFailed" /\ y.manifest = x.manifest
          /\ y.todo = x.todo /\ y.doing = x.doing
      BY <1>2, <3>1, FileNumbers DEF SyncType, InHand, Indexing
    <3> QED
      BY <1>1, <1>4, <2>1, <3>2, <3>3, StaysScrupulousAlone
  <2>3. CASE EndAction(s, TRUE)
    <3>1. PICK y \in SyncType : /\ sync' = [sync EXCEPT ![s] = y]
                                /\ y.manifest = sync[s].manifest /\ Scrupulous(y)
      BY <1>1, <2>1, <2>3, StepOfAction
    <3> QED
      BY <2>1, <3>1, StaysScrupulousAlone
  <2> QED
    BY <1>10, <2>2, <2>3 DEF MarkReadyFails
<1> QED
  BY <1>5, <1>6, <1>7, <1>8, <1>9, <1>10

\* The steps that write a row, and the removals.
LEMMA RecordsScrupulously ==
    ASSUME ApprovedInv, NEW s \in Syncs,
           \/ MarkReady(s) \/ RecordIndexFailure(s) \/ RemovePrevious(s)
           \/ MarkRemoved(s) \/ RemoveRemote(s) \/ ForgetFile(s)
    PROVE  ApprovedInv'
<1>1. PICK x, d : x = sync[s] /\ d = x.doing.doc
  OBVIOUS
<1>2. x \in SyncType /\ x.manifest \in [Docs -> Entries] /\ x.step \in InHand
  BY <1>1, ApprovedFacts
  DEF SyncType, MarkReady, RecordIndexFailure, RemovePrevious, MarkRemoved, RemoveRemote,
      ForgetFile, InHand, Indexing, Removing
<1>3. d \in Docs /\ row[d] \in DocRow /\ x.manifest[d].text \in Texts \cup {0}
  BY <1>1, <1>2, StepOfAction, ApprovedFacts, EntryShape DEF DocRows
<1>4. PICK y \in SyncType : /\ sync' = [sync EXCEPT ![s] = y]
                            /\ y.manifest = sync[s].manifest /\ Scrupulous(y)
  <2>1. \/ \E next \in InHand \ {"markIndexing", "create"} : GoTo(s, next)
        \/ \E failed \in BOOLEAN : EndAction(s, failed)
    BY DEF MarkReady, RecordIndexFailure, RemovePrevious, MarkRemoved, RemoveRemote, ForgetFile,
           InHand, Indexing, Removing
  <2> QED
    BY <1>1, <1>2, <2>1, StepOfAction
<1>5. /\ corpus' = corpus /\ sealed' = sealed /\ (spent' = spent \/ Fault)
  BY DEF MarkReady, RecordIndexFailure, RemovePrevious, MarkRemoved, RemoveRemote, ForgetFile,
         WriterFailsToRemove
<1>6. file' \in Store /\ FilesSealed'
  <2>1. CASE file' = file
    BY <1>5, <2>1, ApprovedFacts DEF FilesSealed
  <2>2. ASSUME NEW f, WriterRemoves(f) \/ WriterFailsToRemove(f)
        PROVE  file' \in Store /\ FilesSealed'
    BY <1>5, <2>2, WriterKeepsText
  <2> QED
    BY <2>1, <2>2 DEF MarkReady, RecordIndexFailure, RemovePrevious, MarkRemoved, RemoveRemote,
       ForgetFile
<1>7. row' \in DocRows
  <2>1. ASSUME NEW r \in DocRow, row' = [row EXCEPT ![d] = r] PROVE row' \in DocRows
    BY <2>1, ApprovedFacts DEF DocRows
  <2>2. CASE row' = row
    BY <2>2, ApprovedFacts
  <2>3. CASE MarkReady(s)
    <3>1. PICK r : r = [status |-> "READY", file |-> x.uploaded, text |-> x.manifest[d].text]
      OBVIOUS
    <3>2. row' = [row EXCEPT ![d] = r]
      BY <1>1, <2>3, <3>1 DEF MarkReady
    <3>3. r \in DocRow
      BY <1>2, <1>3, <3>1 DEF DocRow, Statuses, SyncType
    <3> QED
      BY <2>1, <3>2, <3>3
  <2>4. ASSUME NEW status \in Statuses, row' = [row EXCEPT ![d].status = status]
        PROVE  row' \in DocRows
    <3>1. PICK r : r = [row[d] EXCEPT !.status = status]
      OBVIOUS
    <3>2. row' = [row EXCEPT ![d] = r] /\ r \in DocRow
      BY <1>3, <2>4, <3>1 DEF DocRow
    <3> QED
      BY <2>1, <3>2
  <2>5. CASE row' = [row EXCEPT ![d].status = "REMOVED", ![d].file = NoFile]
    <3>1. PICK r : r = [row[d] EXCEPT !.status = "REMOVED", !.file = NoFile]
      OBVIOUS
    <3>2. row' = [row EXCEPT ![d] = r] /\ r \in DocRow
      BY <1>3, <2>5, <3>1, FileNumbers DEF DocRow, Statuses
    <3> QED
      BY <2>1, <3>2
  <2>6. CASE RecordIndexFailure(s)
    <3>1. PICK status : status = IF x.doing.type = "upload" THEN "FAILED" ELSE "READY"
      OBVIOUS
    <3>2. status \in Statuses /\ row' = [row EXCEPT ![d].status = status]
      BY <1>1, <2>6, <3>1 DEF RecordIndexFailure, Statuses
    <3> QED
      BY <2>4, <3>2
  <2>7. CASE MarkRemoved(s)
    <3>1. row' = [row EXCEPT ![d].status = "REMOVED"]
      BY <1>1, <2>7 DEF MarkRemoved
    <3> QED
      BY <2>4, <3>1 DEF Statuses
  <2>8. CASE RemovePrevious(s) \/ RemoveRemote(s) \/ ForgetFile(s)
    BY <1>1, <2>2, <2>5, <2>8 DEF RemovePrevious, RemoveRemote, ForgetFile
  <2> QED
    BY <2>3, <2>6, <2>7, <2>8
<1> QED
  BY <1>4, <1>5, <1>6, <1>7, StaysScrupulous

\* Edits, swaps and the provider.
LEMMA OthersKeepApproved ==
    ASSUME ApprovedInv,
           \/ \E d \in Docs, e \in Entries : EditCorpus(d, e)
           \/ SwapStore \/ (\E f \in Files : ProviderIndexes(f)) \/ UNCHANGED knowledgeVars
    PROVE  ApprovedInv'
<1>1. ASSUME NEW d \in Docs, NEW e \in Entries, EditCorpus(d, e) PROVE ApprovedInv'
  <2>1. /\ corpus' = [corpus EXCEPT ![d] = e] /\ row' = row /\ file' = file /\ sync' = sync
        /\ sealed' = IF e.as = "approved" THEN sealed \cup {<<d, e.seal>>} ELSE sealed
        /\ spent' = [spent EXCEPT !.edits = @ + 1]
    BY <1>1 DEF EditCorpus
  <2>2. sealed \subseteq sealed'
    BY <2>1
  <2>3. KnowledgeShape'
    BY <2>1 DEF ApprovedInv, KnowledgeShape
  <2>4. FilesSealed'
    BY <2>1, <2>2 DEF ApprovedInv, FilesSealed
  <2>5. AllSealed(corpus', sealed')
    <3> SUFFICES ASSUME NEW c \in Docs, corpus'[c].as = "approved"
                 PROVE  <<c, corpus'[c].seal>> \in sealed'
      BY DEF AllSealed
    <3>1. CASE c = d
      BY <2>1, <3>1 DEF ApprovedInv, KnowledgeShape
    <3>2. CASE c # d
      BY <2>1, <2>2, <3>2 DEF ApprovedInv, KnowledgeShape, AllSealed
    <3> QED
      BY <3>1, <3>2
  <2>6. \A s \in Syncs : AllSealed(sync'[s].manifest, sealed') /\ Scrupulous(sync'[s])
    BY <2>1, <2>2 DEF ApprovedInv, AllSealed
  <2> QED
    BY <2>3, <2>4, <2>5, <2>6 DEF ApprovedInv
<1>2. ASSUME corpus' = corpus, row' = row, sync' = sync, sealed' = sealed, file' \in Store,
             spent' \in [edits : Nat, faults : Nat, swaps : Nat], FilesSealed'
      PROVE  ApprovedInv'
  BY <1>2 DEF ApprovedInv, KnowledgeShape
<1>3. CASE SwapStore
  <2>1. /\ corpus' = corpus /\ row' = row /\ sync' = sync /\ sealed' = sealed
        /\ file' = [f \in Files |-> IF file[f] = Absent THEN Absent
                                                       ELSE [file[f] EXCEPT !.state = "stored"]]
        /\ spent' = [spent EXCEPT !.swaps = @ + 1]
    BY <1>3 DEF SwapStore
  <2>2. ASSUME NEW f \in Files
        PROVE  /\ file'[f] \in StoredFile
               /\ file'[f].state # "absent" => <<file'[f].doc, file'[f].text>> \in sealed
    <3>1. file[f] \in StoredFile /\ (file[f].state # "absent" => <<file[f].doc, file[f].text>> \in sealed)
      BY DEF ApprovedInv, KnowledgeShape, Store, FilesSealed
    <3>2. CASE file[f] = Absent
      BY <2>1, <3>2 DEF Absent, StoredFile
    <3>3. CASE file[f] # Absent
      <4>1. file[f] \in [state : {"stored", "pending", "completed"}, doc : Docs,
                         text : Texts \cup {0}]
        BY <3>1, <3>3 DEF StoredFile
      <4>2. file'[f] = [file[f] EXCEPT !.state = "stored"]
        BY <2>1, <3>3
      <4> QED
        BY <3>1, <4>1, <4>2 DEF StoredFile
    <3> QED
      BY <3>2, <3>3
  <2>3. file' \in Store /\ FilesSealed'
    BY <2>1, <2>2 DEF Store, FilesSealed
  <2>4. spent' \in [edits : Nat, faults : Nat, swaps : Nat]
    BY <2>1 DEF ApprovedInv, KnowledgeShape
  <2> QED
    BY <1>2, <2>1, <2>3, <2>4
<1>4. ASSUME NEW f \in Files, ProviderIndexes(f) PROVE ApprovedInv'
  <2>1. PICK z : z = [file[f] EXCEPT !.state = "completed"]
    OBVIOUS
  <2>2. /\ corpus' = corpus /\ row' = row /\ sync' = sync /\ sealed' = sealed /\ spent' = spent
        /\ file' = [file EXCEPT ![f] = z] /\ file[f] # Absent
    BY <1>4, <2>1 DEF ProviderIndexes, Absent
  <2>3. file' \in Store /\ FilesSealed'
    BY <2>1, <2>2, SameText
  <2> QED
    BY <1>2, <2>2, <2>3 DEF ApprovedInv, KnowledgeShape
<1>5. CASE UNCHANGED knowledgeVars
  <2>1. FilesSealed'
    BY <1>5 DEF knowledgeVars, ApprovedInv, FilesSealed
  <2> QED
    BY <1>2, <1>5, <2>1 DEF knowledgeVars, ApprovedInv, KnowledgeShape
<1> QED
  BY <1>1, <1>3, <1>4, <1>5

\* However many commands overlap, and whatever is edited, fails, dies or is swapped, the
\* assistant quotes only texts that a manifest has approved (AI-009; evaluateDocument and
\* indexDocument).  That each is quoted as the manifest of now has it takes commands that do
\* not overlap: CorpusStaysApproved.
THEOREM OnlyApprovedIsServed == KnowledgeSpec => []ServableIsApproved
<1>1. KnowledgeInit => ApprovedInv
  <2> SUFFICES ASSUME KnowledgeInit PROVE ApprovedInv
    OBVIOUS
  <2>1. KnowledgeInv
    BY KnowledgeInitHolds
  <2>2. ASSUME NEW s \in Syncs PROVE Scrupulous(sync[s])
    BY DEF KnowledgeInit, Idle, Scrupulous, InHand, Indexing, Removing
  <2> QED
    BY <2>1, <2>2 DEF KnowledgeInv, ApprovedInv
<1>2. ASSUME ApprovedInv, [KnowledgeNext]_knowledgeVars PROVE ApprovedInv'
  <2>1. ASSUME NEW s \in Syncs, StartSync(s) \/ Work(s) \/ CommandStops(s) PROVE ApprovedInv'
    BY <1>2, <2>1, PlansScrupulously, CleansScrupulously, IndexesScrupulously,
       RecordsScrupulously DEF Work
  <2> QED
    BY <1>2, <2>1, OthersKeepApproved DEF KnowledgeNext
<1>3. ApprovedInv => ServableIsApproved
  BY DEF ApprovedInv, FilesSealed, ServableIsApproved, Servable
<1> QED
  BY <1>1, <1>2, <1>3, PTL DEF KnowledgeSpec
=============================================================================
