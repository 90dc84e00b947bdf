-------------------------- MODULE MCAssistantLive --------------------------
(***************************************************************************)
(* What the assistant must eventually do, for TLC: small instances of the  *)
(* turns, of the synchronisation and of the panel, each under the fairness *)
(* of its own module.  The initial state chooses one, the others rest.     *)
(***************************************************************************)
EXTENDS AssistantTurn, KnowledgeSync, AssistantChat

VARIABLE scene

liveVars == <<scene, assistantVars, knowledgeVars, chatVars>>

Only(part) ==
    /\ scene = part
    /\ UNCHANGED scene
    /\ IF part = "turns" THEN TRUE ELSE UNCHANGED assistantVars
    /\ IF part = "knowledge" THEN TRUE ELSE UNCHANGED knowledgeVars
    /\ IF part = "chat" THEN TRUE ELSE UNCHANGED chatVars

LiveNext ==
    \/ Only("turns") /\ AssistantNext
    \/ Only("knowledge") /\ KnowledgeNext
    \/ Only("chat") /\ ChatNext

\* The fair actions of each part, numbered: as the scene never changes, fairness of the
\* i-th of all parts is fairness of the i-th of the part chosen.
RequestNo == SetToSeq(Requests)

Due(i) ==
    \/ Only("turns") /\ i \in DOMAIN RequestNo /\ Serve(RequestNo[i])
    \/ Only("knowledge") /\ i = 1 /\ \E s \in Syncs : Work(s)
    \/ Only("knowledge") /\ i = 2 /\ \E s \in Syncs : StartSync(s)
    \/ Only("chat") /\ i = 1 /\ Reads
    \/ Only("chat") /\ i = 2 /\ QuestionAnswers

LiveInit ==
    /\ scene \in {"turns", "knowledge", "chat"}
    /\ TurnsInit /\ KnowledgeInit /\ ChatInit
    /\ scene # "chat" => selected = NoConv

LiveSpec ==
    /\ LiveInit
    /\ [][LiveNext]_liveVars
    /\ \A i \in 1..2 : WF_liveVars(Due(i))

\* Nobody waits for ever for an interrupted answer: its run ends, unless the process died
\* over it or the database refused its failure, and the composer of the panel is given back.
InterruptionsEnd == RunsEndUnlessForsaken /\ ComposerIsFreed
=============================================================================
