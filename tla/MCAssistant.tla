---------------------------- MODULE MCAssistant ----------------------------
(***************************************************************************)
(* The server side of the assistant, for TLC.  The turns of a conversation *)
(* and the synchronisation of the knowledge they search share nothing but  *)
(* the table of documents, which a turn only reads: the initial state      *)
(* chooses which of the two the run is about.                              *)
(***************************************************************************)
EXTENDS AssistantTurn, KnowledgeSync, TLC

CONSTANTS d1, d2, s1

VARIABLE scene

Next ==
    \/ scene = "turns" /\ AssistantNext /\ UNCHANGED <<scene, knowledgeVars>>
    \/ scene = "knowledge" /\ KnowledgeNext /\ UNCHANGED <<scene, assistantVars>>

ScenesInit == scene \in {"turns", "knowledge"} /\ TurnsInit /\ KnowledgeInit

Spec ==
    /\ ScenesInit
    /\ [][Next]_<<scene, assistantVars, knowledgeVars>>

\* Requests and documents are interchangeable among themselves (so are keys, but sorting
\* them out costs more than it saves): sound for the invariants and action properties.
Interchangeable == Permutations(Requests) \cup Permutations(Docs)
=============================================================================
