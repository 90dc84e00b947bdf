------------------------------- MODULE MCChat -------------------------------
(* Instances of AssistantChat for TLC. *)
EXTENDS AssistantChat, TLC
=============================================================================
