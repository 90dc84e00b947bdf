------------------------------- MODULE MCSale -------------------------------
(***************************************************************************)
(* One sale through its whole life, for TLC, in two scenes: what its       *)
(* handlers do, in both currencies, fiscal and not, with amounts, credit   *)
(* limits and terms that differ; and what two requests at work on it leave *)
(* for after their commits, while the database and the process fail.       *)
(***************************************************************************)
EXTENDS AfterCommit

VARIABLE scene

sceneVars == <<scene, acVars>>

Handlers ==
    /\ scene = "handlers" /\ Next
    /\ UNCHANGED <<scene, fx, pdf, req, dropped>>

\* What the other scene leaves to the first: credit, fiscal documents, amounts beyond
\* one, a client that sends the key of the confirmation, a third day.
Plain ==
    /\ today' <= 2
    /\ \A c \in Customers : cust'[c].type = "CASH" /\ ~cust'[c].rnc
    /\ \A d \in Docs :
         /\ doc'[d].gross <= 1 /\ ~doc'[d].fiscal
         /\ rows'[d][ConfirmKey] # rows[d][ConfirmKey]
              => rows'[d][ConfirmKey].kind = "PAYMENT" /\ doc'[d].status # doc[d].status

Requested == scene = "requests" /\ ACNext /\ Plain /\ UNCHANGED scene

ServerGoesOn(r) == scene = "requests" /\ Proceed(r) /\ UNCHANGED scene

SceneInit ==
    /\ scene \in {"handlers", "requests"}
    /\ IF scene = "requests" THEN ACInit
       ELSE /\ Init
            /\ fx = [d \in Docs |-> NoRate] /\ pdf = [d \in Docs |-> "NULL"]
            /\ req = [r \in Requests |-> Idle]
            /\ dropped = Docs  \* nothing is rendered in this scene

SceneSpec ==
    /\ SceneInit
    /\ [][Handlers \/ Requested]_sceneVars
    /\ \A r \in Requests : WF_sceneVars(ServerGoesOn(r))
=============================================================================
