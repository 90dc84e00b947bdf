----------------------------- MODULE MCCounter -----------------------------
(***************************************************************************)
(* What the counter does over an unreliable connection, for TLC: the page  *)
(* of an invoice with its money, or the point of sale with its drafts.     *)
(* The two pages share no state: the initial state chooses one.            *)
(***************************************************************************)
EXTENDS InvoiceDesk, PosTab, TLC

CONSTANTS d1, d2, api, t1, t2

VARIABLE scene

Next ==
    \/ scene = "desk" /\ DeskNext /\ UNCHANGED <<scene, posVars>>
    \/ scene = "pos" /\ PosNext /\ UNCHANGED <<scene, deskVars>>

ScenesInit == scene \in {"desk", "pos"} /\ DeskInit /\ PosInit

Spec ==
    /\ ScenesInit
    /\ [][Next]_<<scene, deskVars, posVars>>

\* Tabs are interchangeable: sound for the invariants.
Interchangeable == Permutations(Desks) \cup Permutations(Tabs)
============================================================================
