------------------------------- MODULE MCSales -------------------------------
(* Instances of Sales for TLC. *)
EXTENDS Sales, TLC

\* Documents are interchangeable: sound for the invariants and action properties.
Interchangeable == Permutations(Docs)
=============================================================================
