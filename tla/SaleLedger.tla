----------------------------- MODULE SaleLedger -----------------------------
(***************************************************************************)
(* What the sales service promises about money, and nothing else: a sale   *)
(* is recognised once for a fixed amount, is collected up to that amount   *)
(* and never beyond, and is closed at most once, giving back no more than  *)
(* was received.  How documents are drafted, quoted, numbered, converted   *)
(* or dated does not show here.  Module Sales is shown to implement this   *)
(* specification under the mapping it calls Account.                       *)
(***************************************************************************)
EXTENDS Naturals

CONSTANTS
    Docs,     \* identities of the rows of table "Invoice"
    Amounts   \* amounts of money, in the smallest unit the model tells apart

VARIABLE account   \* what one sale is worth and what was received for it

Blank == [state |-> "open", due |-> 0, paid |-> 0, refunded |-> 0]

Init == account = [d \in Docs |-> Blank]

\* A sale is recognised for a total and what was paid on the spot.
Recognise(d) ==
    /\ account[d].state = "open"
    /\ \E total \in Amounts : \E initial \in {a \in Amounts : a <= total} :
         account' = [account EXCEPT ![d] =
                       [state |-> "owed", due |-> total, paid |-> initial, refunded |-> 0]]

\* A later payment: never more than what is still owed.
Collect(d) ==
    /\ account[d].state = "owed"
    /\ \E a \in Amounts \ {0} :
         /\ account[d].paid + a <= account[d].due
         /\ account' = [account EXCEPT ![d] =
                       [state |-> "owed", due |-> account[d].due,
                        paid |-> account[d].paid + a, refunded |-> account[d].refunded]]

\* A cancellation: gives back between nothing and all that was received.
Close(d) ==
    /\ account[d].state = "owed"
    /\ \E r \in {a \in Amounts : a <= account[d].paid} :
         account' = [account EXCEPT ![d] =
                       [state |-> "closed", due |-> account[d].due,
                        paid |-> account[d].paid, refunded |-> r]]

Next == \E d \in Docs : Recognise(d) \/ Collect(d) \/ Close(d)

Spec == Init /\ [][Next]_account
=============================================================================
