--------------------------- MODULE AtomicRequests ---------------------------
(***************************************************************************)
(* What a caller may rely on when a handler runs inside one of the         *)
(* transaction wrappers (salesTransaction, accountTransaction,             *)
(* customerTransaction, catalogTransaction, assistantTransaction): a       *)
(* request takes effect once, at one moment, under the rule evaluated on   *)
(* the very state it changes; or it is declined and leaves nothing behind. *)
(* The rule is that of the administrators of module Transactions, which is *)
(* shown to implement this specification.                                  *)
(***************************************************************************)
EXTENDS FiniteSets, Naturals

CONSTANTS
    Accounts,   \* rows of table "User"
    Changes    \* changes of role asked for: [actor, target, to]

ASSUME RequestsAssumption ==
    Changes \subseteq [actor : Accounts, target : Accounts,
                        to : {"ADMINISTRATOR", "SELLER"}]

VARIABLES
    roles,      \* the role of each account
    answer      \* what each request was answered, "none" while it is pending

Administrators(s) == {a \in Accounts : s[a] = "ADMINISTRATOR"}

\* Whether the request takes an administrator's role away.
Removes(r) == r.to # "ADMINISTRATOR"

\* The rules of the handler, read from the state s.
Allowed(s, r) ==
    /\ r.actor \in Administrators(s)
    /\ ~(r.target = r.actor /\ Removes(r))
    /\ ~(/\ r.target \in Administrators(s)
         /\ Removes(r)
         /\ Cardinality(Administrators(s)) <= 1)

Apply(s, r) == [s EXCEPT ![r.target] = r.to]

AtomicInit ==
    /\ roles \in {s \in [Accounts -> {"ADMINISTRATOR", "SELLER"}] : Administrators(s) # {}}
    /\ answer = [r \in Changes |-> "none"]

\* The request takes effect: its rule holds in the state it changes.
Do(r) ==
    /\ answer[r] = "none"
    /\ Allowed(roles, r)
    /\ roles' = Apply(roles, r)
    /\ answer' = [answer EXCEPT ![r] = "done"]

\* Refused by the rule, given up after conflicts, or lost with the process.
Decline(r) ==
    /\ answer[r] = "none"
    /\ \E why \in {"refused", "conflict", "lost"} :
         answer' = [answer EXCEPT ![r] = why]
    /\ UNCHANGED roles

AtomicNext == \E r \in Changes : Do(r) \/ Decline(r)

AtomicSpec == AtomicInit /\ [][AtomicNext]_<<roles, answer>>
=============================================================================
