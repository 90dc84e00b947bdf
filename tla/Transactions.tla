---------------------------- MODULE Transactions ----------------------------
(***************************************************************************)
(* The wrapper every handler runs in (features/*/transaction.ts): a        *)
(* SERIALIZABLE transaction of PostgreSQL, begun again from the start when *)
(* the database reports a conflict, at most MaxAttempts times.  The other  *)
(* modules take a handler as one atomic step; this one shows the steps the *)
(* step stands for, on the handler whose rule is the most exposed to       *)
(* them: the change of an administrator's role (users/service.ts, update), *)
(* which reads the actor, the target and the number of administrators, and *)
(* writes the target only.                                                 *)
(***************************************************************************)
EXTENDS AtomicRequests

CONSTANT MaxAttempts   \* 4 in the code: attempt < 3 begins another one

ASSUME MaxAttemptsAssumption == MaxAttempts \in Nat \ {0}

VARIABLE tx   \* the attempt of each request: [phase, attempt, snapshot]

txVars == <<roles, answer, tx>>

NoSnapshot == [a \in {} |-> "none"]

TxInit ==
    /\ AtomicInit
    /\ tx = [r \in Changes |-> [phase |-> "idle", attempt |-> 0, snapshot |-> NoSnapshot]]

\* The attempt is over; how many there were is remembered.
Ended(e) == [phase |-> "idle", attempt |-> e.attempt, snapshot |-> NoSnapshot]

Answer(r, what) ==
    /\ answer' = [answer EXCEPT ![r] = what]
    /\ tx' = [tx EXCEPT ![r] = Ended(@)]

\* The attempts are counted up to the first one too many.
NextAttempt(n) == IF n > MaxAttempts THEN n ELSE n + 1

\* An attempt begins: everything `work` reads comes from this snapshot.
BeginAttempt(r) ==
    /\ answer[r] = "none"
    /\ tx[r].phase = "idle"
    /\ tx' = [tx EXCEPT ![r] = [phase |-> "running", attempt |-> NextAttempt(@.attempt),
                                snapshot |-> roles]]
    /\ UNCHANGED <<roles, answer>>

\* `work` throws an AppError: the transaction is rolled back.
RefuseRequest(r) ==
    /\ tx[r].phase = "running"
    /\ ~Allowed(tx[r].snapshot, r)
    /\ Answer(r, "refused")
    /\ UNCHANGED roles

\* The option isolationLevel is left out: the default, READ COMMITTED, validates nothing.
ReadCommitted(r) == TRUE

\* SERIALIZABLE: what the transaction read (the count reads every account) was not
\* changed by one that committed meanwhile.
Validated(r) == tx[r].snapshot = roles

Commit(r) ==
    /\ tx[r].phase = "running"
    /\ Allowed(tx[r].snapshot, r)
    /\ Validated(r)
    /\ roles' = [roles EXCEPT ![r.target] = r.to]
    /\ Answer(r, "done")

\* Whether the loop of the wrapper goes round once more.
MayRetry(r) == tx[r].attempt < MaxAttempts

\* A conflict repeats the final write only, with the decision already taken.
ConflictRewrites(r) ==
    /\ tx[r].phase = "running"
    /\ Allowed(tx[r].snapshot, r)
    /\ roles' = [roles EXCEPT ![r.target] = r.to]
    /\ Answer(r, "done")

\* P2034 (or 40001 under P2010): PostgreSQL may report it to a running transaction
\* even without need.  The whole of `work` is evaluated again, on a new snapshot.
Conflict(r) ==
    /\ tx[r].phase = "running"
    /\ \/ /\ MayRetry(r)
          /\ tx' = [tx EXCEPT ![r] = Ended(@)]
          /\ UNCHANGED answer
       \/ /\ ~MayRetry(r)
          /\ Answer(r, "conflict")
    /\ UNCHANGED roles

\* The process or its connection dies: PostgreSQL rolls the attempt back.
ProcessStops(r) ==
    /\ tx[r].phase = "running"
    /\ Answer(r, "lost")
    /\ UNCHANGED roles

TxNext ==
    \E r \in Changes : BeginAttempt(r) \/ RefuseRequest(r) \/ Commit(r) \/ Conflict(r) \/ ProcessStops(r)

\* The server keeps working on the requests it has received; conflicts and crashes
\* happen to it.  A running attempt ends because PostgreSQL either commits or aborts it.
Works == \E r \in Changes : BeginAttempt(r) \/ RefuseRequest(r) \/ Commit(r) \/ Conflict(r)

TxFairness == WF_txVars(Works)

TxSpec == TxInit /\ [][TxNext]_txVars /\ TxFairness

-----------------------------------------------------------------------------
(* Properties *)

\* Every variable has its type, and an attempt is never beyond the last one.
TxTypeOK ==
    /\ roles \in [Accounts -> {"ADMINISTRATOR", "SELLER"}]
    /\ answer \in [Changes -> {"none", "done", "refused", "conflict", "lost"}]
    /\ tx \in [Changes -> [phase : {"idle", "running"}, attempt : 0 .. MaxAttempts,
                           snapshot : [Accounts -> {"ADMINISTRATOR", "SELLER"}] \cup {NoSnapshot}]]

\* Administrators who demote each other at the same moment, each allowed by what it has
\* read, never leave the company without one (users/service.ts, update).
SomeAdministratorRemains == Administrators(roles) # {}

\* The wrapper implements AtomicRequests: whatever conflicts, is repeated or dies on
\* the way, an effect happens once, under a rule that holds in the state it changes,
\* and a request answered otherwise has changed nothing.
EffectsAreAtomic == AtomicSpec

\* The loop ends: once a request has begun, every one is answered, if only with a conflict to
\* be retried by the user (transaction.ts, accountTransaction).
EveryRequestAnswered == (\E r \in Changes : tx[r].phase = "running") ~> (\A r \in Changes : answer[r] # "none")

=============================================================================
