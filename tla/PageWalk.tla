------------------------------ MODULE PageWalk ------------------------------
(***************************************************************************)
(* A list that the client needs whole is read page by page from an API     *)
(* that answers one page and a count, in two queries, while others add and *)
(* remove rows.  The lists differ in where a new row appears (at the end,  *)
(* or anywhere), in whether the count may be read before the rows, and in  *)
(* when the walk gives up.                                                 *)
(***************************************************************************)
EXTENDS Naturals, FiniteSets, Sequences, SequencesExt

CONSTANTS
    ListRows,    \* rows that may exist
    FirstRows,   \* those there are at the start, in the order of the list
    PageSize,
    MaxPage      \* a walk that goes on beyond it asks for the same empty page again

\* Page MaxPage lies beyond every list.
ASSUME WalkAssumption ==
    /\ IsFiniteSet(ListRows)
    /\ FirstRows \in Seq(ListRows) /\ IsInjective(FirstRows)
    /\ PageSize \in Nat \ {0} /\ MaxPage \in Nat \ {0}
    /\ (MaxPage - 1) * PageSize >= Cardinality(ListRows)

VARIABLES
    list,      \* which list it is
    table,     \* the rows the database has of it, in its order
    ever,      \* rows that have existed
    removed,   \* rows removed since the walk began
    walk       \* the client's loop and the page it waits for

walkVars == <<list, table, ever, removed, walk>>

\* Where a row of each list appears, whether its queries are issued together, and whether an
\* empty page ends the walk.  An old draft that is completed joins the sales of that status
\* among those created about then, and a customer joins by name.
sales == [anywhere |-> TRUE, together |-> TRUE, breaks |-> FALSE]       \* listSales
users == [anywhere |-> FALSE, together |-> FALSE, breaks |-> TRUE]      \* listUsers, the seller picker
statuses == [anywhere |-> TRUE, together |-> TRUE, breaks |-> TRUE]     \* loadInvoicesByStatus
customers == [anywhere |-> TRUE, together |-> FALSE, breaks |-> TRUE]   \* loadAllPages
Lists == {sales, users, statuses, customers}

\* `at` is what the page still waits for: both queries, one of them, or nothing.  `grown` is
\* how many rows joined the list between the count of the page and its rows.
NewWalk == [at |-> "both", page |-> 1, items |-> <<>>, got |-> <<>>, total |-> 0, grown |-> 0]

WalkInit ==
    /\ list \in Lists
    /\ table = FirstRows /\ ever = ToSet(FirstRows) /\ removed = {}
    /\ walk = NewWalk

OffsetByOne == walk.page * PageSize
Offset == (walk.page - 1) * PageSize

Smaller(a, b) == IF a < b THEN a ELSE b

\* findMany: skip and take over the rows as they are now.
ReadRows ==
    /\ walk.at \in {"both", "rows"}
    /\ walk' = [walk EXCEPT !.at = IF @ = "both" THEN "count" ELSE "answer",
                            !.got = SubSeq(table, Offset + 1, Smaller(Offset + PageSize, Len(table)))]
    /\ UNCHANGED <<list, table, ever, removed>>

\* count: a query of its own, after the rows or, when Promise.all issues the two, before them;
\* other transactions come between.
ReadCount ==
    /\ walk.at = "count" \/ (walk.at = "both" /\ list.together)
    /\ walk' = [walk EXCEPT !.at = IF @ = "both" THEN "rows" ELSE "answer", !.total = Len(table)]
    /\ UNCHANGED <<list, table, ever, removed>>

\* The loop adds the page, and asks for the next one while it has fewer rows than the count.
NextPage ==
    /\ walk.at = "answer"
    /\ LET items == walk.items \o walk.got
           over == \/ walk.got = <<>> /\ list.breaks
                   \/ Len(items) >= walk.total
       IN walk' = [walk EXCEPT !.items = items, !.got = <<>>,
                               !.page = Smaller(@ + 1, MaxPage),
                               !.at = IF over THEN "done" ELSE "both",
                               !.grown = IF over THEN @ ELSE 0]
    /\ UNCHANGED <<list, table, ever, removed>>

InsertRow(r, i) ==
    /\ r \notin ever
    /\ list.anywhere \/ i = Len(table) + 1
    /\ table' = InsertAt(table, i, r) /\ ever' = ever \cup {r}
    /\ walk' = [walk EXCEPT !.grown = IF walk.at = "rows" THEN @ + 1 ELSE @]
    /\ UNCHANGED <<list, removed>>

\* A row leaves the list: it is discarded, or its status is another now.
RemoveRow(r) ==
    /\ r \in ToSet(table) /\ list # users
    /\ table' = Remove(table, r) /\ removed' = removed \cup {r}
    /\ UNCHANGED <<list, ever, walk>>

WalkNext ==
    \/ ReadRows \/ ReadCount \/ NextPage
    \/ \E r \in ListRows: RemoveRow(r) \/ \E i \in 1..(Len(table) + 1): InsertRow(r, i)

WalkSpec == WalkInit /\ [][WalkNext]_walkVars
WalkFairness == WF_walkVars(ReadRows \/ ReadCount \/ NextPage)
---------------------------------------------------------------------------
(* A walk that is over has every row that was in the list from its start   *)
(* to its end, as long as nothing was removed meanwhile: rows that are     *)
(* added shift the others to later pages, where they are read again.  The  *)
(* lists of sales are the exception (repository.ts:281): when the count of *)
(* the last page is read before its rows, each row added between the two   *)
(* may push one out of the page with nothing left to say so, and no more   *)
(* than that is missed.                                                    *)
Missed == ToSet(FirstRows) \ ToSet(walk.items)
NothingMissed ==
    walk.at = "done" /\ removed = {} =>
        IF list.together THEN Cardinality(Missed) <= walk.grown ELSE Missed = {}

(* Users are listed oldest first and never removed, so none is shown twice *)
(* whoever is created meanwhile.                                           *)
EachUserOnce ==
    list = users => Cardinality(ToSet(walk.items)) = Len(walk.items)

(* A walk ends, whatever the count says: fetchAllPages stops at an empty   *)
(* page.  listSales has no such stop, and a sale created between the rows  *)
(* and the count of its last page leaves it asking for pages that stay     *)
(* empty: it ends if the list is left alone.                               *)
LeftAlone == removed = {} /\ ever = ToSet(FirstRows)
WalkEnds == (walk.at # "done") ~> (walk.at = "done" \/ (~list.breaks /\ ~LeftAlone))

(* A list that was read page by page has each row it should, and each user *)
(* once.                                                                   *)
WalksAreWhole == NothingMissed /\ EachUserOnce
===========================================================================
