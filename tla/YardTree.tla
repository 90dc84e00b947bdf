------------------------------- MODULE YardTree -------------------------------
(* The physical tree of the yard prototype and what is read off it             *)
(* (apps/web/src/mocks/services/inventory-helpers.ts).                         *)
(*                                                                             *)
(* `items` is a function from the codes registered so far to records with a    *)
(* parent (or NoItem), the draft that holds the item (or NoDraft) and the      *)
(* `noDesarmar` flag.  The code walks the tree with loops and a `seen` set; a  *)
(* walk is here the set of nodes it visits.                                    *)
EXTENDS Naturals, FiniteSets

NoItem == "-"
NoDraft == 0

\* Every strict ancestor of i.
ancestorChain(items, i) ==
  LET n == Cardinality(DOMAIN items)
      above[k \in 0..n] ==
        IF k = 0 THEN {items[i].parent} \ {NoItem}
        ELSE above[k - 1] \cup ({items[a].parent : a \in above[k - 1]} \ {NoItem})
  IN above[n]

\* Every strict descendant of i, found by scanning for children level by level.
collectSubtree(items, i) == {j \in DOMAIN items : i \in ancestorChain(items, j)}

\* The node and everything below it: what an assembly line sells.
Unit(items, i) == {i} \cup collectSubtree(items, i)

\* The first of a set of ancestors that a walk upwards meets.
Nearest(items, found) ==
  IF found = {} THEN NoItem
  ELSE CHOOSE a \in found : found \ {a} \subseteq ancestorChain(items, a)

\* First node with `noDesarmar` on the way up, the item itself included.
protectedAncestor(items, i) ==
  IF items[i].noDesarmar THEN i
  ELSE Nearest(items, {a \in ancestorChain(items, i) : items[a].noDesarmar})

\* The test every caller makes of it: restriction && restriction.id !== item.id.
Restricted(items, i) == protectedAncestor(items, i) \notin {NoItem, i}

\* Is the item, a descendant or an ancestor held?  The draft's own hold of this
\* very item does not count; its hold of a relative does.
overlappingReservation(items, i, draft) ==
  \E j \in Unit(items, i) \cup ancestorChain(items, i) :
     /\ items[j].hold # NoDraft
     /\ ~(j = i /\ items[j].hold = draft)

\* HIER-006: an assembly is complete when no missing component is recorded for it.
isComplete(missing, i) == \A k \in DOMAIN missing : missing[k].parent # i
===============================================================================
