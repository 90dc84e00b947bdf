--------------------------------- MODULE Yard ---------------------------------
(* The inventory, work-order and counter commands of the web prototype         *)
(* (apps/web/src/mocks/services): the part of the business that has no API yet. *)
(* The state is one AppState object in the browser; every command runs to its  *)
(* end before the next one starts, so one action is one command.  What is hard *)
(* is the sequence: drafts hold parts of a tree that mechanics keep changing,  *)
(* and a cancellation comes back to a tree that is not the one that was sold.  *)
(*                                                                             *)
(* Prices, customers and payments are left out: where the code asks them       *)
(* whether a sale may be recognised, either answer is taken (`accepted`).      *)
EXTENDS YardTree, Sequences, SequencesExt, FiniteSetsExt

CONSTANTS
  Items,          \* inventory codes that may ever be registered
  Categories,     \* category ids
  CatOf,          \* the category of each code
  Assemblies,     \* categories with isAssembly; fixed while they have inventory
  FirstCatalogs,  \* the catalogs to start with
  Receipts,       \* the assembly receptions that are tried
  Growth,         \* catalog edits tried: <<category, expected name added>>
  Renames,        \* catalog renames tried: <<category, new name>>
  ManualOrders,   \* manual work orders tried: <<type, piece, destination>>
  Sellable,       \* items that are put on a draft or a quote
  Protectable,    \* assemblies whose noDesarmar flag is switched
  Mechanics,
  Products,       \* products kept by quantity
  MaxInvoices,    \* documents that may exist
  MaxOrders,      \* work orders that may exist
  MaxUnits,       \* most units of a product in the yard, or on one line
  Recovery        \* does a draft live to six hours in this run?

\* A checklist is nested from one root: no staged piece is under itself.
IsNested(receipt) ==
  LET nodes == DOMAIN receipt.parent
      others == nodes \ {receipt.root}
  IN /\ nodes \subseteq Items /\ IsFiniteSet(nodes) /\ receipt.root \in nodes
     /\ \A i \in others : receipt.parent[i] \in nodes
     /\ \A S \in SUBSET others : S # {} => \E i \in S : receipt.parent[i] \notin S
     /\ receipt.missing \in [nodes -> SUBSET STRING]
     /\ \A i \in nodes : IsFiniteSet(receipt.missing[i])

\* Two categories never have the same name, from the start.
ASSUME YardAssumption ==
  /\ NoItem \notin Items
  /\ CatOf \in [Items -> Categories]
  /\ \A first \in FirstCatalogs :
       /\ first \in [Categories -> [name : STRING, expected : SUBSET STRING]]
       /\ \A c, d \in Categories : first[c].name = first[d].name => c = d
  /\ \A receipt \in Receipts : IsNested(receipt)
  /\ Growth \subseteq Categories \X STRING /\ Renames \subseteq Categories \X STRING
  /\ ManualOrders \subseteq {"DISMANTLING", "INSTALLATION"} \X Items \X (Items \cup {NoItem})
  /\ MaxInvoices \in Nat /\ MaxUnits \in Nat

VARIABLES
  items,      \* code -> the item; its domain grows as items are registered
  missing,    \* the known missing components, in the order they were recorded
  reviews,    \* pending catalog reviews
  catalog,    \* category -> [name, expected]
  orders,     \* work orders, oldest first
  products,   \* product -> [onHand, reserved]
  entered,    \* product -> units received less units adjusted away (history)
  invoices    \* id -> the document; status NONE where there is none

tree == <<items, missing>>
vars == <<items, missing, reviews, catalog, orders, products, entered, invoices>>

Ids == 1..MaxInvoices
Standing == {"CONDUCE", "COMPLETED"}
Active == {"PENDING", "IN_PROGRESS"}
Decisions == {"NOT_APPLICABLE", "MISSING", "PRESENT", "ACKNOWLEDGE"}

Blank == [status |-> "NONE", lines |-> [i \in Items |-> 0], units |-> [p \in Products |-> 0],
          delivered |-> {}, old |-> FALSE]

Init == /\ items = <<>> /\ missing = <<>> /\ reviews = {}
        /\ catalog \in FirstCatalogs
        /\ orders = <<>>
        /\ products = [p \in Products |-> [onHand |-> 0, reserved |-> 0]]
        /\ entered = [p \in Products |-> 0]
        /\ invoices = [v \in Ids |-> Blank]

isAssemblyItem(i) == CatOf[i] \in Assemblies
categoryLabel(i) == catalog[CatOf[i]].name

\* Mirrors HIER-006 on the assembly row.
syncDirectParentCompleteness(its, gone, parents) ==
  [i \in DOMAIN its |-> IF i \in parents /\ isAssemblyItem(i)
                        THEN [its[i] EXCEPT !.complete = isComplete(gone, i)] ELSE its[i]]

-------------------------------------------------------------------------------
(* Reception                                                                   *)

buildRegisteredItem(parent, complete) ==
  [parent |-> parent, installed |-> parent # NoItem, sold |-> FALSE, hold |-> NoDraft,
   noDesarmar |-> FALSE, complete |-> complete]

\* The inventory with what has arrived.
WithArrived(its, arrived) ==
  [i \in DOMAIN its \cup DOMAIN arrived |-> IF i \in DOMAIN its THEN its[i] ELSE arrived[i]]

RegisterItem(i) ==
  /\ i \notin DOMAIN items /\ ~isAssemblyItem(i)
  /\ items' = WithArrived(items, [j \in {i} |-> buildRegisteredItem(NoItem, FALSE)])
  /\ UNCHANGED <<missing, reviews, catalog, orders, products, entered, invoices>>

\* The checklist of one staged assembly: each expected name is answered once, as
\* a child of that category, as missing, or (the rest) as not applicable.
Answered(receipt, i) ==
  LET kids == {j \in DOMAIN receipt.parent : receipt.parent[j] = i}
      names == {categoryLabel(j) : j \in kids}
  IN IF isAssemblyItem(i)
     THEN /\ Cardinality(names) = Cardinality(kids)
          /\ names \cup receipt.missing[i] \subseteq catalog[CatOf[i]].expected
          /\ names \cap receipt.missing[i] = {}
     ELSE kids = {} /\ receipt.missing[i] = {}

Stageable(receipt) == /\ DOMAIN receipt.parent \cap DOMAIN items = {}
                      /\ \A i \in DOMAIN receipt.parent : Answered(receipt, i)

\* The staged nodes, with the root under `under` (NoItem for a new arrival).
StagedItems(receipt, under) ==
  [i \in DOMAIN receipt.parent |->
     buildRegisteredItem(IF i = receipt.root THEN under ELSE receipt.parent[i],
                         isAssemblyItem(i) /\ receipt.missing[i] = {})]
StagedMissing(receipt) ==
  LET entries == {[parent |-> i, name |-> n, origin |-> "MISSING_AT_RECEIPT"] :
                    i \in DOMAIN receipt.parent, n \in UNION {receipt.missing[j] : j \in DOMAIN receipt.parent}}
  IN SetToSeq({e \in entries : e.name \in receipt.missing[e.parent]})

RegisterAssembly(receipt) ==
  /\ isAssemblyItem(receipt.root) /\ Stageable(receipt)
  /\ items' = WithArrived(items, StagedItems(receipt, NoItem))
  /\ missing' = missing \o StagedMissing(receipt)
  /\ UNCHANGED <<reviews, catalog, orders, products, entered, invoices>>

\* Initial stock and later entries alike: the weighted-average cost is left out.
ReceiveQtyStock(p) ==
  /\ entered[p] < MaxUnits
  /\ products' = [products EXCEPT ![p].onHand = @ + 1]
  /\ entered' = [entered EXCEPT ![p] = @ + 1]
  /\ UNCHANGED <<tree, reviews, catalog, orders, invoices>>

\* Administrator correction; here it only takes a unit away.
AdjustQtyStock(p) ==
  /\ products[p].onHand > 0
  /\ products[p].onHand - 1 >= products[p].reserved
  /\ products' = [products EXCEPT ![p].onHand = @ - 1]
  /\ entered' = [entered EXCEPT ![p] = @ - 1]
  /\ UNCHANGED <<tree, reviews, catalog, orders, invoices>>

SetNoDesarmar(i) ==
  /\ i \in Protectable \cap DOMAIN items /\ isAssemblyItem(i)
  /\ items' = [items EXCEPT ![i].noDesarmar = ~@]
  /\ UNCHANGED <<missing, reviews, catalog, orders, products, entered, invoices>>

\* The entries that stay, in their order, when some are removed.
Remaining(entries, removed) ==
  LET kept[n \in 0..Len(entries)] ==
        IF n = 0 THEN <<>>
        ELSE IF entries[n] \in removed THEN kept[n - 1] ELSE Append(kept[n - 1], entries[n])
  IN kept[Len(entries)]

CorrectReceiptBaseline(i, names) ==
  LET left == Remaining(missing, [parent : {i}, name : names, origin : {"MISSING_AT_RECEIPT"}])
  IN /\ i \in DOMAIN items
     /\ left # missing
     /\ missing' = left
     /\ items' = syncDirectParentCompleteness(items, left, {i})
     /\ UNCHANGED <<reviews, catalog, orders, products, entered, invoices>>

-------------------------------------------------------------------------------
(* Catalog                                                                     *)

findMatchingPresentChild(i, name) ==
  \E j \in DOMAIN items : items[j].parent = i /\ categoryLabel(j) = name

hasPendingReview(i, name) == \E r \in reviews : r.parent = i /\ r.name = name
hasKnownMissing(i, name) ==
  \E k \in DOMAIN missing : missing[k].parent = i /\ missing[k].name = name

backfillPendingExpectedComponents(c, name) ==
  {[parent |-> i, name |-> name,
    kind |-> IF findMatchingPresentChild(i, name) THEN "ALREADY_PRESENT" ELSE "PENDING_NA"] :
     i \in {j \in DOMAIN items : /\ CatOf[j] = c /\ ~items[j].sold
                                 /\ ~hasPendingReview(j, name) /\ ~hasKnownMissing(j, name)}}

GrowCategory(c, name) ==
  /\ c \in Assemblies /\ name \notin catalog[c].expected
  /\ catalog' = [catalog EXCEPT ![c].expected = @ \cup {name}]
  /\ reviews' = reviews \cup backfillPendingExpectedComponents(c, name)
  /\ UNCHANGED <<tree, orders, products, entered, invoices>>

\* Mutant: the references keep the old name.
migrateNothing(value, previous, next) == value

migrateCategoryName(value, previous, next) == IF value = previous THEN next ELSE value

\* A rename carries every reference by name with it, or is refused as a whole.
RenameCategory(c, name) ==
  LET was == catalog[c].name
      m(n) == migrateCategoryName(n, was, name)
      staged == [k \in Categories |->
                   [name |-> IF k = c THEN name ELSE catalog[k].name,
                    expected |-> {m(n) : n \in catalog[k].expected}]]
      stagedMissing == [k \in DOMAIN missing |-> [missing[k] EXCEPT !.name = m(@)]]
      stagedReviews == {[r EXCEPT !.name = m(@)] : r \in reviews}
  IN /\ \A k \in Categories : catalog[k].name # name
     /\ \A k \in Categories : Cardinality(staged[k].expected) = Cardinality(catalog[k].expected)
     /\ \A j, k \in DOMAIN stagedMissing :
          j # k => \/ stagedMissing[j].parent # stagedMissing[k].parent
                   \/ stagedMissing[j].name # stagedMissing[k].name
     /\ \A r, s \in stagedReviews : r.parent = s.parent /\ r.name = s.name => r = s
     /\ Cardinality(stagedReviews) = Cardinality(reviews)
     /\ catalog' = staged /\ missing' = stagedMissing /\ reviews' = stagedReviews
     /\ UNCHANGED <<items, orders, products, entered, invoices>>

\* PRESENT registers a real child: a part, or an assembly with its own receipt.
PresentChild(r, receipt) == categoryLabel(receipt.root) = r.name /\ Stageable(receipt)

ResolveCatalogReview(r, decision, receipt) ==
  /\ r \in reviews
  /\ (r.kind = "ALREADY_PRESENT") <=> (decision = "ACKNOWLEDGE")
  /\ decision = "PRESENT" => PresentChild(r, receipt)
  /\ reviews' = reviews \ {r}
  /\ missing' = CASE decision = "MISSING" -> Append(missing,
                       [parent |-> r.parent, name |-> r.name, origin |-> "MISSING_AT_RECEIPT"])
                  [] decision = "PRESENT" -> missing \o StagedMissing(receipt)
                  [] OTHER -> missing
  /\ items' = syncDirectParentCompleteness(
                IF decision = "PRESENT" THEN WithArrived(items, StagedItems(receipt, r.parent)) ELSE items,
                missing', {r.parent})
  /\ UNCHANGED <<catalog, orders, products, entered, invoices>>

-------------------------------------------------------------------------------
(* Work orders                                                                 *)

isActiveStatus(o) == o.status \in Active
activeOrder(i) == \E k \in DOMAIN orders : orders[k].piece = i /\ isActiveStatus(orders[k])

NewOrder(type, i, dest, links) ==
  [type |-> type, status |-> "PENDING", piece |-> i,
   source |-> IF type = "DISMANTLING" THEN items[i].parent ELSE NoItem,
   dest |-> dest, by |-> "nobody", before |-> FALSE, after |-> FALSE, links |-> links]

MayDismantle(i) == items[i].installed /\ ~Restricted(items, i)

MayInstall(i, dest) == /\ ~items[i].installed
                       /\ dest \in DOMAIN items /\ isAssemblyItem(dest)
                       /\ dest \notin Unit(items, i)

\* Nothing is asked of reservations or of the sale state.
CreateManualWorkOrder(type, i, dest) ==
  /\ i \in DOMAIN items /\ Len(orders) < MaxOrders
  /\ type = "DISMANTLING" => MayDismantle(i)
  /\ type = "INSTALLATION" => MayInstall(i, dest)
  /\ ~activeOrder(i)
  /\ orders' = Append(orders, NewOrder(type, i, dest, {}))
  /\ UNCHANGED <<tree, reviews, catalog, products, entered, invoices>>

SetOrder(k, o) == /\ orders' = [orders EXCEPT ![k] = o]
                  /\ UNCHANGED <<tree, reviews, catalog, products, entered, invoices>>

TakeOrder(k, m) ==
  /\ orders[k].status = "PENDING" /\ orders[k].by = "nobody"
  /\ SetOrder(k, [orders[k] EXCEPT !.by = m, !.status = "IN_PROGRESS"])

\* Also puts a PENDING order in progress.
ReassignOrder(k, m) ==
  /\ isActiveStatus(orders[k]) /\ orders[k].by # m
  /\ SetOrder(k, [orders[k] EXCEPT !.by = m, !.status = "IN_PROGRESS"])

\* In progress, the administrator must have verified the physical state.
CancelOrder(k, physicalVerified) ==
  /\ isActiveStatus(orders[k])
  /\ orders[k].status = "IN_PROGRESS" => physicalVerified
  /\ SetOrder(k, [orders[k] EXCEPT !.status = "CANCELLED"])

requireAssignedInProgress(k, m) == orders[k].status = "IN_PROGRESS" /\ orders[k].by = m

AddPhoto(k, m) ==
  /\ requireAssignedInProgress(k, m)
  /\ \/ SetOrder(k, [orders[k] EXCEPT !.before = TRUE])
     \/ SetOrder(k, [orders[k] EXCEPT !.after = TRUE])

requireEvidence(k) == orders[k].before /\ orders[k].after

CompleteDesarme(k, m) ==
  LET i == orders[k].piece
      was == items[i].parent
  IN /\ orders[k].type = "DISMANTLING"
     /\ requireAssignedInProgress(k, m) /\ requireEvidence(k)
     /\ ~Restricted(items, i)
     /\ items[i].installed /\ was # NoItem /\ was = orders[k].source
     /\ missing' = Append(missing, [parent |-> was, name |-> categoryLabel(i),
                                    origin |-> "REMOVED_AFTER_BASELINE"])
     /\ items' = syncDirectParentCompleteness(
                   [items EXCEPT ![i].parent = NoItem, ![i].installed = FALSE],
                   missing', {was})
     /\ orders' = [orders EXCEPT ![k].status = "COMPLETED"]
     /\ UNCHANGED <<reviews, catalog, products, entered, invoices>>

\* The first entry of that name, whatever its origin, is resolved.
matchingKnownMissing(dest, i) ==
  {k \in DOMAIN missing : missing[k].parent = dest /\ missing[k].name = categoryLabel(i)}

CompleteInstalacion(k, m) ==
  LET i == orders[k].piece
      dest == orders[k].dest
      found == matchingKnownMissing(dest, i)
  IN /\ orders[k].type = "INSTALLATION"
     /\ requireAssignedInProgress(k, m) /\ requireEvidence(k)
     /\ ~items[i].installed /\ items[i].parent = NoItem
     /\ MayInstall(i, dest)
     /\ missing' = IF found = {} THEN missing ELSE RemoveAt(missing, Min(found))
     /\ items' = syncDirectParentCompleteness(
                   [items EXCEPT ![i].parent = dest, ![i].installed = TRUE],
                   missing', {dest})
     /\ orders' = [orders EXCEPT ![k].status = "COMPLETED"]
     /\ UNCHANGED <<reviews, catalog, products, entered, invoices>>

-------------------------------------------------------------------------------
(* Drafts and quotes                                                           *)

Drafts == {v \in Ids : invoices[v].status = "DRAFT"}
requireDraft(v) == invoices[v].status \in {"DRAFT", "QUOTE_DRAFT"}
NextId == 1 + Max({v \in Ids : invoices[v].status # "NONE"} \cup {0})
availableToReserve(p) == products[p].onHand - products[p].reserved

CreateEmptyInvoice(status) ==
  /\ NextId \in Ids
  /\ invoices' = [invoices EXCEPT ![NextId].status = status]
  /\ UNCHANGED <<tree, reviews, catalog, orders, products, entered>>

MayReserve(i, draft) == /\ ~items[i].sold
                        /\ ~Restricted(items, i)
                        /\ items[i].hold \in {NoDraft, draft}
                        /\ ~overlappingReservation(items, i, draft)

\* From the inventory screens: the first open draft, or a new one.
openDraft == IF Drafts = {} THEN NextId ELSE Min(Drafts)

AddInventoryToDraft(i) ==
  LET d == openDraft
  IN /\ i \in Sellable \cap DOMAIN items /\ d \in Ids
     /\ items[i].hold # d
     /\ MayReserve(i, d)
     /\ items' = [items EXCEPT ![i].hold = d]
     /\ invoices' = [invoices EXCEPT ![d].status = "DRAFT", ![d].lines[i] = @ + 1]
     /\ UNCHANGED <<missing, reviews, catalog, orders, products, entered>>

\* From the counter: a quote takes the line without asking anything of the item.
AddDraftLine(v, i) ==
  /\ i \in Sellable \cap DOMAIN items /\ requireDraft(v) /\ invoices[v].lines[i] = 0
  /\ IF invoices[v].status = "DRAFT"
     THEN MayReserve(i, v) /\ items' = [items EXCEPT ![i].hold = v]
     ELSE UNCHANGED items
  /\ invoices' = [invoices EXCEPT ![v].lines[i] = 1]
  /\ UNCHANGED <<missing, reviews, catalog, orders, products, entered>>

AddQtyLine(v, p, n) ==
  /\ requireDraft(v) /\ n <= availableToReserve(p)
  /\ invoices[v].units[p] + n <= MaxUnits
  /\ invoices' = [invoices EXCEPT ![v].units[p] = @ + n]
  /\ products' = IF invoices[v].status = "DRAFT"
                 THEN [products EXCEPT ![p].reserved = @ + n] ELSE products
  /\ UNCHANGED <<tree, reviews, catalog, orders, entered>>

\* What adjustQtyReservation does to the product when a line goes from `was` to n.
adjustQtyReservation(p, was, n) ==
  [products EXCEPT ![p].reserved = IF @ + n >= was THEN @ + n - was ELSE 0]

SetDraftLineQuantity(v, p, n) ==
  LET was == invoices[v].units[p]
  IN /\ requireDraft(v) /\ was > 0 /\ n # was
     /\ invoices[v].status = "DRAFT" => n <= was + availableToReserve(p)
     /\ products' = IF invoices[v].status = "DRAFT"
                    THEN adjustQtyReservation(p, was, n) ELSE products
     /\ invoices' = [invoices EXCEPT ![v].units[p] = n]
     /\ UNCHANGED <<tree, reviews, catalog, orders, entered>>

\* The hold of the item goes, whoever owns it; the units go, down to zero.
releaseLineReservation(its, gone) ==
  [i \in DOMAIN its |-> IF i \in gone THEN [its[i] EXCEPT !.hold = NoDraft] ELSE its[i]]
releaseUnits(units) ==
  [p \in Products |-> [products[p] EXCEPT !.reserved = Max({0, @ - units[p]})]]

RemoveItemLine(v, i) ==
  /\ requireDraft(v) /\ invoices[v].lines[i] > 0
  /\ items' = IF invoices[v].status = "DRAFT" THEN releaseLineReservation(items, {i}) ELSE items
  /\ invoices' = [invoices EXCEPT ![v].lines[i] = @ - 1]
  /\ UNCHANGED <<missing, reviews, catalog, orders, products, entered>>

RemoveQtyLine(v, p) ==
  /\ requireDraft(v) /\ invoices[v].units[p] > 0
  /\ products' = IF invoices[v].status = "DRAFT"
                 THEN releaseUnits([q \in Products |-> IF q = p THEN invoices[v].units[p] ELSE 0])
                 ELSE products
  /\ invoices' = [invoices EXCEPT ![v].units[p] = 0]
  /\ UNCHANGED <<tree, reviews, catalog, orders, entered>>

ItemsOn(inv) == {i \in Items : inv.lines[i] > 0}
HasLines(inv) == ItemsOn(inv) # {} \/ \E p \in Products : inv.units[p] > 0

\* The document disappears and its number may be given again.
DiscardDraft(v) ==
  /\ requireDraft(v)
  /\ IF invoices[v].status = "DRAFT"
     THEN /\ items' = releaseLineReservation(items, ItemsOn(invoices[v]))
          /\ products' = releaseUnits(invoices[v].units)
     ELSE UNCHANGED <<items, products>>
  /\ invoices' = [invoices EXCEPT ![v] = Blank]
  /\ UNCHANGED <<missing, reviews, catalog, orders, entered>>

SixHoursPass ==
  /\ Recovery
  /\ invoices' = [v \in Ids |-> [invoices[v] EXCEPT !.old = invoices[v].status = "DRAFT"]]
  /\ UNCHANGED <<tree, reviews, catalog, orders, products, entered>>

isAbandonedDraft(v) == invoices[v].status = "DRAFT" /\ invoices[v].old
ReleaseAbandonedReservation(v) == isAbandonedDraft(v) /\ DiscardDraft(v)

IssueQuote(v) ==
  /\ invoices[v].status = "QUOTE_DRAFT" /\ HasLines(invoices[v])
  /\ invoices' = [invoices EXCEPT ![v].status = "QUOTE_ISSUED"]
  /\ UNCHANGED <<tree, reviews, catalog, orders, products, entered>>

DuplicateQuote(v) ==
  /\ invoices[v].status = "QUOTE_ISSUED" /\ NextId \in Ids
  /\ invoices' = [invoices EXCEPT ![NextId] = [invoices[v] EXCEPT !.status = "QUOTE_DRAFT"]]
  /\ UNCHANGED <<tree, reviews, catalog, orders, products, entered>>

-------------------------------------------------------------------------------
(* Recognition: an invoice or a conduce                                        *)

activeWorkAffectingAssembly(its, i) ==
  \E k \in DOMAIN orders : /\ isActiveStatus(orders[k])
                           /\ {orders[k].piece, orders[k].dest} \cap Unit(its, i) # {}

\* The inventory gate, over the holds `its` and the reservations `prods`.
validateReservedInventoryForRecognition(v, its, prods) ==
  /\ \A i \in ItemsOn(invoices[v]) :
       /\ ~its[i].sold
       /\ its[i].hold = v
       /\ ~Restricted(its, i)
       /\ isAssemblyItem(i) =>
            /\ ~activeWorkAffectingAssembly(its, i)
            /\ \A j \in collectSubtree(its, i) : ~its[j].sold
            /\ collectSubtree(its, i) \cap ItemsOn(invoices[v]) = {}
  /\ \A p \in Products : /\ prods[p].reserved >= invoices[v].units[p]
                         /\ prods[p].onHand >= invoices[v].units[p]

\* What the lines of a document deliver: an assembly goes with its subtree.
DeliveredBy(v, its) == UNION {IF isAssemblyItem(i) THEN Unit(its, i) ELSE {i} : i \in ItemsOn(invoices[v])}
snapshotDeliveredAssembly(v, its) ==
  UNION {IF isAssemblyItem(i) THEN Unit(its, i) ELSE {} : i \in ItemsOn(invoices[v])}

markItemSold(its, gone) ==
  [i \in DOMAIN its |-> IF i \in gone THEN [its[i] EXCEPT !.sold = TRUE, !.hold = NoDraft]
                        ELSE its[i]]

\* Each installed piece sold has one active dismantling order: the one there is,
\* linked to this document too, or a new one.
activeDismantling(o, i) == o.piece = i /\ o.type = "DISMANTLING" /\ isActiveStatus(o)
ensureDismantlingOrder(v, pieces) ==
  LET reused == [k \in DOMAIN orders |->
                   IF \E i \in pieces : activeDismantling(orders[k], i)
                   THEN [orders[k] EXCEPT !.links = @ \cup {v}] ELSE orders[k]]
      fresh == {i \in pieces : ~\E k \in DOMAIN orders : activeDismantling(orders[k], i)}
  IN reused \o SetToSeq({NewOrder("DISMANTLING", i, NoItem, {v}) : i \in fresh})

freezeCostsAndApplyRecognitionInventory(v, status, its, prods) ==
  /\ items' = markItemSold(its, DeliveredBy(v, its))
  /\ orders' = ensureDismantlingOrder(v, {i \in ItemsOn(invoices[v]) : its[i].installed})
  /\ Len(orders') <= MaxOrders
  /\ products' = [p \in Products |-> [onHand |-> prods[p].onHand - invoices[v].units[p],
                                      reserved |-> prods[p].reserved - invoices[v].units[p]]]
  /\ invoices' = [invoices EXCEPT ![v].status = status, ![v].old = FALSE,
                                  ![v].delivered = snapshotDeliveredAssembly(v, its)]
  /\ UNCHANGED <<missing, reviews, catalog, entered>>

\* Everything is validated before anything is changed.
ConfirmInvoice(v) ==
  /\ invoices[v].status = "DRAFT" /\ HasLines(invoices[v])
  /\ validateReservedInventoryForRecognition(v, items, products)
  /\ freezeCostsAndApplyRecognitionInventory(v, "COMPLETED", items, products)

IssueConduce(v) ==
  /\ invoices[v].status = "DRAFT" /\ HasLines(invoices[v])
  /\ validateReservedInventoryForRecognition(v, items, products)
  /\ freezeCostsAndApplyRecognitionInventory(v, "CONDUCE", items, products)

\* A quote is held for the time of its conversion: an item nobody holds, and
\* the units of its lines.  No overlap is looked for.
prepareIssuedQuoteForConversion(v) ==
  [items |-> [i \in DOMAIN items |-> IF i \in ItemsOn(invoices[v]) /\ items[i].hold = NoDraft
                                     THEN [items[i] EXCEPT !.hold = v] ELSE items[i]],
   products |-> [p \in Products |-> [products[p] EXCEPT !.reserved = @ + invoices[v].units[p]]]]

\* The holds and the reserved units are put back to what they were.
rollbackQuoteConversion(v, held) ==
  /\ items' = [i \in DOMAIN held.items |-> IF i \in ItemsOn(invoices[v])
                 THEN [held.items[i] EXCEPT !.hold = items[i].hold] ELSE held.items[i]]
  /\ products' = [p \in Products |-> IF invoices[v].units[p] > 0
                    THEN [held.products[p] EXCEPT !.reserved = products[p].reserved]
                    ELSE held.products[p]]
  /\ UNCHANGED <<missing, reviews, catalog, orders, entered, invoices>>

Convert(v, status, accepted) ==
  LET held == prepareIssuedQuoteForConversion(v)
  IN /\ invoices[v].status = "QUOTE_ISSUED"
     /\ \A p \in Products : availableToReserve(p) >= invoices[v].units[p]
     /\ IF accepted /\ validateReservedInventoryForRecognition(v, held.items, held.products)
        THEN freezeCostsAndApplyRecognitionInventory(v, status, held.items, held.products)
        ELSE rollbackQuoteConversion(v, held)

ConvertQuote(v, accepted) == Convert(v, "COMPLETED", accepted)
ConvertQuoteToConduce(v, accepted) == Convert(v, "CONDUCE", accepted)

ConvertConduceToInvoice(v) ==
  /\ invoices[v].status = "CONDUCE"
  /\ invoices' = [invoices EXCEPT ![v].status = "COMPLETED"]
  /\ UNCHANGED <<tree, reviews, catalog, orders, products, entered>>

-------------------------------------------------------------------------------
(* Cancellation                                                                *)

linkedDismantlingOrders(v) ==
  {k \in DOMAIN orders : orders[k].type = "DISMANTLING" /\ v \in orders[k].links}

\* An order in progress is stopped or goes on, as the administrator decides.
applyWorkOrderBranch(o, decision) ==
  IF o.status = "PENDING" \/ (o.status = "IN_PROGRESS" /\ decision = "STOP")
  THEN [o EXCEPT !.status = "CANCELLED"] ELSE o

\* A sold item is available again; when its dismantling was completed it is made
\* independent, wherever it is by now, and nothing is recorded as missing there.
restoreSoldItem(its, back, dismantled) ==
  LET freed == {i \in back \cap dismantled : its[i].sold}
  IN syncDirectParentCompleteness(
       [i \in DOMAIN its |->
          IF i \notin back THEN its[i]
          ELSE IF i \in freed
               THEN [its[i] EXCEPT !.sold = FALSE, !.installed = FALSE, !.parent = NoItem]
               ELSE [its[i] EXCEPT !.sold = FALSE]],
       missing, {its[i].parent : i \in freed})

\* The subtree is read as it is now, not from the delivered snapshot.
restoreInventoryForInvoice(v, done) ==
  /\ items' = restoreSoldItem(items, DeliveredBy(v, items), done)
  /\ products' = [p \in Products |-> [products[p] EXCEPT !.onHand = @ + invoices[v].units[p]]]

CancelInvoice(v, decision) ==
  LET linked == linkedDismantlingOrders(v)
      done == {orders[k].piece : k \in {l \in linked : orders[l].status = "COMPLETED"}}
  IN /\ invoices[v].status \in Standing
     /\ orders' = [k \in DOMAIN orders |-> IF k \in linked
                     THEN applyWorkOrderBranch(orders[k], decision) ELSE orders[k]]
     /\ restoreInventoryForInvoice(v, done)
     /\ invoices' = [invoices EXCEPT ![v].status = "CANCELLED"]
     /\ UNCHANGED <<missing, reviews, catalog, entered>>

-------------------------------------------------------------------------------
(* What the screens offer, computed apart from the commands                    *)

buildWorkOrderCreateOptions ==
  [dismantling |-> {i \in DOMAIN items : /\ items[i].installed /\ items[i].parent # NoItem
                                         /\ ~activeOrder(i) /\ ~Restricted(items, i)},
   installation |-> {i \in DOMAIN items : ~items[i].installed /\ ~activeOrder(i)},
   destinations |-> {i \in DOMAIN items : isAssemblyItem(i)}]

\* Mutant: the button does not look for holds on relatives.
eligibleUnlessHeld(i) ==
  /\ ~items[i].sold /\ ~Restricted(items, i)
  /\ items[i].hold \in {NoDraft, IF Drafts = {} THEN NoDraft ELSE Min(Drafts)}

\* May the inventory screen offer to add the item to the open draft?
itemDraftEligibility(i) ==
  LET d == IF Drafts = {} THEN NoDraft ELSE Min(Drafts)
  IN /\ ~items[i].sold /\ ~Restricted(items, i)
     /\ d # NoDraft => items[i].hold \in {NoDraft, d}
     /\ ~overlappingReservation(items, i, d)

-------------------------------------------------------------------------------
Reception(receipts) ==
  \/ \E i \in Items : RegisterItem(i) \/ SetNoDesarmar(i)
  \/ \E r \in receipts : RegisterAssembly(r)
  \/ \E p \in Products : ReceiveQtyStock(p) \/ AdjustQtyStock(p)
  \/ \E i \in Items : \E n \in UNION {catalog[c].expected : c \in Categories} :
       CorrectReceiptBaseline(i, {n})

CatalogEdit(receipts) ==
  \/ \E g \in Growth : GrowCategory(g[1], g[2])
  \/ \E r \in Renames : RenameCategory(r[1], r[2])
  \/ \E r \in reviews, d \in Decisions, receipt \in receipts : ResolveCatalogReview(r, d, receipt)

Work(manual, mechanics) ==
  \/ \E o \in manual : CreateManualWorkOrder(o[1], o[2], o[3])
  \/ \E k \in DOMAIN orders :
       \/ \E verified \in BOOLEAN : CancelOrder(k, verified)
       \/ \E m \in mechanics : \/ TakeOrder(k, m) \/ ReassignOrder(k, m) \/ AddPhoto(k, m)
                               \/ CompleteDesarme(k, m) \/ CompleteInstalacion(k, m)

Counter ==
  \/ \E s \in {"DRAFT", "QUOTE_DRAFT"} : CreateEmptyInvoice(s)
  \/ \E i \in Items : AddInventoryToDraft(i)
  \/ \E v \in Ids :
       \/ DiscardDraft(v) \/ ReleaseAbandonedReservation(v) \/ IssueQuote(v) \/ DuplicateQuote(v)
       \/ \E i \in Items : AddDraftLine(v, i) \/ RemoveItemLine(v, i)
       \/ \E p \in Products :
            \/ \E n \in 1..MaxUnits : AddQtyLine(v, p, n) \/ SetDraftLineQuantity(v, p, n)
            \/ RemoveQtyLine(v, p)
  \/ SixHoursPass

Sale ==
  \E v \in Ids :
    \/ ConfirmInvoice(v) \/ IssueConduce(v) \/ ConvertConduceToInvoice(v)
    \/ \E accepted \in BOOLEAN : ConvertQuote(v, accepted) \/ ConvertQuoteToConduce(v, accepted)
    \/ \E d \in {"STOP", "CONTINUE"} : CancelInvoice(v, d)

Next ==
  Reception(Receipts) \/ CatalogEdit(Receipts) \/ Work(ManualOrders, Mechanics) \/ Counter \/ Sale
Spec == Init /\ [][Next]_vars

-------------------------------------------------------------------------------
(* Properties                                                                  *)

\* Every variable keeps its shape.
TypeOK ==
  /\ DOMAIN items \subseteq Items
  /\ \A i \in DOMAIN items :
       /\ items[i].parent \in {NoItem} \cup DOMAIN items
       /\ items[i].hold \in {NoDraft} \cup Ids
  /\ \A k \in DOMAIN missing : missing[k].parent \in DOMAIN items
  /\ \A r \in reviews : r.parent \in DOMAIN items
  /\ \A k \in DOMAIN orders : orders[k].status \in Active \cup {"COMPLETED", "CANCELLED"}
  /\ \A p \in Products : products[p].onHand \in Nat /\ products[p].reserved \in Nat
  /\ \A v \in Ids : invoices[v].lines \in [Items -> Nat]

\* HIER-002: one parent, no cycle, and INSTALLED exactly under a parent, whatever
\* the order in which receptions, installations, dismantlings and cancellations
\* reach the tree.
OneTree == \A i \in DOMAIN items : /\ i \notin ancestorChain(items, i)
                                   /\ items[i].installed <=> items[i].parent # NoItem

\* HIER-006: the completeness cached on an assembly row is the derived one,
\* though six commands rewrite the list it is derived from.
CompleteIsDerived ==
  \A i \in DOMAIN items : isAssemblyItem(i) => (items[i].complete <=> isComplete(missing, i))

\* A piece never has two active orders: manual creation and the sale of an
\* installed piece look for one in different ways.
OneActiveOrderPerPiece ==
  \A j, k \in DOMAIN orders :
    isActiveStatus(orders[j]) /\ isActiveStatus(orders[k]) /\ orders[j].piece = orders[k].piece
      => j = k

\* RES-002, no orphan reservation: a hold is always that of an open draft with a
\* line for the item, also after ids are given again and conversions refused.
HoldsAreLines ==
  \A i \in DOMAIN items : LET d == items[i].hold
    IN d # NoDraft => invoices[d].status = "DRAFT" /\ invoices[d].lines[i] > 0

UnitsOn(p, statuses) ==
  MapThenSumSet(LAMBDA v : invoices[v].units[p], {v \in Ids : invoices[v].status \in statuses})

\* RES-002, QTY: the units reserved are those of the drafts' lines, there are
\* that many in the yard, and the units in the yard and on standing sales are
\* the units that were ever entered.
StockAddsUp ==
  \A p \in Products : /\ products[p].reserved = UnitsOn(p, {"DRAFT"})
                      /\ products[p].reserved <= products[p].onHand
                      /\ products[p].onHand + UnitsOn(p, Standing) = entered[p]

\* A work order that is completed took its piece from where the order says it was,
\* and the place it left misses a part of that name.
LeavesAreRecorded ==
  [][\A k \in DOMAIN orders :
       orders[k].type = "DISMANTLING" /\ orders[k].status # "COMPLETED" /\ orders'[k].status = "COMPLETED"
         => /\ items[orders[k].piece].parent = orders[k].source
            /\ \E e \in Range(missing') : e.parent = orders[k].source
                                        /\ e.name = categoryLabel(orders[k].piece)]_vars

\* After the step an entry is about the part and the category it was about.
SameCategory(was, is) ==
  /\ is.parent = was.parent
  /\ IF \E e \in Categories : was.name = catalog[e].name
     THEN \A d \in Categories : was.name = catalog[d].name <=> is.name = catalog'[d].name
     ELSE is.name = was.name

\* The catalog refers to categories by name: a rename keeps every missing component and
\* pending review with the category it was about.  The names expected may be free text, so
\* a new name may adopt entries that had it and were about no category; it takes none from
\* another category.
NamesKeepTheirCategory ==
  [][\A c \in Categories :
       catalog'[c].name # catalog[c].name =>
         /\ DOMAIN missing' = DOMAIN missing
         /\ \A k \in DOMAIN missing : SameCategory(missing[k], missing'[k])
         /\ \A r \in reviews : \E s \in reviews' : SameCategory(r, s)
         /\ \A s \in reviews' : \E r \in reviews : SameCategory(r, s)]_vars

\* What the inventory and work-order screens offer is accepted by the commands
\* behind them, in every state of the holds and of the tree: the two are written apart.
OffersAreAccepted ==
  /\ \A i \in DOMAIN items : itemDraftEligibility(i) =>
       items[i].hold = openDraft \/ MayReserve(i, openDraft)
  /\ \A i \in buildWorkOrderCreateOptions.dismantling : MayDismantle(i) /\ ~activeOrder(i)
  /\ \A i \in buildWorkOrderCreateOptions.installation, d \in buildWorkOrderCreateOptions.destinations :
       i # d /\ i \notin ancestorChain(items, d) => MayInstall(i, d)

\* The inventory is one forest whose records agree with it: completeness with the parts
\* listed as missing, one active order for each piece, and every part that is taken off
\* or renamed is still found under its name.
TreeIsSound ==
  /\ [](TypeOK /\ OneTree /\ CompleteIsDerived /\ OneActiveOrderPerPiece)
  /\ LeavesAreRecorded /\ NamesKeepTheirCategory

\* What is reserved is what open drafts ask for, what is sold has left the yard, and what
\* a screen offers is neither.
HoldsAgree == HoldsAreLines /\ StockAddsUp /\ OffersAreAccepted
===============================================================================
