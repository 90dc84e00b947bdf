----------------------------- MODULE MCAccessYard -----------------------------
(*******************************************************************************)
(* Access and the yard, for TLC.  The initial state chooses a scene, and the   *)
(* rest of the state stays as it was: the accounts, their sessions and         *)
(* recoveries; or one part of the yard's Next.  The yard has a truck T that    *)
(* may carry an engine E, and the engine an alternator P; and oil, kept by     *)
(* quantity: its scenes are the tree of assemblies, the sale of its parts, the *)
(* stock of oil, and the catalog of categories.                                *)
(*******************************************************************************)
EXTENDS Access, Yard

VARIABLE scene

YardItems == {"T", "E", "P"}
Kinds == {"truck", "engine", "part"}
KindOf == [i \in YardItems |-> CASE i = "T" -> "truck" [] i = "E" -> "engine" [] OTHER -> "part"]
Composed == {"truck", "engine"}
Usual == [c \in Kinds |-> CASE c = "truck"  -> [name |-> "Truck", expected |-> {"Engine"}]
                           [] c = "engine" -> [name |-> "Engine", expected |-> {"Part"}]
                           [] OTHER        -> [name |-> "Part", expected |-> {}]]
Simple == [c \in Kinds |-> CASE c = "truck"  -> [name |-> "Truck", expected |-> {"Cab"}]
                            [] c = "engine" -> [name |-> "Engine", expected |-> {"Hose"}]
                            [] OTHER        -> [name |-> "Part", expected |-> {}]]
Catalogs == {Usual, Simple}

Receipt(root, parents, gone) ==
  [root |-> root, parent |-> parents,
   missing |-> [i \in DOMAIN parents |-> IF i \in DOMAIN gone THEN gone[i] ELSE {}]]
None == [i \in {} |-> {}]
Whole == Receipt("T", "T" :> NoItem @@ "E" :> "T" @@ "P" :> "E", None)
EmptyTruck == Receipt("T", "T" :> NoItem, "T" :> {"Engine"})
LooseEngine == Receipt("E", "E" :> NoItem @@ "P" :> "E", None)
EngineAlone == Receipt("E", "E" :> NoItem, "E" :> {"Part"})
TruckAlone == Receipt("T", "T" :> NoItem, None)
PartAlone == Receipt("P", "P" :> NoItem, None)

Mixed == {Whole, EmptyTruck, LooseEngine}
Bare == {TruckAlone, EngineAlone, PartAlone}
AllReceipts == Mixed \cup Bare

Edits == {<<"truck", "Part">>, <<"engine", "Part">>, <<"truck", "Engine">>, <<"truck", "Motor">>}
NewNames == {<<"part", "Alternator">>, <<"engine", "Motor">>}

Pull == {<<"DISMANTLING", i, NoItem>> : i \in {"E", "P"}}
Put == {<<"INSTALLATION", i, d>> : i \in YardItems, d \in {"T", "E"}}
PartOnly == {<<"DISMANTLING", "P", NoItem>>, <<"INSTALLATION", "P", "E">>}
PullAndPut == Pull \cup Put
PartWork == PartOnly \cup {<<"INSTALLATION", "P", "T">>}

Tree ==
  /\ Reception(Mixed) \/ Work(PullAndPut, Mechanics)
  /\ UNCHANGED products

PartsSale ==
  /\ Reception({Whole}) \/ Work(PartWork, {"m1"}) \/ Counter \/ Sale
  /\ UNCHANGED products
  /\ invoices'[3] = Blank /\ \A v \in Ids : ~invoices'[v].old
  /\ \A i \in DOMAIN items' : items'[i].noDesarmar => i = "E"

Stock ==
  /\ Reception({}) \/ Counter \/ Sale
  /\ UNCHANGED items

Catalog ==
  /\ Reception(Bare) \/ CatalogEdit(Bare) \/ Work(PartOnly, {"m1"})
  /\ UNCHANGED products
  /\ Len(orders') <= 1 /\ \A i \in DOMAIN items' : ~items'[i].noDesarmar
  /\ \A c \in Kinds : Cardinality(catalog'[c].expected) <= 3

YardScenes == {"tree", "sale", "stock", "catalog"}

ScenesInit ==
  /\ AccessInit /\ Init /\ scene \in YardScenes \cup {"access"}
  /\ catalog = Simple <=> scene \in {"catalog", "access"}

ScenesNext ==
  \/ scene = "access" /\ AccessNext /\ UNCHANGED vars
  \/ scene = "tree" /\ Tree /\ UNCHANGED accessVars
  \/ scene = "sale" /\ PartsSale /\ UNCHANGED accessVars
  \/ scene = "stock" /\ Stock /\ UNCHANGED accessVars
  \/ scene = "catalog" /\ Catalog /\ UNCHANGED accessVars

ScenesSpec == ScenesInit /\ [][ScenesNext /\ UNCHANGED scene]_<<vars, accessVars, scene>>

\* Users, browsers, tokens and recoveries are interchangeable: sound for the
\* invariants and the action properties checked with it.
Interchangeable ==
  Permutations(Users) \cup Permutations(Browsers) \cup Permutations(Tokens)
      \cup Permutations(Recoveries)
===============================================================================
