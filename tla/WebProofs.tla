----------------------------- MODULE WebProofs -----------------------------
(***************************************************************************)
(* Theorems about the web client.                                          *)
(*                                                                         *)
(* PageWalk: a list that is read page by page misses no row (of the sales, *)
(* no more than were added between two queries of the last page) and, for  *)
(* users, repeats none, however rows are added between its requests, for   *)
(* every list, page size and number of pages.                              *)
(*                                                                         *)
(* WebPages: a page whose rows are shown has answered the address it shows *)
(* and has what its own commands changed, however answers come, for every  *)
(* number of loads, addresses and commands.                                *)
(*                                                                         *)
(* WebSession: what the tabs of a browser show of the session, and where   *)
(* they lead, for any number of tabs, accounts, forms, lost requests and   *)
(* returns to a tab.                                                       *)
(***************************************************************************)
EXTENDS WebPages, PageWalk, WebSession, FiniteSetTheorems, SequenceTheorems, TLAPS

-----------------------------------------------------------------------------
(* Pages of a walk *)

\* What the reads of the walk so far have gone past.
Skipped == IF walk.at \in {"both", "rows"} THEN Offset ELSE Offset + PageSize

\* A row lies where the walk has still to read, or it has been read.
Ahead(r) == \E i \in 1..Len(table) : i > Skipped /\ table[i] = r
Met(r) == r \in ToSet(walk.items) \cup ToSet(walk.got)
Unmet == {r \in ToSet(FirstRows) : ~Met(r)}

TableShape ==
    /\ table \in Seq(ListRows) /\ IsInjective(table)
    /\ ToSet(table) \subseteq ever

WalkShape ==
    /\ walk.items \in Seq(ListRows) /\ walk.got \in Seq(ListRows)
    /\ walk.page \in 1..MaxPage /\ walk.total \in Nat /\ walk.grown \in Nat
    /\ walk.at # "done" => Len(walk.items) <= Offset
    /\ Len(walk.got) <= PageSize
    /\ walk.page = MaxPage \/ walk.at \in {"both", "rows", "done"} => walk.got = <<>>
    /\ walk.at = "both" => walk.grown = 0

\* A row that was not read lies ahead; of those a page leaves ahead, its count has seen all
\* but as many as were added after it.
NothingLost ==
    /\ \A r \in ToSet(FirstRows) :
          /\ walk.at # "done" => Met(r) \/ Ahead(r)
          /\ walk.at \in {"count", "answer"} /\ walk.got = <<>> => Met(r)
    /\ walk.at = "rows" => walk.total + walk.grown = Len(table)
    /\ walk.at = "answer" => Unmet = {} \/ Cardinality(Unmet) + Skipped <= walk.total + walk.grown
    /\ walk.at = "done" => Cardinality(Unmet) <= walk.grown

\* What was read of a list that only grows at its end lies in the same order before the
\* rows to be read.
OnceEach ==
    /\ IsInjective(walk.items)
    /\ walk.at # "done" =>
       /\ \A j \in 1..Len(walk.items) : \E i \in 1..Len(table) :
             i <= Offset /\ walk.items[j] = table[i]
       /\ \A j \in 1..Len(walk.got) : Offset + j <= Len(table) /\ walk.got[j] = table[Offset + j]

WalkInv ==
    /\ walk = [at |-> walk.at, page |-> walk.page, items |-> walk.items, got |-> walk.got,
               total |-> walk.total, grown |-> walk.grown]
    /\ list \in Lists /\ walk.at \in {"both", "rows", "count", "answer", "done"}
    /\ ~list.together => walk.at # "rows" /\ walk.grown = 0
    /\ removed = {} => TableShape /\ WalkShape /\ NothingLost
    /\ list = users => removed = {} /\ OnceEach

\* A sequence of rows without repetitions is no longer than their number.
LEMMA InjectiveLength ==
    ASSUME NEW S, IsFiniteSet(S), NEW s \in Seq(S), IsInjective(s)
    PROVE  /\ Len(s) <= Cardinality(S) /\ Cardinality(S) \in Nat
           /\ Cardinality(ToSet(s)) = Len(s)
<1> DEFINE n == Len(s)
<1>1. n \in Nat /\ s \in [1..n -> S] /\ DOMAIN s = 1..n
  BY LenProperties
<1>2. IsFiniteSet(1..n) /\ Cardinality(1..n) = n
  BY <1>1, FS_Interval
<1>3. s \in Injection(1..n, S)
  BY <1>1 DEF Injection
<1>4. s \in Surjection(1..n, ToSet(s)) /\ s \in Injection(1..n, ToSet(s))
  BY <1>1 DEF Injection, Surjection, ToSet
<1>5. Cardinality(1..n) <= Cardinality(S)
  BY <1>3, FS_Injection
<1>6. Cardinality(ToSet(s)) = Cardinality(1..n)
  BY <1>4, <1>2, FS_Surjection
<1> QED
  BY <1>1, <1>2, <1>5, <1>6, FS_CardinalityType

\* Where the rows are after one is inserted.
LEMMA Inserted ==
    ASSUME NEW S, NEW s \in Seq(S), NEW e \in S, NEW i \in 1..(Len(s) + 1)
    PROVE  /\ InsertAt(s, i, e) \in Seq(S)
           /\ Len(InsertAt(s, i, e)) = Len(s) + 1
           /\ \A j \in 1..(Len(s) + 1) :
                InsertAt(s, i, e)[j] = IF j < i THEN s[j] ELSE IF j = i THEN e ELSE s[j - 1]
<1> DEFINE a == SubSeq(s, 1, i - 1)
           b == SubSeq(s, i, Len(s))
           m == a \o <<e>>
<1>1. /\ Len(s) \in Nat /\ s \in [1..Len(s) -> S] /\ DOMAIN s = 1..Len(s)
  BY LenProperties
<1>2. /\ a \in Seq(S) /\ Len(a) = i - 1
      /\ \A j \in 1..(i - 1) : a[j] = s[j]
  BY <1>1, SubSeqProperties, 1 \in Int, i - 1 \in Int
<1>3. /\ b \in Seq(S) /\ Len(b) = Len(s) - i + 1
      /\ \A j \in 1..(Len(s) - i + 1) : b[j] = s[i + j - 1]
  BY <1>1, SubSeqProperties, i \in Int, Len(s) \in Int
<1>4. <<e>> \in Seq(S) /\ Len(<<e>>) = 1 /\ <<e>>[1] = e
  OBVIOUS
<1>5. m \in Seq(S) /\ Len(m) = i /\ \A j \in 1..i : m[j] = IF j < i THEN s[j] ELSE e
  BY <1>1, <1>2, <1>4, ConcatProperties
<1>6. InsertAt(s, i, e) = m \o b
  BY DEF InsertAt
<1> HIDE DEF m, b
<1>7. /\ m \o b \in Seq(S) /\ Len(m \o b) = i + (Len(s) - i + 1)
      /\ \A j \in 1..(i + (Len(s) - i + 1)) : (m \o b)[j] = IF j <= i THEN m[j] ELSE b[j - i]
  BY <1>3, <1>5, ConcatProperties, <1>1
<1> QED
  BY <1>1, <1>3, <1>5, <1>6, <1>7

\* Pages are PageSize rows apart.
LEMMA NextOffset ==
    ASSUME NEW p \in Nat
    PROVE  /\ (p - 1) * PageSize \in Int /\ p * PageSize = (p - 1) * PageSize + PageSize
           /\ p >= 1 => (p - 1) * PageSize \in Nat
<1> USE WalkAssumption
<1>1. PageSize \in Nat
  OBVIOUS
<1>2. p * PageSize = (p - 1) * PageSize + PageSize
  BY <1>1, SMT
<1> QED
  BY <1>1, <1>2

\* What a walk has after it adds a page: where each row is, and which rows there are.
LEMMA Parts ==
    ASSUME NEW x \in Nat, NEW y \in Nat, NEW j \in 1..(x + y)
    PROVE  j \in 1..x \/ \E k \in 1..y : j = x + k
<1>1. CASE j <= x
  BY <1>1
<1>2. CASE j > x
  <2>1. j - x \in 1..y /\ j = x + (j - x)
    BY <1>2
  <2> QED
    BY <2>1
<1> QED
  BY <1>1, <1>2

LEMMA AddedAt ==
    ASSUME NEW S, NEW a \in Seq(S), NEW b \in Seq(S)
    PROVE  /\ a \o b \in Seq(S)
           /\ Len(a) \in Nat /\ Len(b) \in Nat /\ Len(a \o b) = Len(a) + Len(b)
           /\ \A j \in 1..Len(a) : (a \o b)[j] = a[j]
           /\ \A j \in 1..Len(b) : (a \o b)[Len(a) + j] = b[j]
<1>1. /\ a \o b \in Seq(S) /\ Len(a) \in Nat /\ Len(b) \in Nat /\ Len(a \o b) = Len(a) + Len(b)
      /\ \A j \in 1..(Len(a) + Len(b)) : (a \o b)[j] = IF j <= Len(a) THEN a[j] ELSE b[j - Len(a)]
  BY ConcatProperties, LenProperties
<1> QED
  BY <1>1

LEMMA AddedRows ==
    ASSUME NEW S, NEW a \in Seq(S), NEW b \in Seq(S)
    PROVE  ToSet(a \o b) = ToSet(a) \cup ToSet(b)
<1>1. PICK m : m = a \o b
  OBVIOUS
<1>2. /\ m \in Seq(S) /\ Len(a) \in Nat /\ Len(b) \in Nat /\ Len(m) = Len(a) + Len(b)
      /\ \A j \in 1..Len(a) : j \in 1..Len(m) /\ m[j] = a[j]
      /\ \A j \in 1..Len(b) : Len(a) + j \in 1..Len(m) /\ m[Len(a) + j] = b[j]
  BY <1>1, AddedAt
<1>3. DOMAIN m = 1..Len(m) /\ DOMAIN a = 1..Len(a) /\ DOMAIN b = 1..Len(b)
  BY <1>2, LenProperties
<1>4. ASSUME NEW j \in 1..Len(m) PROVE m[j] \in ToSet(a) \cup ToSet(b)
  <2>1. j \in 1..Len(a) \/ \E k \in 1..Len(b) : j = Len(a) + k
    <3>1. j \in 1..(Len(a) + Len(b))
      BY <1>2
    <3> QED
      BY <1>2, <3>1, Parts
  <2> QED
    BY <1>2, <1>3, <2>1 DEF ToSet
<1>5. ToSet(m) \subseteq ToSet(a) \cup ToSet(b)
  BY <1>3, <1>4 DEF ToSet
<1>6. ToSet(a) \subseteq ToSet(m) /\ ToSet(b) \subseteq ToSet(m)
  BY <1>2, <1>3 DEF ToSet
<1> QED
  BY <1>1, <1>5, <1>6

LEMMA WalkStarts == WalkInit => WalkInv
<1> SUFFICES ASSUME WalkInit PROVE WalkInv
  OBVIOUS
<1> USE WalkAssumption DEF WalkInit, NewWalk
<1>1. Offset = 0
  BY DEF Offset
<1>2. walk.items = <<>> /\ walk.got = <<>> /\ walk.at = "both" /\ walk.page = 1 /\ walk.total = 0
      /\ walk.grown = 0
  OBVIOUS
<1>3. TableShape
  BY DEF TableShape
<1>4. WalkShape
  BY <1>1, <1>2 DEF WalkShape
<1>5. NothingLost
  <2> SUFFICES ASSUME NEW r \in ToSet(FirstRows) PROVE Ahead(r)
    BY <1>2 DEF NothingLost
  <2>1. PICK i \in 1..Len(FirstRows) : FirstRows[i] = r
    BY DEF ToSet
  <2> QED
    BY <2>1, <1>1, <1>2 DEF Ahead, Skipped
<1>6. OnceEach
  BY <1>2 DEF OnceEach, IsInjective
<1> QED
  BY <1>2, <1>3, <1>4, <1>5, <1>6 DEF WalkInv

\* The list behind a walk that has lost no row fits in the pages before MaxPage.
LEMMA TableFits ==
    ASSUME TableShape
    PROVE  Len(table) \in Nat /\ Len(table) <= (MaxPage - 1) * PageSize
<1>1. Len(table) <= Cardinality(ListRows) /\ Cardinality(ListRows) \in Nat
  BY InjectiveLength, WalkAssumption DEF TableShape
<1>2. Len(table) \in Nat
  BY LenProperties DEF TableShape
<1> QED
  BY <1>1, <1>2, NextOffset, WalkAssumption

LEMMA OffsetType ==
    ASSUME WalkShape
    PROVE  /\ walk.page \in Nat \ {0} /\ Offset \in Nat /\ Skipped \in Nat
           /\ walk.page * PageSize = Offset + PageSize
<1>1. walk.page \in Nat \ {0}
  BY WalkAssumption DEF WalkShape
<1>2. Offset \in Nat /\ walk.page * PageSize = Offset + PageSize
  BY <1>1, NextOffset DEF Offset
<1> QED
  BY <1>1, <1>2, WalkAssumption DEF Skipped

\* The rows not read are no more than lie ahead.
LEMMA AheadIsCounted ==
    ASSUME TableShape, NEW k \in Nat,
           NEW A, A \subseteq ToSet(FirstRows),
           \A r \in A : \E i \in 1..Len(table) : i > k /\ table[i] = r
    PROVE  /\ IsFiniteSet(A) /\ Cardinality(A) \in Nat
           /\ A = {} \/ Cardinality(A) + k <= Len(table)
<1>1. /\ Len(table) \in Nat /\ DOMAIN table = 1..Len(table)
  BY LenProperties DEF TableShape
<1>2. PICK n : n = Len(table)
  OBVIOUS
<1> DEFINE I == (k + 1)..n
           B == {table[i] : i \in I}
           f == [i \in I |-> table[i]]
<1>3. IsFiniteSet(I) /\ Cardinality(I) = IF k + 1 > n THEN 0 ELSE n - (k + 1) + 1
  <2>1. PICK a : a = k + 1
    OBVIOUS
  <2>2. a \in Int /\ n \in Int
    BY <1>1, <1>2, <2>1
  <2>3. IsFiniteSet(a..n) /\ Cardinality(a..n) = IF a > n THEN 0 ELSE n - a + 1
    BY <2>2, FS_Interval
  <2> QED
    BY <2>1, <2>3
<1>4. f \in Surjection(I, B)
  BY DEF Surjection
<1>5. IsFiniteSet(B) /\ Cardinality(B) <= Cardinality(I)
  BY <1>3, <1>4, FS_Surjection
<1>6. A \subseteq B
  <2> SUFFICES ASSUME NEW r \in A PROVE r \in B
    OBVIOUS
  <2>1. PICK i \in 1..Len(table) : i > k /\ table[i] = r
    OBVIOUS
  <2>2. i \in I
    BY <1>1, <1>2, <2>1
  <2> QED
    BY <2>1, <2>2
<1>7. IsFiniteSet(A) /\ Cardinality(A) <= Cardinality(B)
  BY <1>5, <1>6, FS_Subset
<1>8. Cardinality(A) \in Nat /\ Cardinality(B) \in Nat
  BY <1>5, <1>7, FS_CardinalityType
<1>9. A = {} \/ k + 1 <= n
  BY <1>1, <1>2
<1> HIDE DEF B, I
<1>10. k + 1 <= n => Cardinality(A) + k <= n
  BY <1>1, <1>2, <1>3, <1>5, <1>7, <1>8
<1> QED
  BY <1>2, <1>7, <1>8, <1>9, <1>10

LEMMA ReadRowsKeeps == WalkInv /\ ReadRows => WalkInv'
<1> SUFFICES ASSUME WalkInv, ReadRows PROVE WalkInv'
  OBVIOUS
<1> DEFINE last == Smaller(Offset + PageSize, Len(table))
           part == SubSeq(table, Offset + 1, last)
<1>1. /\ walk.at \in {"both", "rows"}
      /\ walk' = [walk EXCEPT !.at = IF @ = "both" THEN "count" ELSE "answer", !.got = part]
      /\ list' = list /\ table' = table /\ ever' = ever /\ removed' = removed
  BY DEF ReadRows
<1>2. /\ walk'.at = (IF walk.at = "both" THEN "count" ELSE "answer")
      /\ walk'.got = part /\ walk'.items = walk.items
      /\ walk'.page = walk.page /\ walk'.total = walk.total /\ walk'.grown = walk.grown
      /\ walk' = [at |-> walk'.at, page |-> walk'.page, items |-> walk'.items, got |-> walk'.got,
                  total |-> walk'.total, grown |-> walk'.grown]
  BY <1>1 DEF WalkInv
<1>3. CASE removed # {}
  BY <1>1, <1>2, <1>3 DEF WalkInv
<1>4. CASE removed = {}
  <2>1. TableShape /\ WalkShape /\ NothingLost
    BY <1>4 DEF WalkInv
  <2> DEFINE size == Len(part)
  <2>2. /\ Offset \in Nat /\ PageSize \in Nat \ {0}
        /\ Len(table) \in Nat /\ Len(table) <= (MaxPage - 1) * PageSize
    BY <2>1, OffsetType, TableFits, WalkAssumption
  <2>3. /\ part \in Seq(ListRows)
        /\ size = IF Offset >= Len(table) THEN 0 ELSE IF Offset + PageSize <= Len(table)
                  THEN PageSize ELSE Len(table) - Offset
        /\ \A j \in 1..size : part[j] = table[Offset + j]
    <3>1. last \in Nat /\ last <= Len(table) /\ last <= Offset + PageSize
          /\ (last = Len(table) \/ last = Offset + PageSize)
      BY <2>2 DEF Smaller
    <3>2. \A i \in (Offset + 1)..last : table[i] \in ListRows
      BY <2>1, <2>2, <3>1, ElementOfSeq DEF TableShape
    <3>3. Offset + 1 \in Int /\ last \in Int
      BY <3>1, <2>2
    <3> HIDE DEF last
    <3>4. /\ part \in Seq(ListRows)
          /\ size = IF Offset + 1 <= last THEN last - (Offset + 1) + 1 ELSE 0
          /\ \A j \in 1..(last - (Offset + 1) + 1) : part[j] = table[Offset + 1 + j - 1]
      BY <3>2, <3>3, SubSeqProperties
    <3> HIDE DEF part
    <3>5. size = IF Offset >= Len(table) THEN 0 ELSE IF Offset + PageSize <= Len(table)
                 THEN PageSize ELSE Len(table) - Offset
      <4>1. PICK o, n, p, k : o = Offset /\ n = Len(table) /\ p = PageSize /\ k = last
        OBVIOUS
      <4>2. /\ o \in Nat /\ n \in Nat /\ p \in Nat /\ k \in Nat
            /\ k <= n /\ k <= o + p /\ (k = n \/ k = o + p)
        BY <2>2, <3>1, <4>1
      <4>3. size = IF o + 1 <= k THEN k - (o + 1) + 1 ELSE 0
        BY <3>4, <4>1
      <4>4. (IF o + 1 <= k THEN k - (o + 1) + 1 ELSE 0)
               = IF o >= n THEN 0 ELSE IF o + p <= n THEN p ELSE n - o
        BY <4>2
      <4> QED
        BY <4>1, <4>3, <4>4
    <3>6. ASSUME NEW j \in 1..size
          PROVE  part[j] = table[Offset + j]
      <4>1. j \in 1..(last - (Offset + 1) + 1) /\ Offset + 1 + j - 1 = Offset + j
        BY <2>2, <3>1, <3>4
      <4> QED
        BY <3>4, <4>1
    <3> QED
      BY <3>4, <3>5, <3>6
  <2> HIDE DEF part
  <2>4. TableShape'
    BY <1>1, <2>1 DEF TableShape
  <2>5. size = 0 => part = <<>>
    BY <2>3, EmptySeq
  <2>6. WalkShape'
    <3>1. walk.page = MaxPage => part = <<>>
      BY <2>2, <2>3, <2>5 DEF Offset
    <3>2. Offset' = Offset
      BY <1>2 DEF Offset
    <3> QED
      BY <1>1, <1>2, <2>1, <2>2, <2>3, <3>1, <3>2 DEF WalkShape
  <2>7. NothingLost'
    <3>1. Skipped' = Offset + PageSize /\ Skipped = Offset
      BY <1>1, <1>2 DEF Skipped, Offset
    <3>A. ASSUME \A r \in ToSet(FirstRows) : (Met(r)' \/ Ahead(r)') /\ (part = <<>> => Met(r)')
          PROVE  NothingLost'
      <4>1. \A r \in Unmet' : \E i \in 1..Len(table) : i > Skipped' /\ table[i] = r
        BY <1>1, <3>A DEF Unmet, Ahead
      <4>2. Unmet' \subseteq ToSet(FirstRows) /\ Skipped' \in Nat
        BY <2>2, <3>1 DEF Unmet
      <4>3. /\ Cardinality(Unmet') \in Nat
            /\ Unmet' = {} \/ Cardinality(Unmet') + Skipped' <= Len(table)
        BY <2>1, <4>1, <4>2, AheadIsCounted
      <4>4. walk'.at = "answer" => walk.total + walk.grown = Len(table)
        BY <1>1, <1>2, <2>1 DEF NothingLost
      <4>5. walk'.at = "answer" =>
               Unmet' = {} \/ Cardinality(Unmet') + Skipped' <= walk'.total + walk'.grown
        BY <1>2, <4>3, <4>4
      <4> QED
        BY <1>2, <3>A, <4>5 DEF NothingLost
    <3> SUFFICES ASSUME NEW r \in ToSet(FirstRows)
                 PROVE  /\ Met(r)' \/ Ahead(r)'
                        /\ part = <<>> => Met(r)'
      BY <3>A
    <3>2. Met(r)' <=> r \in ToSet(walk.items) \/ r \in ToSet(part)
      BY <1>2 DEF Met
    <3>3. CASE r \in ToSet(walk.items)
      BY <3>2, <3>3
    <3>4. CASE r \notin ToSet(walk.items)
      <4>1. walk.got = <<>>
        BY <1>1, <2>1 DEF WalkShape
      <4>2. r \notin ToSet(walk.got)
        BY <4>1 DEF ToSet
      <4>3. Ahead(r)
        BY <1>1, <2>1, <3>4, <4>2 DEF NothingLost, Met
      <4>4. PICK i \in 1..Len(table) : i > Offset /\ table[i] = r
        BY <4>3, <3>1 DEF Ahead
      <4>5. part # <<>>
        BY <4>4, <2>2, <2>3, EmptySeq
      <4>6. CASE i > Offset + PageSize
        BY <4>4, <4>5, <4>6, <3>1, <1>1 DEF Ahead
      <4>7. CASE i <= Offset + PageSize
        <5>1. i - Offset \in 1..size /\ part[i - Offset] = r
          BY <2>2, <2>3, <4>4, <4>7
        <5>2. DOMAIN part = 1..size
          BY <2>3, LenProperties
        <5> QED
          BY <5>1, <5>2, <3>2, <4>5 DEF ToSet
      <4> QED
        BY <4>6, <4>7, <2>2
    <3> QED
      BY <3>3, <3>4
  <2>8. list = users => OnceEach'
    <3> SUFFICES ASSUME list = users PROVE OnceEach'
      OBVIOUS
    <3>1. OnceEach
      BY DEF WalkInv
    <3>2. Offset' = Offset
      BY <1>2 DEF Offset
    <3>3. \A j \in 1..size : Offset + j <= Len(table)
      BY <2>2, <2>3
    <3> QED
      BY <1>1, <1>2, <2>3, <3>1, <3>2, <3>3 DEF OnceEach
  <2> QED
    BY <1>1, <1>2, <1>4, <2>4, <2>6, <2>7, <2>8 DEF WalkInv
<1> QED
  BY <1>3, <1>4

LEMMA ReadCountKeeps == WalkInv /\ ReadCount => WalkInv'
<1> SUFFICES ASSUME WalkInv, ReadCount PROVE WalkInv'
  OBVIOUS
<1>1. /\ walk.at = "count" \/ (walk.at = "both" /\ list.together)
      /\ walk' = [walk EXCEPT !.at = IF @ = "both" THEN "rows" ELSE "answer", !.total = Len(table)]
      /\ list' = list /\ table' = table /\ ever' = ever /\ removed' = removed
  BY DEF ReadCount
<1>2. /\ walk'.at = (IF walk.at = "both" THEN "rows" ELSE "answer")
      /\ walk'.got = walk.got /\ walk'.items = walk.items
      /\ walk'.page = walk.page /\ walk'.total = Len(table) /\ walk'.grown = walk.grown
      /\ walk' = [at |-> walk'.at, page |-> walk'.page, items |-> walk'.items, got |-> walk'.got,
                  total |-> walk'.total, grown |-> walk'.grown]
  BY <1>1 DEF WalkInv
<1>3. Offset' = Offset
  BY <1>2 DEF Offset
<1>4. CASE removed # {}
  BY <1>1, <1>2, <1>4 DEF WalkInv
<1>5. CASE removed = {}
  <2>1. TableShape /\ WalkShape /\ NothingLost
    BY <1>5 DEF WalkInv
  <2>2. Skipped' = Skipped /\ Skipped \in Nat /\ Len(table) \in Nat
    BY <1>1, <1>2, <1>3, <2>1, OffsetType, TableFits DEF Skipped
  <2>3. TableShape' /\ WalkShape'
    BY <1>1, <1>2, <1>3, <2>1, <2>2 DEF TableShape, WalkShape
  <2>4. \A r : (Met(r)' <=> Met(r)) /\ (Ahead(r)' <=> Ahead(r))
    BY <1>1, <1>2, <2>2 DEF Met, Ahead
  <2>5. Unmet' = Unmet
    BY <2>4 DEF Unmet
  <2>6. NothingLost'
    <3>1. \A r \in ToSet(FirstRows) : Met(r) \/ Ahead(r)
      BY <1>1, <2>1 DEF NothingLost
    <3>2. \A r \in Unmet : \E i \in 1..Len(table) : i > Skipped /\ table[i] = r
      BY <3>1 DEF Unmet, Ahead
    <3>3. Unmet \subseteq ToSet(FirstRows)
      BY DEF Unmet
    <3>4. Cardinality(Unmet) \in Nat /\ (Unmet = {} \/ Cardinality(Unmet) + Skipped <= Len(table))
      BY <2>1, <2>2, <3>2, <3>3, AheadIsCounted
    <3>5. walk.grown \in Nat /\ (walk.at = "both" => walk.grown = 0)
      BY <2>1 DEF WalkShape
    <3>6. Unmet' = {} \/ Cardinality(Unmet') + Skipped' <= walk'.total + walk'.grown
      BY <1>2, <2>2, <2>5, <3>4, <3>5
    <3>7. walk'.at = "rows" => walk'.total + walk'.grown = Len(table)
      BY <1>1, <1>2, <2>2, <3>5
    <3> QED
      BY <1>1, <1>2, <2>1, <2>4, <3>6, <3>7 DEF NothingLost
  <2>7. list = users => OnceEach'
    BY <1>1, <1>2, <1>3 DEF OnceEach, WalkInv
  <2> QED
    BY <1>1, <1>2, <1>5, <2>3, <2>6, <2>7 DEF WalkInv
<1> QED
  BY <1>4, <1>5

LEMMA NextPageKeeps == WalkInv /\ NextPage => WalkInv'
<1> SUFFICES ASSUME WalkInv, NextPage PROVE WalkInv'
  OBVIOUS
<1>1. PICK items, got, more : items = walk.items /\ got = walk.got /\ more = items \o got
  OBVIOUS
<1>2. more = items \o got
  BY <1>1
<1>3. PICK over \in BOOLEAN : over <=> (got = <<>> /\ list.breaks) \/ Len(more) >= walk.total
  OBVIOUS
<1>4. /\ walk.at = "answer"
      /\ walk' = [walk EXCEPT !.items = more, !.got = <<>>, !.page = Smaller(@ + 1, MaxPage),
                              !.at = IF over THEN "done" ELSE "both",
                              !.grown = IF over THEN @ ELSE 0]
      /\ list' = list /\ table' = table /\ ever' = ever /\ removed' = removed
  BY <1>1, <1>3 DEF NextPage
<1>5. /\ walk'.at = (IF over THEN "done" ELSE "both") /\ walk'.grown = (IF over THEN walk.grown ELSE 0)
      /\ walk'.got = <<>> /\ walk'.items = more
      /\ walk'.page = Smaller(walk.page + 1, MaxPage) /\ walk'.total = walk.total
      /\ walk' = [at |-> walk'.at, page |-> walk'.page, items |-> walk'.items, got |-> walk'.got,
                  total |-> walk'.total, grown |-> walk'.grown]
  BY <1>1, <1>4 DEF WalkInv
<1>6. CASE removed # {}
  BY <1>1, <1>4, <1>5, <1>6 DEF WalkInv
<1>7. CASE removed = {}
  <2>1. TableShape /\ WalkShape /\ NothingLost
    BY <1>1, <1>7 DEF WalkInv
  <2>2. /\ walk.page \in Nat \ {0} /\ Offset \in Nat /\ PageSize \in Nat \ {0}
        /\ Len(table) \in Nat /\ Skipped = Offset + PageSize /\ walk.total \in Nat
        /\ Offset' = IF walk.page = MaxPage THEN Offset ELSE Skipped
    <3>1. walk.page \in 1..MaxPage /\ MaxPage \in Nat
      BY <1>1, <2>1, WalkAssumption DEF WalkShape
    <3>2. walk'.page = IF walk.page = MaxPage THEN walk.page ELSE walk.page + 1
      BY <1>1, <1>5, <3>1 DEF Smaller
    <3>3. Offset' = (walk'.page - 1) * PageSize /\ (walk.page + 1) - 1 = walk.page
      BY <1>1, <3>1 DEF Offset
    <3>4. PICK q, w : q = Offset /\ w = Offset'
      OBVIOUS
    <3>5. q \in Nat /\ PageSize \in Nat \ {0} /\ Len(table) \in Nat /\ walk.total \in Nat
      BY <1>1, <2>1, <3>4, OffsetType, TableFits, WalkAssumption DEF WalkShape
    <3>6. Skipped = q + PageSize
      BY <1>1, <1>4, <3>4 DEF Skipped
    <3>7. walk.page = MaxPage => w = q
      BY <1>1, <3>2, <3>3, <3>4 DEF Offset
    <3>8. walk.page # MaxPage => w = q + PageSize
      <4>1. q = (walk.page - 1) * PageSize
        BY <1>1, <3>4 DEF Offset
      <4>2. PICK p \in Nat : p = walk.page - 1
        BY <3>1
      <4>3. ASSUME walk.page # MaxPage PROVE w = (p + 1) * PageSize
        <5>1. walk'.page - 1 = p + 1
          BY <3>1, <3>2, <4>2, <4>3
        <5> QED
          BY <3>3, <3>4, <5>1
      <4>4. (p + 1) * PageSize = p * PageSize + PageSize
        BY <3>5, <4>2
      <4> QED
        BY <4>1, <4>2, <4>3, <4>4
    <3>9. walk.page \in Nat \ {0}
      BY <3>1
    <3> QED
      BY <3>4, <3>5, <3>6, <3>7, <3>8, <3>9
  <2>3. /\ items \in Seq(ListRows) /\ got \in Seq(ListRows) /\ more \in Seq(ListRows)
        /\ Len(items) \in Nat /\ Len(got) \in Nat
        /\ Len(more) = Len(items) + Len(got)
        /\ ToSet(more) = ToSet(items) \cup ToSet(got)
    <3>1. items \in Seq(ListRows) /\ got \in Seq(ListRows)
      BY <1>1, <2>1 DEF WalkShape
    <3>2. ToSet(more) = ToSet(items) \cup ToSet(got)
      BY <1>2, <3>1, AddedRows
    <3> QED
      BY <1>2, <3>1, <3>2, AddedAt
  <2>4. /\ Len(items) \in Nat /\ Len(got) \in Nat /\ Len(more) \in Nat
        /\ Len(more) = Len(items) + Len(got)
    BY <2>3
  <2>5. /\ \A j \in 1..Len(items) : more[j] = items[j]
        /\ \A j \in 1..Len(got) : more[Len(items) + j] = got[j]
        /\ \A j \in 1..Len(more) : \/ j \in 1..Len(items)
                                   \/ \E k \in 1..Len(got) : j = Len(items) + k
    <3>1. \A j \in 1..Len(more) : j \in 1..(Len(items) + Len(got))
      BY <2>4
    <3>2. \A j \in 1..Len(more) : \/ j \in 1..Len(items)
                                 \/ \E k \in 1..Len(got) : j = Len(items) + k
      BY <2>4, <3>1, Parts
    <3>3. \A j \in 1..Len(items) : more[j] = items[j]
      BY <1>2, <2>3, AddedAt
    <3>4. \A j \in 1..Len(got) : more[Len(items) + j] = got[j]
      BY <1>2, <2>3, AddedAt
    <3> QED
      BY <3>2, <3>3, <3>4
  <2>6. TableShape'
    BY <1>1, <1>4, <2>1 DEF TableShape
  <2>7. WalkShape'
    <3>1. walk'.page \in 1..MaxPage
      <4>1. PICK p : p = walk.page
        OBVIOUS
      <4>2. p \in 1..MaxPage /\ MaxPage \in Nat
        BY <1>1, <2>1, <4>1, WalkAssumption DEF WalkShape
      <4>3. walk'.page = IF p + 1 <= MaxPage THEN p + 1 ELSE MaxPage
        BY <1>5, <4>1, <4>2 DEF Smaller
      <4> QED
        BY <4>2, <4>3
    <3>2. Len(more) <= Offset'
      <4>1. walk.page = MaxPage => Len(got) = 0
        BY <1>1, <2>1 DEF WalkShape
      <4>2. Len(items) <= Offset /\ Len(got) <= PageSize
        BY <1>1, <1>4, <2>1 DEF WalkShape
      <4>3. CASE walk.page = MaxPage
        BY <2>2, <2>4, <4>1, <4>2, <4>3
      <4>4. CASE walk.page # MaxPage
        <5>1. Offset' = Offset + PageSize
          BY <2>2, <4>4
        <5> QED
          BY <2>2, <2>4, <4>2, <5>1
      <4> QED
        BY <4>3, <4>4
    <3>3. <<>> \in Seq(ListRows) /\ Len(<<>>) = 0
      OBVIOUS
    <3>4. walk'.grown \in Nat /\ (walk'.at = "both" => walk'.grown = 0)
      BY <1>1, <1>5, <2>1 DEF WalkShape
    <3> QED
      BY <1>5, <2>2, <2>3, <3>1, <3>2, <3>3, <3>4 DEF WalkShape
  <2>8. NothingLost'
    <3>1. \A r : Met(r)' <=> Met(r)
      <4>1. ToSet(<<>>) = {}
        BY DEF ToSet
      <4> QED
        BY <1>1, <1>5, <2>3, <4>1 DEF Met
    <3>A. over => Cardinality(Unmet') <= walk'.grown
      <4> SUFFICES ASSUME over PROVE Cardinality(Unmet') <= walk'.grown
        OBVIOUS
      <4>1. Unmet' = Unmet /\ walk'.grown = walk.grown /\ walk.grown \in Nat
        BY <1>1, <1>5, <2>1, <3>1 DEF Unmet, WalkShape
      <4>2. CASE Unmet = {}
        BY <4>1, <4>2, FS_EmptySet
      <4>3. CASE Unmet # {}
        <5>1. got # <<>>
          BY <1>1, <1>4, <2>1, <4>3 DEF NothingLost, Unmet
        <5>2. Len(items) <= Offset /\ Len(got) <= PageSize
          BY <1>1, <1>4, <2>1 DEF WalkShape
        <5>3. walk.total <= Skipped
          BY <1>3, <2>2, <2>4, <5>1, <5>2
        <5>4. Cardinality(Unmet) + Skipped <= walk.total + walk.grown
          BY <1>4, <2>1, <4>3 DEF NothingLost
        <5>5. Cardinality(Unmet) \in Nat
          <6>1. IsFiniteSet(Unmet)
            BY WalkAssumption, FS_Subset, Unmet \subseteq ListRows DEF Unmet, ToSet
          <6> QED
            BY <6>1, FS_CardinalityType
        <5> QED
          BY <2>2, <4>1, <5>3, <5>4, <5>5
      <4> QED
        BY <4>2, <4>3
    <3> SUFFICES ASSUME NEW r \in ToSet(FirstRows), ~over
                 PROVE  Met(r)' \/ Ahead(r)'
      BY <1>1, <1>5, <3>A DEF NothingLost
    <3>2. CASE Met(r)
      BY <3>1, <3>2
    <3>3. CASE ~Met(r)
      <4>1. Ahead(r) /\ got # <<>>
        BY <1>1, <1>4, <2>1, <3>3 DEF NothingLost
      <4>2. walk.page # MaxPage /\ Len(items) <= Offset /\ Len(got) <= PageSize
        BY <1>1, <1>4, <2>1, <4>1 DEF WalkShape
      <4>4. Skipped' = Skipped
        BY <1>1, <1>5, <2>2, <4>2 DEF Skipped
      <4>5. Ahead(r)'
        BY <1>1, <1>4, <4>1, <4>4 DEF Ahead
      <4> QED
        BY <4>5
    <3> QED
      BY <3>2, <3>3
  <2>9. list = users => OnceEach'
    <3> SUFFICES ASSUME list = users PROVE OnceEach'
      OBVIOUS
    <3>1. /\ IsInjective(items)
          /\ \A j \in 1..Len(items) : \E i \in 1..Len(table) :
                i <= Offset /\ items[j] = table[i]
          /\ \A j \in 1..Len(got) : Offset + j <= Len(table) /\ got[j] = table[Offset + j]
      BY <1>1, <1>4 DEF OnceEach, WalkInv
    <3>2. \A k \in 1..Len(got) : /\ Offset' = Offset + PageSize /\ k <= PageSize
                                     /\ Offset + k \in 1..Len(table)
                                     /\ more[Len(items) + k] = table[Offset + k]
      <4> TAKE k \in 1..Len(got)
      <4>1. walk.page # MaxPage /\ Len(got) <= PageSize
        BY <1>1, <2>1, <2>3, EmptySeq DEF WalkShape
      <4>2. Offset' = Offset + PageSize
        BY <2>2, <4>1
      <4>3. Offset + k <= Len(table) /\ got[k] = table[Offset + k]
        BY <3>1
      <4>4. Offset + k \in 1..Len(table)
        BY <2>2, <2>4, <4>3
      <4>5. k <= PageSize
        BY <2>2, <2>4, <4>1
      <4> QED
        BY <2>5, <4>2, <4>3, <4>4, <4>5
    <3>3. \A j \in 1..Len(items) : \E i \in 1..Len(table) : i <= Offset /\ more[j] = table[i]
      BY <2>5, <3>1
    <3>4. Offset <= Offset'
      BY <2>2
    <3>5. \A j \in 1..Len(more) : \E i \in 1..Len(table) : i <= Offset' /\ more[j] = table[i]
      <4> TAKE j \in 1..Len(more)
      <4>1. CASE j \in 1..Len(items)
        BY <2>2, <3>3, <3>4, <4>1
      <4>2. CASE \E k \in 1..Len(got) : j = Len(items) + k
        <5> PICK k \in 1..Len(got) : j = Len(items) + k
          BY <4>2
        <5> QED
          BY <2>2, <2>4, <3>2
      <4> QED
        BY <4>1, <4>2, <2>5
    <3>6. DOMAIN items = 1..Len(items) /\ DOMAIN more = 1..Len(more)
          /\ DOMAIN table = 1..Len(table)
      BY <1>1, <2>1, <2>3, LenProperties DEF TableShape
    <3>7. \A i, k \in 1..Len(table) : table[i] = table[k] => i = k
      BY <1>1, <2>1, <3>6 DEF TableShape, IsInjective
    <3>8. ASSUME NEW j \in 1..Len(more), NEW k \in 1..Len(more), j < k, more[j] = more[k]
          PROVE  FALSE
      <4>1. CASE k \in 1..Len(items)
        <5>1. j \in 1..Len(items)
          BY <3>8, <4>1, <2>4
        <5> QED
          <6>1. items[j] = items[k]
            BY <2>5, <3>8, <4>1, <5>1
          <6>2. j = k
            BY <1>1, <3>1, <3>6, <4>1, <5>1, <6>1 DEF IsInjective
          <6> QED
            BY <3>8, <6>2, <2>4
      <4>2. ASSUME NEW l \in 1..Len(got), k = Len(items) + l PROVE FALSE
        <5>1. CASE j \in 1..Len(items)
          <6>1. PICK i \in 1..Len(table) : i <= Offset /\ more[j] = table[i]
            BY <5>1, <3>3
          <6>2. Offset + l \in 1..Len(table) /\ table[Offset + l] = table[i]
            BY <3>2, <3>8, <4>2, <6>1
          <6>3. Offset + l = i
            BY <3>7, <6>2
          <6> QED
            BY <2>2, <6>1, <6>3
        <5>2. ASSUME NEW h \in 1..Len(got), j = Len(items) + h PROVE FALSE
          <6>1. Offset + l \in 1..Len(table) /\ Offset + h \in 1..Len(table)
                /\ table[Offset + l] = table[Offset + h]
            BY <3>2, <3>8, <4>2, <5>2
          <6>2. Offset + l = Offset + h
            BY <3>7, <6>1
          <6> QED
            BY <2>2, <2>4, <3>8, <4>2, <5>2, <6>2
        <5> QED
          BY <5>1, <5>2, <2>5
      <4> QED
        BY <4>1, <4>2, <2>5
    <3>9. IsInjective(more)
      <4>1. \A j, k \in 1..Len(more) : more[j] = more[k] => j = k
        <5> SUFFICES ASSUME NEW j \in 1..Len(more), NEW k \in 1..Len(more), more[j] = more[k]
                     PROVE  j = k
          OBVIOUS
        <5>1. j \in Int /\ k \in Int
          BY <2>4
        <5>2. ~(j < k) /\ ~(k < j)
          BY <3>8
        <5> QED
          BY <5>1, <5>2
      <4> QED
        BY <3>6, <4>1 DEF IsInjective
    <3> QED
      <4>1. Len(<<>>) = 0 /\ 1..0 = {}
        OBVIOUS
      <4> QED
        BY <1>4, <1>5, <3>5, <3>9, <4>1 DEF OnceEach
  <2> QED
    BY <1>1, <1>4, <1>5, <1>7, <2>6, <2>7, <2>8, <2>9 DEF WalkInv
<1> QED
  BY <1>6, <1>7

LEMMA InsertRowKeeps ==
    ASSUME WalkInv, NEW r \in ListRows, NEW i \in 1..(Len(table) + 1), InsertRow(r, i)
    PROVE  WalkInv'
<1>1. /\ r \notin ever /\ table' = InsertAt(table, i, r) /\ ever' = ever \cup {r}
      /\ list' = list /\ removed' = removed
      /\ walk' = [walk EXCEPT !.grown = IF walk.at = "rows" THEN @ + 1 ELSE @]
      /\ list = users => i = Len(table) + 1
  BY DEF InsertRow, users
<1>4. /\ walk'.at = walk.at /\ walk'.got = walk.got /\ walk'.items = walk.items
      /\ walk'.page = walk.page /\ walk'.total = walk.total
      /\ walk'.grown = IF walk.at = "rows" THEN walk.grown + 1 ELSE walk.grown
      /\ walk' = [at |-> walk'.at, page |-> walk'.page, items |-> walk'.items, got |-> walk'.got,
                  total |-> walk'.total, grown |-> walk'.grown]
  BY <1>1 DEF WalkInv
<1>5. table' = InsertAt(table, i, r)
  BY DEF InsertRow
<1>2. CASE removed # {}
  BY <1>1, <1>2, <1>4 DEF WalkInv
<1>3. CASE removed = {}
  <2>1. TableShape /\ WalkShape /\ NothingLost
    BY <1>3 DEF WalkInv
  <2>2. /\ table \in Seq(ListRows) /\ table' \in Seq(ListRows)
        /\ Len(table) \in Nat /\ Len(table') = Len(table) + 1
        /\ DOMAIN table = 1..Len(table) /\ DOMAIN table' = 1..Len(table')
        /\ \A j \in 1..Len(table') :
             table'[j] = IF j < i THEN table[j] ELSE IF j = i THEN r ELSE table[j - 1]
    <3>1. table \in Seq(ListRows)
      BY <2>1 DEF TableShape
    <3>2. InsertAt(table, i, r) \in Seq(ListRows)
      BY <3>1, Inserted
    <3>3. Len(InsertAt(table, i, r)) = Len(table) + 1
      BY <3>1, Inserted
    <3>4. \A j \in 1..(Len(table) + 1) :
             InsertAt(table, i, r)[j] = IF j < i THEN table[j] ELSE IF j = i THEN r ELSE table[j - 1]
      BY <3>1, Inserted
    <3>5. /\ Len(table) \in Nat /\ DOMAIN table = 1..Len(table)
          /\ DOMAIN InsertAt(table, i, r) = 1..Len(InsertAt(table, i, r))
      BY <3>1, <3>2, LenProperties
    <3> QED
      BY <1>5, <3>1, <3>2, <3>3, <3>4, <3>5
  <2>3. \A j \in 1..Len(table) : table[j] # r /\ table[j] \in ever
    BY <1>1, <2>1, <2>2 DEF TableShape, ToSet
  <2>4. TableShape'
    <3>1. \A j, k \in 1..Len(table) : table[j] = table[k] => j = k
      BY <2>1, <2>2 DEF TableShape, IsInjective
    <3>2. \A j, k \in 1..Len(table') : table'[j] = table'[k] => j = k
      BY <2>2, <2>3, <3>1
    <3>3. \A j \in 1..Len(table') : table'[j] \in ever'
      BY <1>1, <2>2, <2>3
    <3> QED
      BY <2>2, <3>2, <3>3 DEF TableShape, IsInjective, ToSet
  <2>5. WalkShape' /\ Offset' = Offset /\ Skipped' = Skipped
        /\ Skipped \in Nat /\ Offset \in Nat
    <3>1. WalkShape'
      BY <1>1, <1>4, <2>1 DEF WalkShape, Offset
    <3> QED
      BY <1>4, <2>1, <3>1, OffsetType DEF Skipped, Offset
  <2>6. NothingLost'
    <3>1. \A x : Met(x)' <=> Met(x)
      BY <1>4 DEF Met
    <3>2. \A x : Ahead(x) => Ahead(x)'
      <4> SUFFICES ASSUME NEW j \in 1..Len(table), j > Skipped
                   PROVE  \E k \in 1..Len(table') : k > Skipped /\ table'[k] = table[j]
        BY <2>5 DEF Ahead
      <4>1. CASE j < i
        BY <4>1, <2>2
      <4>2. CASE j >= i
        <5>1. j + 1 \in 1..Len(table') /\ j + 1 > Skipped /\ table'[j + 1] = table[j]
          BY <4>2, <2>2, <2>5
        <5> QED
          BY <5>1
      <4> QED
        BY <4>1, <4>2, <2>2
    <3>3. Unmet' = Unmet
      BY <3>1 DEF Unmet
    <3>4. walk'.at = "rows" => walk'.total + walk'.grown = Len(table')
      <4> SUFFICES ASSUME walk.at = "rows" PROVE walk.total + (walk.grown + 1) = Len(table) + 1
        BY <1>4, <2>2
      <4> QED
        BY <2>1, <2>2 DEF NothingLost, WalkShape
    <3>5. walk'.at # "rows" => walk'.grown = walk.grown
      BY <1>4
    <3> QED
      BY <1>4, <2>1, <2>5, <3>1, <3>2, <3>3, <3>4, <3>5 DEF NothingLost
  <2>7. list = users => OnceEach'
    <3> SUFFICES ASSUME list = users PROVE OnceEach'
      OBVIOUS
    <3>1. OnceEach
      BY DEF WalkInv
    <3>2. \A j \in 1..Len(table) : j \in 1..Len(table') /\ table'[j] = table[j]
      BY <1>1, <2>2
    <3>3. /\ walk.got \in Seq(ListRows) /\ Len(walk.got) \in Nat
      BY <2>1, LenProperties DEF WalkShape
    <3>4. IsInjective(walk'.items)
      BY <1>4, <3>1 DEF OnceEach
    <3> SUFFICES ASSUME walk.at # "done"
                 PROVE  /\ \A j \in 1..Len(walk.items) : \E k \in 1..Len(table') :
                              k <= Offset /\ walk.items[j] = table'[k]
                        /\ \A j \in 1..Len(walk.got) :
                              Offset + j <= Len(table') /\ walk.got[j] = table'[Offset + j]
      BY <1>4, <2>5, <3>4 DEF OnceEach
    <3>5. \A j \in 1..Len(walk.items) : \E k \in 1..Len(table') :
            k <= Offset /\ walk.items[j] = table'[k]
      BY <3>1, <3>2 DEF OnceEach
    <3>6. \A j \in 1..Len(walk.got) :
             Offset + j \in 1..Len(table) /\ walk.got[j] = table[Offset + j]
      BY <2>2, <2>5, <3>1, <3>3 DEF OnceEach
    <3> QED
      BY <2>2, <3>2, <3>5, <3>6
  <2> QED
    BY <1>1, <1>3, <1>4, <2>4, <2>5, <2>6, <2>7 DEF WalkInv
<1> QED
  BY <1>2, <1>3

LEMMA WalkInvHolds == WalkSpec => []WalkInv
<1>1. WalkInv /\ [WalkNext]_walkVars => WalkInv'
  <2> SUFFICES ASSUME WalkInv, [WalkNext]_walkVars PROVE WalkInv'
    OBVIOUS
  <2>1. CASE UNCHANGED walkVars
    BY <2>1 DEF walkVars, WalkInv, TableShape, WalkShape, NothingLost, OnceEach, Met, Ahead,
                Unmet, Skipped, Offset
  <2>2. ASSUME NEW r \in ListRows, RemoveRow(r) PROVE WalkInv'
    BY <2>2 DEF RemoveRow, WalkInv
  <2> QED
    BY <2>1, <2>2, ReadRowsKeeps, ReadCountKeeps, NextPageKeeps, InsertRowKeeps DEF WalkNext
<1> QED
  BY <1>1, WalkStarts, PTL DEF WalkSpec

\* A list read page by page is whole: nothing that was in it from the start to the end of
\* the walk is missed unless something was removed, and no user is listed twice, however
\* many rows others add meanwhile (fetchAllPages in paginate-all.ts, listUsers).  A list of
\* sales, whose count may be read before the rows (SalesRepository.list), misses no more
\* than were added between the two queries of its last page (loadInvoicesByStatus, listSales).
THEOREM ListsAreReadWhole == WalkSpec => []WalksAreWhole
<1>1. WalkInv => WalksAreWhole
  <2> SUFFICES ASSUME WalkInv PROVE NothingMissed /\ EachUserOnce
    BY DEF WalksAreWhole
  <2>1. NothingMissed
    <3> SUFFICES ASSUME walk.at = "done", removed = {}
                 PROVE  IF list.together THEN Cardinality(Missed) <= walk.grown ELSE Missed = {}
      BY DEF NothingMissed
    <3>1. Cardinality(Unmet) <= walk.grown /\ walk.got = <<>>
      BY DEF WalkInv, NothingLost, WalkShape
    <3>2. Unmet = Missed
      <4>1. ToSet(<<>>) = {}
        BY DEF ToSet
      <4> QED
        BY <3>1, <4>1 DEF Unmet, Met, Missed
    <3>3. IsFiniteSet(Missed)
      BY WalkAssumption, FS_Subset, Missed \subseteq ListRows DEF Missed, ToSet
    <3>4. ~list.together => Cardinality(Missed) <= 0
      BY <3>1, <3>2 DEF WalkInv
    <3>5. Cardinality(Missed) <= 0 => Missed = {}
      BY <3>3, FS_CardinalityType, FS_EmptySet
    <3> QED
      BY <3>1, <3>2, <3>4, <3>5
  <2>2. EachUserOnce
    BY InjectiveLength, WalkAssumption DEF WalkInv, OnceEach, WalkShape, EachUserOnce
  <2> QED
    BY <2>1, <2>2
<1> QED
  BY <1>1, WalkInvHolds, PTL

-----------------------------------------------------------------------------
(* Pages and their hooks *)

\* What the theorems need to know of a page: what its effect and its commands may do.
PageIsKnown(p) ==
    /\ Pages[p].hook.query \in {"refreshing", "loading", "none"}
    /\ Pages[p].hook.reload \in {"refreshing", "loading", "rows"}
    /\ \A c \in DOMAIN Pages[p].hook.commands :
         /\ Pages[p].hook.commands[c] \in {"reload", "install", "leave"}
         /\ p \notin Racing \cup {"profitability"} => Pages[p].hook.commands[c] # "install"

ProfitabilityNeverReloads ==
    /\ Pages["profitability"].hook.query = "none"
    /\ \A c \in DOMAIN Pages["profitability"].hook.commands :
         Pages["profitability"].hook.commands[c] = "install"
    /\ Pages["profitability"].hook.conflicts = {}
    /\ ~Pages["profitability"].retry /\ Pages["profitability"].blank = {}

LEMMA PagesAreKnown == \A p \in DOMAIN Pages : PageIsKnown(p)
<1>1. PageIsKnown("sales")
  BY DEF PageIsKnown, Pages, Racing, SalesPage, PageOf, useSalesList, Hook, NoCommands, beginQueryReload
<1>2. PageIsKnown("customers")
  BY DEF PageIsKnown, Pages, Racing, CustomersPage, PageOf, useCustomers, Hook, Reloads, beginQueryReload
<1>3. PageIsKnown("users")
  BY DEF PageIsKnown, Pages, Racing, UsersPage, PageOf, useUsers, Hook, Reloads, beginQueryReload
<1>4. PageIsKnown("recoveries")
  BY DEF PageIsKnown, Pages, Racing, RecoveryRequestsPanel, PageOf, useRecoveryRequests, Hook,
         Reloads, beginQueryReload
<1>5. PageIsKnown("catalogs")
  BY DEF PageIsKnown, Pages, Racing, CatalogsPage, PageOf, useCatalogs, Hook, Reloads, beginQueryReload
<1>6. PageIsKnown("inventory")
  BY DEF PageIsKnown, Pages, Racing, InventoryPage, PageOf, useInventoryCatalog, Hook, Reloads,
         beginQueryReload
<1>7. PageIsKnown("item")
  BY DEF PageIsKnown, Pages, Racing, InventoryDetailPage, PageOf, useInventoryDetail, Hook
<1>8. PageIsKnown("workOrders")
  BY DEF PageIsKnown, Pages, Racing, WorkOrdersPage, PageOf, useWorkOrders, Hook, beginQueryReload
<1>9. PageIsKnown("workOrder")
  BY DEF PageIsKnown, Pages, Racing, WorkOrderDetailPage, PageOf, useWorkOrderDetail, Hook, Reloads
<1>10. PageIsKnown("receivables")
  BY DEF PageIsKnown, Pages, Racing, ReceivablesPage, PageOf, useReceivables, Hook, NoCommands,
         beginQueryReload
<1>11. PageIsKnown("dashboard")
  BY DEF PageIsKnown, Pages, Racing, DashboardPage, PageOf, useDashboard, Hook, NoCommands,
         beginQueryReload
<1>12. PageIsKnown("profitability")
  BY DEF PageIsKnown, Pages, Racing, ProfitabilityPage, PageOf, useProfitability, Hook,
         beginQueryReload
<1>13. PageIsKnown("recovery")
  BY DEF PageIsKnown, Pages, Racing, AdminRecoveryPage, PageOf, useRecovery, Hook, beginQueryReload
<1>14. PageIsKnown("pending")
  BY DEF PageIsKnown, Pages, Racing, MechanicPendingPage, PageOf, useMechanicOrders, Hook,
         beginQueryReload
<1>15. PageIsKnown("mine")
  BY DEF PageIsKnown, Pages, Racing, MechanicMinePage, PageOf, useMechanicOrders, Hook, NoCommands,
         beginQueryReload
<1>16. PageIsKnown("order")
  BY DEF PageIsKnown, Pages, Racing, MechanicOrderView, PageOf, useMechanicOrder, Hook
<1>17. PageIsKnown("sellerSales")
  BY DEF PageIsKnown, Pages, Racing, SellerSalesPage, PageOf, sellerSalesReport, Hook, NoCommands,
         beginQueryReload
<1> QED
  BY <1>1, <1>2, <1>3, <1>4, <1>5, <1>6, <1>7, <1>8, <1>9, <1>10, <1>11, <1>12, <1>13, <1>14,
     <1>15, <1>16, <1>17 DEF Pages

LEMMA ProfitabilityIsKnown == ProfitabilityNeverReloads
BY DEF ProfitabilityNeverReloads, Pages, ProfitabilityPage, PageOf, useProfitability, Hook,
       beginQueryReload, InErrors

LoadType == [id : Nat, query : Queries, live : BOOLEAN, read : BOOLEAN, version : Nat]
ShownType ==
    [state : {"loading", "error", "ready", "blank"}, query : Queries, version : Nat,
     refreshing : BOOLEAN, by : {"load", "command"}]

PagesShape ==
    /\ page \in DOMAIN Pages \cup {"none"} /\ query \in Queries
    /\ version \in Nat /\ known \in 0..version /\ loadsSent \in Nat /\ mutating \in BOOLEAN
    /\ shown \in ShownType /\ shown.version <= version
    /\ \A r \in requests : r \in LoadType /\ r.version <= version
    /\ \A s \in sending :
         /\ s = [command |-> s.command, query |-> s.query, state |-> s.state, version |-> s.version]
         /\ s.query \in Queries /\ s.state \in {"sent", "done", "refused"} /\ s.version \in 0..version
         /\ Mounted => s.command \in DOMAIN Pages[page].hook.commands

\* One load counts, the one of the query of now, and what it has read is no older than
\* what is shown and what the page's own commands have made.
LoadsCurrent ==
    /\ \A r, s \in requests : r.live /\ s.live => r = s
    /\ \A r \in requests : r.live =>
         /\ Mounted /\ r.query = query
         /\ r.read /\ page \notin Racing =>
              r.version >= known /\ (shown.state = "ready" => r.version >= shown.version)

\* A page has one command at a time; the profitability page installs their answers, and
\* has none while it loads.
OneCommand ==
    /\ \A s \in sending : mutating
    /\ \A s, c \in sending : s = c
    /\ page = "profitability" =>
         /\ \A r \in requests : r.live => sending = {} /\ shown.state # "ready"
         /\ \A s \in sending : s.state = "done" => s.version >= shown.version

PagesInv ==
    /\ PagesShape /\ LoadsCurrent /\ OneCommand
    /\ ShownAnswersTheQuery /\ OwnChangeIsShown

\* No step takes the rows of a query back.
NoStepBack ==
    shown.state = "ready" /\ shown'.state = "ready" /\ shown'.query = shown.query
        /\ page \notin Racing => shown'.version >= shown.version

NoneLive(loaded) == \A r \in loaded : ~r.live

LEMMA NoLoad == ({r \in requests : r.live} = {}) <=> NoneLive(requests)
BY DEF NoneLive

LEMMA NoLoadNext == ({r \in requests' : r.live} = {}) <=> NoneLive(requests')
BY DEF NoneLive

LEMMA PagesStart == PagesInit => PagesInv
<1> SUFFICES ASSUME PagesInit PROVE PagesInv
  OBVIOUS
<1> USE DEF PagesInit
<1>1. query \in Queries /\ page \in DOMAIN Pages /\ shown = Loading
  OBVIOUS
<1>2. PICK r : r = [id |-> 1, query |-> query, live |-> TRUE, read |-> FALSE, version |-> 0]
  OBVIOUS
<1>3. requests = {r} /\ r \in LoadType /\ r.live /\ r.query = query /\ ~r.read /\ r.version = 0
  BY <1>1, <1>2 DEF LoadType
<1>4. shown \in ShownType /\ shown.version = 0 /\ shown.state = "loading"
  BY <1>1 DEF Loading, ShownType
<1>5. Mounted
  BY <1>1 DEF Mounted, Pages
<1>6. PagesShape
  <2>1. version = 0 /\ known = 0 /\ loadsSent = 1 /\ mutating = FALSE /\ sending = {}
    OBVIOUS
  <2>2. mutating \in BOOLEAN
    BY <2>1, Zenon
  <2>3. \A x \in requests : x \in LoadType /\ x.version <= version
    BY <1>3, <2>1
  <2> QED
    BY <1>1, <1>4, <2>1, <2>2, <2>3 DEF PagesShape
<1>7. LoadsCurrent
  BY <1>3, <1>5 DEF LoadsCurrent
<1>8. OneCommand
  BY <1>4 DEF OneCommand
<1> QED
  BY <1>4, <1>6, <1>7, <1>8 DEF PagesInv, ShownAnswersTheQuery, OwnChangeIsShown

\* What the start of a load does: it is the only one that counts, and it leaves the rows
\* on the screen, as what they are or as what is being refreshed.
LEMMA EffectRuns ==
    ASSUME PagesShape, NEW q \in Queries, NEW how \in {"refreshing", "loading", "rows"},
           RunEffect(q, how)
    PROVE  /\ loadsSent' \in Nat
           /\ \A r \in requests' : r \in LoadType /\ r.version <= version
           /\ \A r \in requests' : r.live => r.query = q /\ ~r.read
           /\ \A r, s \in requests' : r.live /\ s.live => r = s
           /\ ~NoneLive(requests')
           /\ shown' \in ShownType /\ shown'.version <= version
           /\ shown'.state = "ready" =>
                /\ shown.state = "ready" /\ shown'.query = shown.query
                /\ shown'.version = shown.version /\ shown'.by = shown.by
                /\ shown'.refreshing \/ (how = "rows" /\ shown' = shown)
<1>1. PICK n : n = [id |-> loadsSent', query |-> q, live |-> TRUE, read |-> FALSE, version |-> 0]
  OBVIOUS
<1>2. /\ loadsSent' = loadsSent + 1 /\ requests' = {Cancelled(r) : r \in requests} \cup {n}
      /\ shown' = Begun(how)
  BY <1>1 DEF RunEffect
<1>3. loadsSent' \in Nat
  BY <1>2 DEF PagesShape
<1>4. n \in LoadType /\ n.live /\ ~n.read /\ n.query = q /\ n.version = 0
  BY <1>1, <1>3 DEF LoadType
<1>5. ASSUME NEW r \in requests
      PROVE  Cancelled(r) \in LoadType /\ Cancelled(r).version <= version /\ ~Cancelled(r).live
  BY DEF PagesShape, LoadType, Cancelled
<1>6. version \in Nat /\ shown \in ShownType /\ shown.version <= version /\ query \in Queries
  BY DEF PagesShape
<1>7. /\ shown' \in ShownType /\ shown'.version <= version
      /\ shown'.state = "ready" =>
           /\ shown.state = "ready" /\ shown'.query = shown.query
           /\ shown'.version = shown.version /\ shown'.by = shown.by
           /\ shown'.refreshing \/ (how = "rows" /\ shown' = shown)
  <2>1. Loading \in ShownType /\ Loading.version = 0 /\ Loading.state = "loading"
    BY <1>6 DEF Loading, ShownType
  <2>2. CASE how = "loading"
    BY <1>2, <1>6, <2>1, <2>2 DEF Begun
  <2>3. CASE how = "rows"
    BY <1>2, <1>6, <2>1, <2>3 DEF Begun
  <2>4. CASE how = "refreshing" /\ shown.state # "ready"
    BY <1>2, <1>6, <2>1, <2>4 DEF Begun
  <2>5. CASE how = "refreshing" /\ shown.state = "ready"
    <3>1. shown' = [shown EXCEPT !.refreshing = TRUE]
      BY <1>2, <2>5 DEF Begun
    <3> QED
      BY <1>6, <2>5, <3>1 DEF ShownType
  <2> QED
    BY <2>2, <2>3, <2>4, <2>5
<1> QED
  BY <1>2, <1>3, <1>4, <1>5, <1>6, <1>7 DEF NoneLive

\* A page that begins to load what it asks for, and what is known of it does not grow.
LEMMA LoadingKeeps ==
    ASSUME PagesInv, Mounted, NEW q \in Queries, NEW how \in {"refreshing", "loading", "rows"},
           RunEffect(q, how), query' = q, page' = page, page # "profitability",
           version' = version, known' \in 0..version, mutating' \in BOOLEAN,
           \A s \in sending' : s \in sending /\ mutating', how = "rows" => query' = query
    PROVE  PagesInv' /\ NoStepBack
<1>1. PagesShape /\ LoadsCurrent /\ OneCommand /\ ShownAnswersTheQuery
  BY DEF PagesInv
<1>2. /\ loadsSent' \in Nat
      /\ \A r \in requests' : r \in LoadType /\ r.version <= version
      /\ \A r \in requests' : r.live => r.query = q /\ ~r.read
      /\ \A r, s \in requests' : r.live /\ s.live => r = s
      /\ ~NoneLive(requests')
      /\ shown' \in ShownType /\ shown'.version <= version
  BY <1>1, EffectRuns
<1>3. shown'.state = "ready" =>
        /\ shown.state = "ready" /\ shown'.query = shown.query
        /\ shown'.version = shown.version /\ shown'.by = shown.by
        /\ shown'.refreshing \/ (how = "rows" /\ shown' = shown)
  BY <1>1, EffectRuns
<1>4. PagesShape'
  BY <1>1, <1>2 DEF PagesShape, Mounted
<1>5. LoadsCurrent'
  BY <1>2 DEF LoadsCurrent, Mounted
<1>6. OneCommand'
  BY <1>1 DEF OneCommand
<1>7. ShownAnswersTheQuery'
  BY <1>1, <1>3 DEF ShownAnswersTheQuery, Mounted
<1>8. OwnChangeIsShown'
  <2>1. {r \in requests' : r.live} # {}
    BY <1>2 DEF NoneLive
  <2> QED
    BY <2>1 DEF OwnChangeIsShown
<1>9. NoStepBack
  BY <1>1, <1>3 DEF NoStepBack, PagesShape, ShownType
<1> QED
  BY <1>4, <1>5, <1>6, <1>7, <1>8, <1>9 DEF PagesInv

LEMMA ChangeQueryKeeps ==
    ASSUME PagesInv, NEW q \in Queries, ChangeQuery(q) PROVE PagesInv' /\ NoStepBack
<1>1. /\ Mounted /\ hook.query # "none" /\ query' = q /\ RunEffect(q, hook.query)
      /\ known' = (IF OneThing THEN 0 ELSE known)
      /\ page' = page /\ sending' = sending /\ mutating' = mutating /\ version' = version
  BY DEF ChangeQuery
<1>2. PagesShape /\ OneCommand /\ page \in DOMAIN Pages
  BY <1>1 DEF PagesInv, PagesShape, Mounted
<1>3. hook.query \in {"refreshing", "loading"}
  BY <1>1, <1>2, PagesAreKnown DEF hook, P, PageIsKnown
<1>4. page # "profitability"
  BY <1>1, ProfitabilityIsKnown DEF ProfitabilityNeverReloads, hook, P
<1>5. known' \in 0..version /\ mutating' \in BOOLEAN /\ \A s \in sending' : s \in sending /\ mutating'
  BY <1>1, <1>2 DEF PagesShape, OneCommand
<1> QED
  BY <1>1, <1>3, <1>4, <1>5, LoadingKeeps

LEMMA RetryKeeps == ASSUME PagesInv, Retry PROVE PagesInv' /\ NoStepBack
<1>1. /\ Mounted /\ P.retry /\ RunEffect(query, hook.reload)
      /\ query' = query /\ known' = known
      /\ page' = page /\ sending' = sending /\ mutating' = mutating /\ version' = version
  BY DEF Retry
<1>2. PagesShape /\ OneCommand /\ page \in DOMAIN Pages
  BY <1>1 DEF PagesInv, PagesShape, Mounted
<1>3. hook.reload \in {"refreshing", "loading", "rows"}
  BY <1>1, <1>2, PagesAreKnown DEF hook, P, PageIsKnown
<1>4. page # "profitability"
  BY <1>1, ProfitabilityIsKnown DEF ProfitabilityNeverReloads, P
<1>5. /\ query \in Queries /\ known' \in 0..version /\ mutating' \in BOOLEAN
      /\ \A s \in sending' : s \in sending /\ mutating'
  BY <1>1, <1>2 DEF PagesShape, OneCommand
<1> QED
  BY <1>1, <1>3, <1>4, <1>5, LoadingKeeps

LEMMA BlankQueryKeeps ==
    ASSUME PagesInv, NEW q \in Queries, BlankQuery(q) PROVE PagesInv' /\ NoStepBack
<1>1. /\ Mounted /\ q \in Pages[page].blank /\ query' = q
      /\ requests' = {Cancelled(r) : r \in requests}
      /\ shown' = [Loading EXCEPT !.state = "blank",
                                  !.refreshing = shown.refreshing \/ shown.state = "loading"]
      /\ page' = page /\ sending' = sending /\ mutating' = mutating /\ version' = version
      /\ known' = known /\ loadsSent' = loadsSent
  BY DEF BlankQuery, P
<1>2. PagesShape /\ OneCommand
  BY DEF PagesInv
<1>3. page # "profitability"
  BY <1>1, ProfitabilityIsKnown DEF ProfitabilityNeverReloads
<1>4. ASSUME NEW r \in requests
      PROVE  Cancelled(r) \in LoadType /\ Cancelled(r).version <= version /\ ~Cancelled(r).live
  BY <1>2 DEF PagesShape, LoadType, Cancelled
<1>5. shown' \in ShownType /\ shown'.version = 0 /\ shown'.state = "blank"
  BY <1>1, <1>2 DEF PagesShape, ShownType, Loading
<1>6. PagesShape'
  BY <1>1, <1>2, <1>4, <1>5 DEF PagesShape, Mounted
<1>7. LoadsCurrent'
  BY <1>1, <1>4 DEF LoadsCurrent
<1>8. OneCommand'
  BY <1>1, <1>2, <1>3 DEF OneCommand
<1> QED
  BY <1>5, <1>6, <1>7, <1>8 DEF PagesInv, ShownAnswersTheQuery, OwnChangeIsShown, NoStepBack

LEMMA ServeLoadKeeps ==
    ASSUME PagesInv, NEW r \in requests, ServeLoad(r) PROVE PagesInv' /\ NoStepBack
<1>1. PICK n : n = [r EXCEPT !.read = TRUE, !.version = version]
  OBVIOUS
<1>2. /\ requests' = (requests \ {r}) \cup {n}
      /\ page' = page /\ query' = query /\ shown' = shown /\ sending' = sending
      /\ mutating' = mutating /\ version' = version /\ known' = known /\ loadsSent' = loadsSent
  BY <1>1 DEF ServeLoad
<1>3. PagesShape /\ LoadsCurrent /\ OneCommand /\ ShownAnswersTheQuery /\ OwnChangeIsShown
  BY DEF PagesInv
<1>4. n \in LoadType /\ n.version = version /\ n.live = r.live /\ n.query = r.query /\ n.read = TRUE
  BY <1>1, <1>3 DEF PagesShape, LoadType
<1>5. \A x \in requests' : x \in requests \/ x = n
  BY <1>2
<1>6. PagesShape'
  BY <1>2, <1>3, <1>4, <1>5 DEF PagesShape, Mounted
<1>7. LoadsCurrent'
  <2>1. \A x \in requests' : x.live => x = n \/ (x \in requests /\ x # r)
    BY <1>2
  <2>2. \A x, y \in requests' : x.live /\ y.live => x = y
    BY <1>3, <1>4, <2>1 DEF LoadsCurrent
  <2>3. known <= version /\ shown.version <= version
    BY <1>3 DEF PagesShape
  <2> QED
    BY <1>2, <1>3, <1>4, <1>5, <2>2, <2>3 DEF LoadsCurrent, Mounted
<1>8. OneCommand'
  BY <1>2, <1>3, <1>4, <1>5 DEF OneCommand
<1>9. NoneLive(requests') => NoneLive(requests)
  BY <1>2, <1>4 DEF NoneLive
<1>10. ShownAnswersTheQuery' /\ OwnChangeIsShown'
  BY <1>2, <1>3, <1>9, NoLoad, NoLoadNext DEF ShownAnswersTheQuery, OwnChangeIsShown, Mounted
<1>11. NoStepBack
  BY <1>2, <1>3 DEF NoStepBack, PagesShape, ShownType
<1> QED
  BY <1>6, <1>7, <1>8, <1>10, <1>11 DEF PagesInv

LEMMA AnswerLoadKeeps ==
    ASSUME PagesInv, NEW r \in requests, NEW ok \in BOOLEAN, AnswerLoad(r, ok)
    PROVE  PagesInv' /\ NoStepBack
<1>1. /\ r.read /\ requests' = requests \ {r}
      /\ shown' = (IF ~r.live THEN shown ELSE IF ok THEN Rows(r.query, r.version, "load") ELSE Failed)
      /\ page' = page /\ query' = query /\ sending' = sending
      /\ mutating' = mutating /\ version' = version /\ known' = known /\ loadsSent' = loadsSent
  BY DEF AnswerLoad
<1>2. PagesShape /\ LoadsCurrent /\ OneCommand /\ ShownAnswersTheQuery /\ OwnChangeIsShown
  BY DEF PagesInv
<1>3. r \in LoadType /\ r.version <= version
  BY <1>2 DEF PagesShape
<1>4. \A x \in requests' : x \in requests /\ x # r
  BY <1>1
<1>5. CASE ~r.live
  <2>1. shown' = shown
    BY <1>1, <1>5
  <2>2. PagesShape' /\ LoadsCurrent'
    BY <1>1, <1>2, <1>4, <2>1 DEF PagesShape, LoadsCurrent, Mounted
  <2>3. OneCommand'
    BY <1>1, <1>2, <1>4, <2>1 DEF OneCommand
  <2>4. NoneLive(requests') => NoneLive(requests)
    BY <1>1, <1>5 DEF NoneLive
  <2>5. ShownAnswersTheQuery' /\ OwnChangeIsShown'
    BY <1>1, <1>2, <2>1, <2>4, NoLoad, NoLoadNext DEF ShownAnswersTheQuery, OwnChangeIsShown, Mounted
  <2>6. NoStepBack
    BY <1>2, <2>1 DEF NoStepBack, PagesShape, ShownType
  <2> QED
    BY <2>2, <2>3, <2>5, <2>6 DEF PagesInv
<1>6. CASE r.live
  <2>1. r.query = query /\ (page \notin Racing =>
            r.version >= known /\ (shown.state = "ready" => r.version >= shown.version))
    BY <1>1, <1>2, <1>6 DEF LoadsCurrent
  <2>2. NoneLive(requests')
    BY <1>2, <1>4, <1>6 DEF NoneLive, LoadsCurrent
  <2>3. /\ shown' \in ShownType /\ shown'.version <= version
        /\ shown'.state = "ready" => /\ shown'.query = query /\ shown'.version = r.version
    <3>1. CASE ok
      BY <1>1, <1>2, <1>3, <1>6, <2>1, <3>1 DEF Rows, ShownType, LoadType, PagesShape
    <3>2. CASE ~ok
      <4>1. shown' = Failed
        BY <1>1, <1>6, <3>2
      <4>2. Failed \in ShownType /\ Failed.version = 0 /\ Failed.state = "error"
        BY <1>2 DEF Failed, Loading, ShownType, PagesShape
      <4> QED
        BY <1>2, <4>1, <4>2 DEF PagesShape
    <3> QED
      BY <3>1, <3>2
  <2>4. PagesShape'
    BY <1>1, <1>2, <1>4, <2>3 DEF PagesShape, Mounted
  <2>5. LoadsCurrent'
    BY <2>2 DEF LoadsCurrent, NoneLive
  <2>6. OneCommand'
    BY <1>1, <1>2, <1>6, <2>2 DEF OneCommand, NoneLive
  <2>7. ShownAnswersTheQuery' /\ OwnChangeIsShown'
    BY <1>1, <2>1, <2>3 DEF ShownAnswersTheQuery, OwnChangeIsShown
  <2>8. NoStepBack
    BY <2>1, <2>3 DEF NoStepBack
  <2> QED
    BY <2>4, <2>5, <2>6, <2>7, <2>8 DEF PagesInv
<1> QED
  BY <1>5, <1>6

LEMMA SendKeeps ==
    ASSUME PagesInv, Mounted, NEW c \in DOMAIN hook.commands, Send(c) PROVE PagesInv' /\ NoStepBack
<1>1. PICK n : n = [command |-> c, query |-> shown.query, state |-> "sent", version |-> 0]
  OBVIOUS
<1>2. /\ shown.state = "ready" /\ ~mutating /\ mutating' = TRUE
      /\ sending' = sending \cup {n}
      /\ page' = page /\ query' = query /\ shown' = shown /\ requests' = requests
      /\ version' = version /\ known' = known /\ loadsSent' = loadsSent
  BY <1>1 DEF Send
<1>3. PagesShape /\ LoadsCurrent /\ OneCommand /\ ShownAnswersTheQuery /\ OwnChangeIsShown
  BY DEF PagesInv
<1>4. sending' = {n}
  BY <1>2, <1>3 DEF OneCommand
<1>5. /\ n.command \in DOMAIN Pages[page].hook.commands /\ n.query \in Queries /\ n.state = "sent"
      /\ n.version = 0
      /\ n = [command |-> n.command, query |-> n.query, state |-> n.state, version |-> n.version]
  BY <1>1, <1>3 DEF hook, P, PagesShape, ShownType
<1>6. PagesShape'
  <2>1. mutating' \in BOOLEAN
    BY <1>2, Zenon
  <2> QED
    BY <1>2, <1>3, <1>4, <1>5, <2>1 DEF PagesShape, Mounted
<1>7. OneCommand'
  BY <1>2, <1>3, <1>4, <1>5 DEF OneCommand
<1>8. LoadsCurrent' /\ ShownAnswersTheQuery' /\ OwnChangeIsShown'
  BY <1>2, <1>3 DEF LoadsCurrent, ShownAnswersTheQuery, OwnChangeIsShown, Mounted
<1>9. NoStepBack
  BY <1>2, <1>3 DEF NoStepBack, PagesShape, ShownType
<1> QED
  BY <1>6, <1>7, <1>8, <1>9 DEF PagesInv

LEMMA ExecutesKeeps ==
    ASSUME PagesInv, NEW s \in sending, NEW ok \in BOOLEAN, Executes(s, ok)
    PROVE  PagesInv' /\ NoStepBack
<1>1. PICK n : n = [s EXCEPT !.state = IF ok THEN "done" ELSE "refused", !.version = version']
  OBVIOUS
<1>2. /\ s.state = "sent" /\ version' = (IF ok THEN version + 1 ELSE version)
      /\ sending' = (sending \ {s}) \cup {n}
      /\ page' = page /\ query' = query /\ shown' = shown /\ requests' = requests
      /\ mutating' = mutating /\ known' = known /\ loadsSent' = loadsSent
  BY <1>1 DEF Executes
<1>3. PagesShape /\ LoadsCurrent /\ OneCommand /\ ShownAnswersTheQuery /\ OwnChangeIsShown
  BY DEF PagesInv
<1>4. version' \in Nat /\ version \in Nat /\ version <= version'
  BY <1>2, <1>3 DEF PagesShape
<1>5. s = [command |-> s.command, query |-> s.query, state |-> s.state, version |-> s.version]
  BY <1>3 DEF PagesShape
<1>6. /\ n.command = s.command /\ n.query = s.query /\ n.state \in {"done", "refused"}
      /\ n.version = version'
      /\ n = [command |-> n.command, query |-> n.query, state |-> n.state, version |-> n.version]
  BY <1>1, <1>5
<1>7. sending' = {n}
  BY <1>2, <1>3 DEF OneCommand
<1>8. PagesShape'
  <2>1. \A r \in requests' : r \in LoadType /\ r.version <= version'
    BY <1>2, <1>3, <1>4 DEF PagesShape, LoadType
  <2>2. known' \in 0..version' /\ shown' \in ShownType /\ shown'.version <= version'
    BY <1>2, <1>3, <1>4 DEF PagesShape, ShownType
  <2> QED
    BY <1>2, <1>3, <1>4, <1>6, <1>7, <2>1, <2>2 DEF PagesShape, Mounted
<1>9. OneCommand'
  <2>1. shown.version <= version'
    BY <1>3, <1>4 DEF PagesShape, ShownType
  <2> QED
    BY <1>2, <1>3, <1>6, <1>7, <2>1 DEF OneCommand
<1>10. LoadsCurrent' /\ ShownAnswersTheQuery' /\ OwnChangeIsShown'
  BY <1>2, <1>3 DEF LoadsCurrent, ShownAnswersTheQuery, OwnChangeIsShown, Mounted
<1>11. NoStepBack
  BY <1>2, <1>3 DEF NoStepBack, PagesShape, ShownType
<1> QED
  BY <1>8, <1>9, <1>10, <1>11 DEF PagesInv

\* The answer of a command: what the page does with it decides.
LEMMA AnswerCommandKeeps ==
    ASSUME PagesInv, NEW s \in sending, AnswerCommand(s) PROVE PagesInv' /\ NoStepBack
<1>1. PICK does : does = CASE s.state = "done" -> hook.commands[s.command]
                           [] s.command \in hook.conflicts -> "reload"
                           [] OTHER -> "nothing"
  OBVIOUS
<1>2. /\ Mounted /\ s.state \in {"done", "refused"}
      /\ sending' = sending \ {s} /\ mutating' = FALSE
      /\ known' = (IF s.state = "done" /\ (OneThing => s.query = query) THEN s.version ELSE known)
      /\ query' = query /\ version' = version
      /\ CASE does = "reload" -> RunEffect(query, hook.reload) /\ UNCHANGED page
           [] does = "install" -> /\ shown' = Rows(s.query, s.version, "command")
                                  /\ UNCHANGED <<page, requests, loadsSent>>
           [] does = "leave" -> /\ page' = "none" /\ requests' = {Cancelled(r) : r \in requests}
                                /\ UNCHANGED <<shown, loadsSent>>
           [] OTHER -> UNCHANGED <<page, shown, requests, loadsSent>>
  BY <1>1 DEF AnswerCommand
<1>3. PagesShape /\ LoadsCurrent /\ OneCommand /\ ShownAnswersTheQuery /\ OwnChangeIsShown
  BY DEF PagesInv
<1>4. page \in DOMAIN Pages /\ s.command \in DOMAIN hook.commands
  BY <1>2, <1>3 DEF PagesShape, Mounted, hook, P
<1>5. /\ hook.reload \in {"refreshing", "loading", "rows"}
      /\ hook.commands[s.command] \in {"reload", "install", "leave"}
      /\ page \notin Racing \cup {"profitability"} => hook.commands[s.command] # "install"
  BY <1>4, PagesAreKnown DEF hook, P, PageIsKnown
<1>6. sending' = {}
  BY <1>2, <1>3 DEF OneCommand
<1>7. mutating' \in BOOLEAN
  BY <1>2, Zenon
<1>8. known' \in 0..version
  BY <1>2, <1>3 DEF PagesShape
<1>9. CASE does = "reload"
  <2>1. RunEffect(query, hook.reload) /\ page' = page
    BY <1>2, <1>9
  <2>2. page # "profitability"
    BY <1>1, <1>2, <1>4, <1>9, ProfitabilityIsKnown DEF ProfitabilityNeverReloads, hook, P
  <2>3. query \in Queries
    BY <1>3 DEF PagesShape
  <2> QED
    BY <1>2, <1>5, <1>6, <1>7, <1>8, <2>1, <2>2, <2>3, LoadingKeeps
<1>10. CASE does = "install"
  <2>1. shown' = Rows(s.query, s.version, "command") /\ page' = page /\ requests' = requests
        /\ loadsSent' = loadsSent
    BY <1>2, <1>10
  <2>2. s.state = "done" /\ (page \in Racing \/ page = "profitability")
    BY <1>1, <1>2, <1>5, <1>10
  <2>3. s.query \in Queries /\ s.version \in Nat /\ s.version <= version
    BY <1>3 DEF PagesShape
  <2>4. /\ shown' \in ShownType /\ shown'.state = "ready" /\ shown'.version = s.version
        /\ shown'.by = "command"
    BY <2>1, <2>3 DEF Rows, ShownType
  <2>5. PagesShape'
    BY <1>2, <1>3, <1>6, <1>7, <1>8, <2>1, <2>3, <2>4 DEF PagesShape, Mounted
  <2>6. page = "profitability" => NoneLive(requests) /\ s.version >= shown.version
    BY <1>3, <2>2 DEF OneCommand, NoneLive
  <2>7. LoadsCurrent'
    BY <1>2, <1>3, <2>1, <2>2, <2>6 DEF LoadsCurrent, NoneLive, Mounted
  <2>8. OneCommand'
    BY <1>6, <2>1, <2>6 DEF OneCommand, NoneLive
  <2>9. ShownAnswersTheQuery'
    BY <2>4 DEF ShownAnswersTheQuery
  <2>10. OwnChangeIsShown'
    <3>1. page = "profitability" => known' = s.version
      BY <1>2, <2>2, ProfitabilityIsKnown DEF ProfitabilityNeverReloads, OneThing, hook, P
    <3> QED
      BY <2>1, <2>2, <2>3, <2>4, <3>1 DEF OwnChangeIsShown
  <2>11. NoStepBack
    BY <2>2, <2>4, <2>6 DEF NoStepBack
  <2> QED
    BY <2>5, <2>7, <2>8, <2>9, <2>10, <2>11 DEF PagesInv
<1>11. CASE does = "leave"
  <2>1. page' = "none" /\ requests' = {Cancelled(r) : r \in requests} /\ shown' = shown
        /\ loadsSent' = loadsSent
    BY <1>2, <1>11
  <2>2. ASSUME NEW r \in requests
        PROVE  Cancelled(r) \in LoadType /\ Cancelled(r).version <= version /\ ~Cancelled(r).live
    BY <1>3 DEF PagesShape, LoadType, Cancelled
  <2>3. PagesShape'
    BY <1>2, <1>3, <1>6, <1>7, <1>8, <2>1, <2>2 DEF PagesShape
  <2>4. LoadsCurrent' /\ OneCommand'
    BY <1>6, <2>1, <2>2 DEF LoadsCurrent, OneCommand
  <2>5. ShownAnswersTheQuery' /\ OwnChangeIsShown'
    BY <2>1 DEF ShownAnswersTheQuery, OwnChangeIsShown, Mounted
  <2>6. NoStepBack
    BY <1>3, <2>1 DEF NoStepBack, PagesShape, ShownType
  <2> QED
    BY <2>3, <2>4, <2>5, <2>6 DEF PagesInv
<1>12. CASE does = "nothing"
  <2>1. page' = page /\ requests' = requests /\ shown' = shown /\ loadsSent' = loadsSent
    BY <1>2, <1>12
  <2>2. known' = known
    BY <1>1, <1>2, <1>5, <1>12
  <2>3. PagesShape'
    BY <1>2, <1>3, <1>6, <1>7, <1>8, <2>1 DEF PagesShape, Mounted
  <2>4. LoadsCurrent' /\ OneCommand'
    BY <1>2, <1>3, <1>6, <2>1, <2>2 DEF LoadsCurrent, OneCommand, Mounted
  <2>5. ShownAnswersTheQuery' /\ OwnChangeIsShown'
    BY <1>2, <1>3, <2>1, <2>2 DEF ShownAnswersTheQuery, OwnChangeIsShown, Mounted
  <2>6. NoStepBack
    BY <1>3, <2>1 DEF NoStepBack, PagesShape, ShownType
  <2> QED
    BY <2>3, <2>4, <2>5, <2>6 DEF PagesInv
<1> QED
  BY <1>1, <1>5, <1>9, <1>10, <1>11, <1>12

LEMMA ChangedElsewhereKeeps == ASSUME PagesInv, ChangedElsewhere PROVE PagesInv' /\ NoStepBack
<1>1. /\ version' = version + 1
      /\ page' = page /\ query' = query /\ shown' = shown /\ requests' = requests
      /\ sending' = sending /\ mutating' = mutating /\ known' = known /\ loadsSent' = loadsSent
  BY DEF ChangedElsewhere
<1>2. PagesShape /\ LoadsCurrent /\ OneCommand /\ ShownAnswersTheQuery /\ OwnChangeIsShown
  BY DEF PagesInv
<1>3. PagesShape'
  <2>1. version \in Nat /\ version' \in Nat
    BY <1>1, <1>2 DEF PagesShape
  <2>2. \A r \in requests' : r \in LoadType /\ r.version <= version'
    BY <1>1, <1>2, <2>1 DEF PagesShape, LoadType
  <2>3. known' \in 0..version' /\ shown' \in ShownType /\ shown'.version <= version'
    BY <1>1, <1>2, <2>1 DEF PagesShape, ShownType
  <2>4. \A s \in sending' : s.version \in 0..version'
    BY <1>1, <1>2, <2>1 DEF PagesShape
  <2> QED
    BY <1>1, <1>2, <2>1, <2>2, <2>3, <2>4 DEF PagesShape, Mounted
<1>4. LoadsCurrent' /\ OneCommand' /\ ShownAnswersTheQuery' /\ OwnChangeIsShown'
  BY <1>1, <1>2 DEF LoadsCurrent, OneCommand, ShownAnswersTheQuery, OwnChangeIsShown, Mounted
<1>5. NoStepBack
  BY <1>1, <1>2 DEF NoStepBack, PagesShape, ShownType
<1> QED
  BY <1>3, <1>4, <1>5 DEF PagesInv

LEMMA PagesStep == PagesInv /\ [PagesNext]_pagesVars => PagesInv' /\ NoStepBack
<1> SUFFICES ASSUME PagesInv, [PagesNext]_pagesVars PROVE PagesInv' /\ NoStepBack
  OBVIOUS
<1>1. CASE UNCHANGED pagesVars
  <2>1. /\ page' = page /\ query' = query /\ shown' = shown /\ requests' = requests
        /\ sending' = sending /\ mutating' = mutating /\ version' = version /\ known' = known
        /\ loadsSent' = loadsSent
    BY <1>1 DEF pagesVars
  <2>2. PagesInv'
    BY <2>1 DEF PagesInv, PagesShape, LoadsCurrent, OneCommand, ShownAnswersTheQuery,
                OwnChangeIsShown, Mounted
  <2>3. NoStepBack
    BY <2>1 DEF NoStepBack, PagesInv, PagesShape, ShownType
  <2> QED
    BY <2>2, <2>3
<1>2. ASSUME NEW q \in Queries, ChangeQuery(q) \/ BlankQuery(q) PROVE PagesInv' /\ NoStepBack
  BY <1>2, ChangeQueryKeeps, BlankQueryKeeps
<1>3. CASE Retry
  BY <1>3, RetryKeeps
<1>4. ASSUME NEW r \in requests, ServeLoad(r) PROVE PagesInv' /\ NoStepBack
  BY <1>4, ServeLoadKeeps
<1>5. ASSUME NEW r \in requests, AnswerLoad(r, TRUE) \/ AnswerLoad(r, FALSE)
      PROVE  PagesInv' /\ NoStepBack
  <2>1. PICK ok \in BOOLEAN : AnswerLoad(r, ok)
    BY <1>5, Zenon
  <2> QED
    BY <2>1, AnswerLoadKeeps
<1>6. ASSUME Mounted, NEW c \in DOMAIN hook.commands, Send(c) PROVE PagesInv' /\ NoStepBack
  BY <1>6, SendKeeps
<1>7. ASSUME NEW s \in sending, Executes(s, TRUE) \/ Executes(s, FALSE)
      PROVE  PagesInv' /\ NoStepBack
  <2>1. PICK ok \in BOOLEAN : Executes(s, ok)
    BY <1>7, Zenon
  <2> QED
    BY <2>1, ExecutesKeeps
<1>8. ASSUME NEW s \in sending, AnswerCommand(s) PROVE PagesInv' /\ NoStepBack
  BY <1>8, AnswerCommandKeeps
<1>9. CASE ChangedElsewhere
  BY <1>9, ChangedElsewhereKeeps
<1> QED
  BY <1>1, <1>2, <1>3, <1>4, <1>5, <1>6, <1>7, <1>8, <1>9 DEF PagesNext

\* The pages show what their users ask for and what they did: a late answer never stands
\* for the query of now, a page that has settled shows what its own commands changed, and
\* the rows of a query never go back, on every page and whatever is asked, sent and
\* answered in whichever order (the cancelled flag of the hooks, useUsers.ts and the like).
THEOREM PagesAreCurrent == PagesSpec => ListsAreCurrent
<1>1. PagesInv => PagesTypeOK /\ ShownAnswersTheQuery /\ OwnChangeIsShown
  <2> SUFFICES ASSUME PagesInv PROVE PagesTypeOK
    BY DEF PagesInv
  <2>1. PagesShape /\ LoadsCurrent
    BY DEF PagesInv
  <2>2. Cardinality({r \in requests : r.live}) <= 1
    <3>1. PICK counting : counting = {r \in requests : r.live}
      OBVIOUS
    <3>2. CASE counting = {}
      BY <3>1, <3>2, FS_EmptySet
    <3>3. CASE counting # {}
      <4>1. PICK r \in counting : TRUE
        BY <3>3
      <4>2. counting = {r}
        BY <2>1, <3>1, <4>1 DEF LoadsCurrent
      <4>3. Cardinality({r}) = 1
        BY FS_Singleton
      <4> QED
        BY <3>1, <4>2, <4>3
    <3> QED
      BY <3>2, <3>3
  <2> QED
    BY <2>1, <2>2 DEF PagesTypeOK, PagesShape, LoadType, ShownType
<1>2. PagesInv /\ [PagesNext]_pagesVars =>
        [shown.state = "ready" /\ shown'.state = "ready" /\ shown'.query = shown.query
           /\ page \notin Racing => shown'.version >= shown.version]_pagesVars
  BY PagesStep DEF NoStepBack
<1> QED
  BY <1>1, <1>2, PagesStart, PagesStep, PTL DEF PagesSpec, ListsAreCurrent, NeverGoesBack

-----------------------------------------------------------------------------
(* The session *)

UserType == {NoOne} \cup [id : Usernames, must : BOOLEAN]
TabType ==
    [user : UserType, loading : BOOLEAN, failed : BOOLEAN, generation : Nat \ {0},
     path : Paths, from : Paths \cup {NoPath}, discard : BOOLEAN, waiting : SUBSET Nat,
     known : BOOLEAN, leftBy : {"none", "logout"}]
SessionLoadType ==
    [tab : Tabs, generation : Nat, submit : Nat, sid : 0..MaxSessions,
     step : {"session", "me", "done"}, user : UserType, lost : BOOLEAN, clean : BOOLEAN]
SubmitType ==
    [no : Nat, tab : Tabs, kind : {"login", "logout", "contact", "password"},
     account : Usernames, sid : 0..MaxSessions, step : {"sent", "handled"},
     answer : {"none", "ok", "unauthorized", "refused", "lost"}]
BudgetType ==
    [focus : Nat, submits : Nat, revocations : Nat, lost : Nat, sessions : 0..(MaxSessions - 1)]

SessionShape ==
    /\ cookie \in 0..MaxSessions
    /\ owner \in [1..MaxSessions -> Usernames \cup {Nobody}]
    /\ temporary \subseteq Usernames
    /\ tabs \in [Tabs -> TabType]
    /\ loads \subseteq SessionLoadType
    /\ submits \subseteq SubmitType
    /\ budget \in BudgetType

\* A user is not left at the login page, and who has logged out is there, with the mark.
TabRule(tab) ==
    /\ ~tab.loading /\ ~tab.failed /\ tab.user # NoOne => tab.path # "/login"
    /\ tab.leftBy = "logout" =>
          tab.user = NoOne /\ tab.path = "/login" /\ tab.discard /\ ~tab.loading

\* What a load that nothing has outdated has read of the session in the cookie.
ReadsTruly(l) ==
    /\ l.step = "session" => l.sid = cookie /\ l.user = NoOne
    /\ l.step = "me" => l.sid = cookie /\ l.user.id = SignedIn
    /\ l.step = "done" => l.lost \/ l.user.id = SignedIn

\* The generation of a tab is that of one load at most, and a tab that knows its user
\* waits for no load that would tell it otherwise.
LoadsTrue ==
    /\ \A l, m \in loads : l.tab = m.tab /\ l.generation = m.generation => l = m
    /\ \A l \in loads :
         /\ l.generation <= tabs[l.tab].generation
         /\ l.generation = tabs[l.tab].generation /\ tabs[l.tab].known => l.clean
         /\ l.clean => ReadsTruly(l)

FormsAreUsed == \A c \in submits : ~tabs[c.tab].loading

SessionInv ==
    /\ SessionShape /\ LoadsTrue /\ FormsAreUsed /\ KnownUserIsShown
    /\ \A t \in Tabs : TabRule(tabs[t])

\* Where a tab that is at the login page may go.
Moves(a, b) ==
    LET role == RoleOf[b.user.id]
    IN  /\ a.path = "/login" /\ b.path # "/login" =>
              /\ isPathAllowedForRole(b.path, role)
              /\ b.user.must => b.path = ProfilePath(role)
        /\ a.leftBy = "logout" /\ b.path # a.path =>
              b.path \in {"/login", ProfilePath(role), defaultPathForRole(role)}

TabsMove == \A t \in Tabs : Moves(tabs[t], tabs'[t])

\* What an answer that tells nothing new leaves as it was.
Keeps(a, b) ==
    /\ b.user = a.user /\ b.loading = a.loading /\ b.failed = a.failed /\ b.path = a.path
    /\ b.discard = a.discard /\ b.leftBy = a.leftBy

\* A tab that stays where it is with the user it has keeps the rules and does not move.
LEMMA KeptTab ==
    ASSUME NEW a \in TabType, NEW b \in TabType, Keeps(a, b), TabRule(a)
    PROVE  TabRule(b) /\ Moves(a, b)
  BY DEF Keeps, TabRule, Moves

\* Every home page is open to its role.
LEMMA HomePages ==
    ASSUME NEW role \in {"ADMINISTRATOR", "SELLER", "MECHANIC"}, NEW p \in Paths \cup {NoPath}
    PROVE  /\ ProfilePath(role) \in Paths \ {"/login"}
           /\ isPathAllowedForRole(ProfilePath(role), role)
           /\ postLoginPath(p, role) \in Paths \ {"/login"}
           /\ isPathAllowedForRole(postLoginPath(p, role), role)
           /\ p = NoPath => postLoginPath(p, role) = defaultPathForRole(role)
<1>1. /\ ProfilePath(role) \in Paths \ {"/login"}
      /\ isPathAllowedForRole(ProfilePath(role), role)
  BY DEF ProfilePath, isPathAllowedForRole, isRouteAllowedForRole, Paths, KnownMechanicRoutes,
         KnownDesktopRoutes, Screens
<1>2. /\ defaultPathForRole(role) \in Paths \ {"/login"}
      /\ isPathAllowedForRole(defaultPathForRole(role), role)
  <2>1. CASE role = "MECHANIC" /\ "workOrders" \in Capabilities
    BY <2>1 DEF defaultPathForRole, isPathAllowedForRole, Paths, KnownMechanicRoutes
  <2>2. CASE role # "MECHANIC" /\ "sales" \in Capabilities
    <3>1. defaultPathForRole(role) = "/sales"
      BY <2>2 DEF defaultPathForRole
    <3>2. isRouteAllowedForRole("/sales", role)
      BY <2>2 DEF isRouteAllowedForRole, Screens
    <3> QED
      BY <2>2, <3>1, <3>2 DEF isPathAllowedForRole, Paths, KnownDesktopRoutes
  <2>3. CASE role = "ADMINISTRATOR" /\ Capabilities \cap {"sales", "users"} = {"users"}
    <3>1. defaultPathForRole(role) = "/users"
      BY <2>3 DEF defaultPathForRole
    <3>2. isRouteAllowedForRole("/users", role)
      BY <2>3 DEF isRouteAllowedForRole, Screens
    <3> QED
      BY <2>3, <3>1, <3>2 DEF isPathAllowedForRole, Paths, KnownDesktopRoutes
  <2>4. CASE /\ ~(role = "MECHANIC" /\ "workOrders" \in Capabilities)
             /\ ~(role # "MECHANIC" /\ "sales" \in Capabilities)
             /\ ~(role = "ADMINISTRATOR" /\ Capabilities \cap {"sales", "users"} = {"users"})
    <3>1. defaultPathForRole(role) = ProfilePath(role)
      BY <2>4 DEF defaultPathForRole
    <3> QED
      BY <1>1, <3>1
  <2> QED
    BY <2>1, <2>2, <2>3, <2>4
<1>3. ~isPathAllowedForRole(NoPath, role) /\ ~isPathAllowedForRole("/login", role)
  BY DEF isPathAllowedForRole, NoPath, KnownMechanicRoutes, KnownDesktopRoutes
<1>4. CASE isPathAllowedForRole(p, role)
  BY <1>1, <1>3, <1>4 DEF postLoginPath
<1>5. CASE ~isPathAllowedForRole(p, role)
  BY <1>1, <1>2, <1>5 DEF postLoginPath
<1> QED
  BY <1>1, <1>3, <1>4, <1>5

\* The guard of a page decides where the tab is, and nothing of who uses it.
LEMMA GuardKeeps ==
    ASSUME NEW tab \in TabType
    PROVE  /\ Guarded(tab) \in TabType
           /\ Guarded(tab).user = tab.user /\ Guarded(tab).loading = tab.loading
           /\ Guarded(tab).failed = tab.failed /\ Guarded(tab).generation = tab.generation
           /\ Guarded(tab).known = tab.known
<1>1. CASE tab.loading \/ tab.failed
  BY <1>1 DEF Guarded
<1>2. CASE ~(tab.loading \/ tab.failed) /\ tab.path # "/login" /\ tab.user = NoOne
  <2>1. Guarded(tab) = [tab EXCEPT !.path = "/login", !.from = tab.path, !.waiting = {}]
    BY <1>2 DEF Guarded, ProtectedRoute
  <2> QED
    BY <2>1 DEF TabType, Paths
<1>3. ASSUME tab.user # NoOne
      PROVE  /\ RoleOf[tab.user.id] \in {"ADMINISTRATOR", "SELLER", "MECHANIC"}
             /\ tab.user.must \in BOOLEAN
  BY <1>3, WebSessionAssumption DEF TabType, UserType
<1>4. CASE ~(tab.loading \/ tab.failed) /\ tab.path # "/login" /\ tab.user # NoOne
  <2>1. ProfilePath(RoleOf[tab.user.id]) \in Paths
    BY <1>3, <1>4, HomePages DEF NoPath
  <2>2. \/ Guarded(tab) = [tab EXCEPT !.path = ProfilePath(RoleOf[tab.user.id])]
        \/ Guarded(tab) = tab
    BY <1>4 DEF Guarded, ProtectedRoute
  <2> QED
    BY <2>1, <2>2 DEF TabType
<1>5. CASE ~(tab.loading \/ tab.failed) /\ tab.path = "/login" /\ tab.user # NoOne
  <2>1. PICK p \in Paths :
          Guarded(tab) = [tab EXCEPT !.path = p, !.from = NoPath, !.discard = FALSE,
                                     !.waiting = {}, !.leftBy = "none"]
    <3> DEFINE role == RoleOf[tab.user.id]
               back == resolvePostLoginRequestedPath(tab)
               p == IF tab.user.must THEN ProfilePath(role) ELSE postLoginPath(back, role)
    <3>1. back \in Paths \cup {NoPath}
      BY DEF resolvePostLoginRequestedPath, TabType
    <3>2. p \in Paths
      BY <1>3, <1>5, <3>1, HomePages
    <3>3. Guarded(tab) = GuestRoute(tab)
      BY <1>5 DEF Guarded
    <3> QED
      BY <3>2, <3>3 DEF GuestRoute
  <2>2. PICK g : g = [tab EXCEPT !.path = p, !.from = NoPath, !.discard = FALSE,
                                !.waiting = {}, !.leftBy = "none"]
    OBVIOUS
  <2>3. g \in TabType
    BY <2>1, <2>2 DEF TabType
  <2>4. /\ g.user = tab.user /\ g.loading = tab.loading /\ g.failed = tab.failed
        /\ g.generation = tab.generation /\ g.known = tab.known
    BY <2>1, <2>2 DEF TabType
  <2> QED
    BY <2>1, <2>2, <2>3, <2>4
<1>6. CASE ~(tab.loading \/ tab.failed) /\ tab.path = "/login" /\ tab.user = NoOne
  BY <1>6 DEF Guarded
<1> QED
  BY <1>1, <1>2, <1>4, <1>5, <1>6

\* A guest is sent to the login page, which keeps the mark of a logout.
LEMMA GuestIsSent ==
    ASSUME NEW tab \in TabType, tab.user = NoOne, ~tab.loading, ~tab.failed
    PROVE  /\ Guarded(tab).path = "/login"
           /\ Guarded(tab).discard = tab.discard /\ Guarded(tab).leftBy = tab.leftBy
<1>1. CASE tab.path # "/login"
  <2>1. Guarded(tab) = [tab EXCEPT !.path = "/login", !.from = tab.path, !.waiting = {}]
    BY <1>1 DEF Guarded, ProtectedRoute
  <2> QED
    BY <2>1 DEF TabType
<1>2. CASE tab.path = "/login"
  BY <1>2 DEF Guarded
<1> QED
  BY <1>1, <1>2

\* The guard takes a user away from the login page.
LEMMA GuardRules ==
    ASSUME NEW tab \in TabType,
           tab.leftBy = "logout" =>
              tab.path = "/login" /\ tab.discard /\ ~tab.loading /\ (tab.failed => tab.user = NoOne)
    PROVE  TabRule(Guarded(tab))
<1>1. CASE tab.loading \/ tab.failed
  BY <1>1 DEF Guarded, TabRule
<1>2. CASE ~(tab.loading \/ tab.failed) /\ tab.user = NoOne
  <2>1. Guarded(tab).user = NoOne /\ Guarded(tab).loading = tab.loading
    BY <1>2, GuardKeeps
  <2> QED
    BY <1>2, <2>1, GuestIsSent DEF TabRule
<1>3. ASSUME tab.user # NoOne
      PROVE  RoleOf[tab.user.id] \in {"ADMINISTRATOR", "SELLER", "MECHANIC"}
  BY <1>3, WebSessionAssumption DEF TabType, UserType
<1>4. CASE ~(tab.loading \/ tab.failed) /\ tab.path # "/login" /\ tab.user # NoOne
  <2>1. ProfilePath(RoleOf[tab.user.id]) # "/login"
    BY <1>3, <1>4, HomePages
  <2>2. \/ Guarded(tab) = [tab EXCEPT !.path = ProfilePath(RoleOf[tab.user.id])]
        \/ Guarded(tab) = tab
    BY <1>4 DEF Guarded, ProtectedRoute
  <2>3. tab.leftBy # "logout"
    BY <1>4
  <2> QED
    BY <1>4, <2>1, <2>2, <2>3 DEF TabType, TabRule
<1>5. CASE ~(tab.loading \/ tab.failed) /\ tab.path = "/login" /\ tab.user # NoOne
  <2> DEFINE role == RoleOf[tab.user.id]
             back == resolvePostLoginRequestedPath(tab)
  <2>1. back \in Paths \cup {NoPath}
    BY DEF resolvePostLoginRequestedPath, TabType
  <2>2. Guarded(tab) = GuestRoute(tab)
    BY <1>5 DEF Guarded
  <2>3. ProfilePath(role) # "/login" /\ postLoginPath(back, role) # "/login"
    BY <1>3, <1>5, <2>1, HomePages
  <2>4. Guarded(tab).path # "/login" /\ Guarded(tab).leftBy = "none"
    BY <2>2, <2>3 DEF GuestRoute, TabType
  <2> QED
    BY <2>4 DEF TabRule
<1> QED
  BY <1>1, <1>2, <1>4, <1>5

\* From the login page the guard takes a user to a page of the user's role, and after a
\* logout to a home page.
LEMMA GuardMoves ==
    ASSUME NEW a \in TabType, NEW tab \in TabType, tab.path = a.path,
           a.leftBy = "logout" => a.path = "/login" /\ tab.discard
    PROVE  Moves(a, Guarded(tab))
<1> DEFINE g == Guarded(tab)
           role == RoleOf[tab.user.id]
           back == resolvePostLoginRequestedPath(tab)
<1>1. CASE a.path # "/login"
  BY <1>1 DEF Moves
<1>2. CASE a.path = "/login" /\ (tab.loading \/ tab.failed \/ tab.user = NoOne)
  <2>1. g = tab
    BY <1>2 DEF Guarded
  <2> QED
    BY <1>2, <2>1 DEF Moves
<1>3. CASE a.path = "/login" /\ ~(tab.loading \/ tab.failed \/ tab.user = NoOne)
  <2>1. g = GuestRoute(tab)
    BY <1>3 DEF Guarded
  <2>2. /\ g.user = tab.user
        /\ g.path = IF tab.user.must THEN ProfilePath(role) ELSE postLoginPath(back, role)
    BY <2>1 DEF GuestRoute, TabType
  <2>3. role \in {"ADMINISTRATOR", "SELLER", "MECHANIC"}
    BY <1>3, WebSessionAssumption DEF TabType, UserType
  <2>4. back \in Paths \cup {NoPath}
    BY DEF resolvePostLoginRequestedPath, TabType
  <2>5. isPathAllowedForRole(g.path, role) /\ (tab.user.must => g.path = ProfilePath(role))
    BY <2>2, <2>3, <2>4, HomePages
  <2>6. a.leftBy = "logout" => g.path \in {ProfilePath(role), defaultPathForRole(role)}
    <3>1. SUFFICES ASSUME a.leftBy = "logout"
                   PROVE  g.path \in {ProfilePath(role), defaultPathForRole(role)}
      OBVIOUS
    <3>2. back = NoPath
      BY <3>1 DEF resolvePostLoginRequestedPath
    <3>3. postLoginPath(NoPath, role) = defaultPathForRole(role)
      BY <2>3, HomePages
    <3> QED
      BY <2>2, <3>2, <3>3
  <2> QED
    BY <2>2, <2>5, <2>6 DEF Moves
<1> QED
  BY <1>1, <1>2, <1>3

\* One tab turns to b and begins a load or none, while others at most learn that what
\* they know may be outdated.
LEMMA TabTurns ==
    ASSUME SessionInv, NEW t \in Tabs, NEW b \in TabType, NEW kept, NEW begun,
           cookie' \in 0..MaxSessions, submits' \subseteq SubmitType, budget' \in BudgetType,
           \/ cookie' = cookie /\ kept \subseteq loads /\ tabs' = [tabs EXCEPT ![t] = b]
           \/ kept \subseteq OutdatedLoads /\ tabs' = [Outdated EXCEPT ![t] = b],
           loads' = begun \cup kept, owner' = owner, temporary' = temporary,
           b.loading => tabs[t].loading, \A c \in submits' : ~tabs[c.tab].loading,
           TabRule(b), Moves(tabs[t], b), b.known => b.user.id = SignedIn',
           b.generation >= tabs[t].generation,
           \A l \in kept : l.tab = t /\ l.generation = b.generation /\ b.known => l.clean,
           \/ begun = {}
           \/ /\ b.generation = tabs[t].generation + 1
              /\ \E n \in Nat : begun = {LoadOf(t, n, cookie')}
    PROVE  SessionInv' /\ TabsMove
<1> USE DEF SessionInv
<1>1. tabs \in [Tabs -> TabType] /\ loads \subseteq SessionLoadType
  BY DEF SessionShape
<1>2. PICK dim \in BOOLEAN :
        /\ dim = FALSE => cookie' = cookie /\ kept \subseteq loads /\ tabs' = [tabs EXCEPT ![t] = b]
        /\ dim = TRUE => kept \subseteq OutdatedLoads /\ tabs' = [Outdated EXCEPT ![t] = b]
  OBVIOUS
<1>3. tabs'[t] = b
  BY <1>1, <1>2 DEF Outdated
<1>4. ASSUME NEW u \in Tabs, u # t
      PROVE  /\ tabs[u] \in TabType /\ tabs'[u] \in TabType
             /\ Keeps(tabs[u], tabs'[u]) /\ tabs'[u].generation = tabs[u].generation
             /\ tabs'[u].known => dim = FALSE /\ tabs[u].known
  <2>1. tabs[u] \in TabType
    BY <1>1
  <2>2. CASE dim = FALSE
    <3>1. tabs'[u] = tabs[u]
      BY <1>1, <1>2, <1>4, <2>2
    <3> QED
      BY <2>1, <2>2, <3>1 DEF Keeps
  <2>3. CASE dim = TRUE
    <3>1. tabs'[u] = [tabs[u] EXCEPT !.known = FALSE]
      BY <1>1, <1>2, <1>4, <2>3 DEF Outdated
    <3>2. tabs'[u] \in TabType /\ ~tabs'[u].known
      BY <2>1, <3>1 DEF TabType
    <3>3. Keeps(tabs[u], tabs'[u]) /\ tabs'[u].generation = tabs[u].generation
      BY <2>1, <3>1 DEF TabType, Keeps
    <3> QED
      BY <2>1, <3>2, <3>3
  <2> QED
    BY <2>2, <2>3
<1>5. ASSUME NEW u \in Tabs
      PROVE  TabRule(tabs'[u]) /\ Moves(tabs[u], tabs'[u])
  BY <1>3, <1>4, KeptTab
<1>6. dim = FALSE => SignedIn' = SignedIn
  BY <1>2 DEF SignedIn, OwnerOf
<1>7. KnownUserIsShown'
  <2> SUFFICES ASSUME NEW u \in Tabs, tabs'[u].known
               PROVE  tabs'[u].user.id = SignedIn'
    BY DEF KnownUserIsShown
  <2>1. CASE u = t
    BY <1>3, <2>1
  <2>2. CASE u # t
    <3>1. dim = FALSE /\ tabs[u].known /\ tabs'[u].user = tabs[u].user
      BY <1>4, <2>2 DEF Keeps
    <3> QED
      BY <1>6, <3>1 DEF KnownUserIsShown
  <2> QED
    BY <2>1, <2>2
<1>8. ASSUME NEW m \in kept
      PROVE  \E l \in loads : /\ m = IF dim THEN [l EXCEPT !.clean = FALSE] ELSE l
                              /\ m.tab = l.tab /\ m.generation = l.generation
                              /\ m.clean => dim = FALSE /\ m = l
  <2>1. PICK l \in loads : m = IF dim THEN [l EXCEPT !.clean = FALSE] ELSE l
    BY <1>2 DEF OutdatedLoads
  <2>2. l \in SessionLoadType
    BY <1>1
  <2> QED
    BY <2>1, <2>2 DEF SessionLoadType
<1>9. ASSUME NEW m \in kept
      PROVE  /\ m.tab \in Tabs /\ m.generation \in Nat
             /\ m.generation <= tabs[m.tab].generation
             /\ m.generation <= tabs'[m.tab].generation
             /\ m.generation = tabs'[m.tab].generation /\ tabs'[m.tab].known => m.clean
             /\ m.clean => ReadsTruly(m)'
  <2>1. PICK l \in loads : /\ m.tab = l.tab /\ m.generation = l.generation
                           /\ m.clean => dim = FALSE /\ m = l
                           /\ m = IF dim THEN [l EXCEPT !.clean = FALSE] ELSE l
    BY <1>8
  <2>2. l.tab \in Tabs /\ l.generation \in Nat /\ l.generation <= tabs[l.tab].generation
    BY <1>1 DEF SessionLoadType, LoadsTrue
  <2>3. m.generation <= tabs'[m.tab].generation
    <3>1. tabs[t].generation \in Nat /\ b.generation \in Nat
      BY <1>1 DEF TabType
    <3>2. CASE m.tab = t
      BY <1>3, <2>1, <2>2, <3>1, <3>2
    <3>3. CASE m.tab # t
      BY <1>4, <2>1, <2>2, <3>3
    <3> QED
      BY <3>2, <3>3
  <2>4. m.generation = tabs'[m.tab].generation /\ tabs'[m.tab].known => m.clean
    <3>1. CASE m.tab = t
      BY <1>3, <3>1
    <3>2. CASE m.tab # t
      BY <1>4, <2>1, <2>2, <3>2 DEF LoadsTrue
    <3> QED
      BY <3>1, <3>2
  <2>5. m.clean => ReadsTruly(m)'
    BY <1>2, <1>6, <2>1 DEF LoadsTrue, ReadsTruly
  <2> QED
    BY <2>1, <2>2, <2>3, <2>4, <2>5
<1>10. ASSUME NEW m \in begun
       PROVE  /\ m.tab = t /\ m.generation = tabs[t].generation + 1
              /\ m.generation = b.generation /\ m.clean /\ ReadsTruly(m)' /\ begun = {m}
  <2>1. PICK n \in Nat : begun = {LoadOf(t, n, cookie')}
    BY <1>10
  <2>2. m = LoadOf(t, n, cookie') /\ begun = {m}
    BY <2>1
  <2> QED
    BY <2>2 DEF LoadOf, ReadsTruly
<1>11. ASSUME NEW m \in loads', NEW l \in loads', m.tab = l.tab, m.generation = l.generation
       PROVE  m = l
  <2>1. CASE m \in kept /\ l \in kept
    <3>1. PICK x \in loads : /\ m = IF dim THEN [x EXCEPT !.clean = FALSE] ELSE x
                             /\ m.tab = x.tab /\ m.generation = x.generation
      BY <1>8, <2>1
    <3>2. PICK y \in loads : /\ l = IF dim THEN [y EXCEPT !.clean = FALSE] ELSE y
                             /\ l.tab = y.tab /\ l.generation = y.generation
      BY <1>8, <2>1
    <3>3. x = y
      BY <1>11, <3>1, <3>2 DEF LoadsTrue
    <3> QED
      BY <3>1, <3>2, <3>3
  <2>2. CASE m \in begun /\ l \in begun
    BY <1>10, <2>2
  <2>3. ASSUME NEW x \in kept, NEW y \in begun, x.tab = y.tab, x.generation = y.generation
        PROVE  FALSE
    <3>1. tabs[t].generation \in Nat
      BY <1>1 DEF TabType
    <3> QED
      BY <1>9, <1>10, <2>3, <3>1
  <2> QED
    BY <1>11, <2>1, <2>2, <2>3
<1>12. LoadsTrue'
  <2>1. ASSUME NEW m \in loads'
        PROVE  /\ m.generation <= tabs'[m.tab].generation
               /\ m.generation = tabs'[m.tab].generation /\ tabs'[m.tab].known => m.clean
               /\ m.clean => ReadsTruly(m)'
    <3>1. CASE m \in kept
      BY <1>9, <3>1
    <3>2. CASE m \in begun
      <4>1. b.generation \in Nat
        BY DEF TabType
      <4> QED
        BY <1>3, <1>10, <3>2, <4>1
    <3> QED
      BY <3>1, <3>2
  <2> QED
    BY <1>11, <2>1 DEF LoadsTrue
<1>13. FormsAreUsed'
  <2> SUFFICES ASSUME NEW c \in submits' PROVE ~tabs'[c.tab].loading
    BY DEF FormsAreUsed
  <2>1. c.tab \in Tabs /\ ~tabs[c.tab].loading
    BY DEF SubmitType
  <2>2. CASE c.tab = t
    BY <1>3, <2>1, <2>2
  <2>3. CASE c.tab # t
    BY <1>4, <2>1, <2>3 DEF Keeps
  <2> QED
    BY <2>2, <2>3
<1>14. SessionShape'
  <2>1. tabs' \in [Tabs -> TabType]
    <3>1. \A u \in Tabs : tabs'[u] \in TabType
      BY <1>3, <1>4
    <3>2. tabs' = [u \in Tabs |-> tabs'[u]]
      BY <1>1, <1>2 DEF Outdated
    <3> QED
      BY <3>1, <3>2
  <2>2. ASSUME NEW m \in kept
        PROVE  m \in SessionLoadType
    <3>1. PICK l \in loads : m = IF dim THEN [l EXCEPT !.clean = FALSE] ELSE l
      BY <1>8, <2>2
    <3>2. l \in SessionLoadType
      BY <1>1
    <3> QED
      BY <3>1, <3>2 DEF SessionLoadType
  <2>3. ASSUME NEW m \in begun
        PROVE  m \in SessionLoadType
    <3>1. PICK n \in Nat : m = LoadOf(t, n, cookie')
      BY <2>3
    <3>2. tabs[t].generation + 1 \in Nat
      BY <1>1 DEF TabType
    <3> QED
      BY <3>1, <3>2 DEF LoadOf, SessionLoadType, UserType
  <2> QED
    BY <2>1, <2>2, <2>3 DEF SessionShape
<1> QED
  BY <1>5, <1>7, <1>12, <1>13, <1>14 DEF TabsMove

\* Sessions end or begin at the server: no tab moves, and where the session of the cookie
\* is not the one it was, nobody keeps believing so.
LEMMA SessionsChange ==
    ASSUME SessionInv, cookie' = cookie, temporary' \subseteq Usernames,
           submits' \subseteq SubmitType, budget' \in BudgetType,
           \A c \in submits' : \E s \in submits : c.tab = s.tab,
           NEW owners \in [1..MaxSessions -> Usernames \cup {Nobody}], OwnersBecome(owners)
    PROVE  SessionInv' /\ TabsMove
<1> USE DEF SessionInv
<1>1. tabs \in [Tabs -> TabType] /\ loads \subseteq SessionLoadType
  BY DEF SessionShape
<1>2. PICK dim \in BOOLEAN :
        /\ dim = FALSE => SignedIn' = SignedIn /\ tabs' = tabs /\ loads' = loads
        /\ dim = TRUE => tabs' = Outdated /\ loads' = OutdatedLoads
  <2>1. CASE cookie # 0 /\ owners[cookie] # owner[cookie]
    <3>1. tabs' = Outdated /\ loads' = OutdatedLoads
      BY <2>1 DEF OwnersBecome
    <3> QED
      BY <3>1
  <2>2. CASE ~(cookie # 0 /\ owners[cookie] # owner[cookie])
    <3>1. SignedIn' = SignedIn /\ tabs' = tabs /\ loads' = loads
      BY <2>2 DEF OwnersBecome, SignedIn, OwnerOf
    <3> QED
      BY <3>1
  <2> QED
    BY <2>1, <2>2
<1>3. ASSUME NEW u \in Tabs
      PROVE  /\ tabs[u] \in TabType /\ tabs'[u] \in TabType
             /\ Keeps(tabs[u], tabs'[u]) /\ tabs'[u].generation = tabs[u].generation
             /\ tabs'[u].known => dim = FALSE /\ tabs[u].known
  <2>1. tabs[u] \in TabType
    BY <1>1
  <2>2. CASE dim = FALSE
    BY <1>2, <2>1, <2>2 DEF Keeps
  <2>3. CASE dim = TRUE
    <3>1. tabs'[u] = [tabs[u] EXCEPT !.known = FALSE]
      BY <1>1, <1>2, <2>3 DEF Outdated
    <3> QED
      BY <2>1, <3>1 DEF TabType, Keeps
  <2> QED
    BY <2>2, <2>3
<1>4. ASSUME NEW u \in Tabs
      PROVE  TabRule(tabs'[u]) /\ Moves(tabs[u], tabs'[u])
  BY <1>3, KeptTab
<1>5. KnownUserIsShown'
  BY <1>2, <1>3 DEF KnownUserIsShown, Keeps
<1>6. FormsAreUsed'
  <2> SUFFICES ASSUME NEW c \in submits' PROVE ~tabs'[c.tab].loading
    BY DEF FormsAreUsed
  <2>1. PICK s \in submits : c.tab = s.tab
    OBVIOUS
  <2>2. c.tab \in Tabs /\ ~tabs[c.tab].loading
    BY <2>1 DEF SessionShape, SubmitType, FormsAreUsed
  <2> QED
    BY <1>3, <2>2 DEF Keeps
<1>7. ASSUME NEW m \in loads'
      PROVE  \E l \in loads : /\ m = IF dim THEN [l EXCEPT !.clean = FALSE] ELSE l
                              /\ m.tab = l.tab /\ m.generation = l.generation
                              /\ m.clean => dim = FALSE /\ m = l
  <2>1. PICK l \in loads : m = IF dim THEN [l EXCEPT !.clean = FALSE] ELSE l
    BY <1>2 DEF OutdatedLoads
  <2>2. l \in SessionLoadType
    BY <1>1
  <2> QED
    BY <2>1, <2>2 DEF SessionLoadType
<1>8. ASSUME NEW m \in loads'
      PROVE  /\ m.generation <= tabs'[m.tab].generation
             /\ m.generation = tabs'[m.tab].generation /\ tabs'[m.tab].known => m.clean
             /\ m.clean => ReadsTruly(m)'
  <2>1. PICK l \in loads : /\ m = IF dim THEN [l EXCEPT !.clean = FALSE] ELSE l
                           /\ m.tab = l.tab /\ m.generation = l.generation
                           /\ m.clean => dim = FALSE /\ m = l
    BY <1>7
  <2>2. l.tab \in Tabs
    BY <1>1 DEF SessionLoadType
  <2>3. /\ m.generation <= tabs'[m.tab].generation
        /\ m.generation = tabs'[m.tab].generation /\ tabs'[m.tab].known => m.clean
    BY <1>3, <2>1, <2>2 DEF LoadsTrue
  <2>4. m.clean => ReadsTruly(m)'
    BY <1>2, <2>1 DEF LoadsTrue, ReadsTruly
  <2> QED
    BY <2>3, <2>4
<1>9. ASSUME NEW m \in loads', NEW l \in loads', m.tab = l.tab, m.generation = l.generation
      PROVE  m = l
  <2>1. PICK x \in loads : /\ m = IF dim THEN [x EXCEPT !.clean = FALSE] ELSE x
                           /\ m.tab = x.tab /\ m.generation = x.generation
    BY <1>7
  <2>2. PICK y \in loads : /\ l = IF dim THEN [y EXCEPT !.clean = FALSE] ELSE y
                           /\ l.tab = y.tab /\ l.generation = y.generation
    BY <1>7
  <2>3. x = y
    BY <1>9, <2>1, <2>2 DEF LoadsTrue
  <2> QED
    BY <2>1, <2>2, <2>3
<1>10. LoadsTrue'
  BY <1>8, <1>9 DEF LoadsTrue
<1>11. SessionShape'
  <2>1. tabs' \in [Tabs -> TabType]
    <3>1. tabs' = [u \in Tabs |-> tabs'[u]]
      BY <1>1, <1>2 DEF Outdated
    <3> QED
      BY <1>3, <3>1
  <2>2. ASSUME NEW m \in loads'
        PROVE  m \in SessionLoadType
    <3>1. PICK l \in loads : /\ m = IF dim THEN [l EXCEPT !.clean = FALSE] ELSE l
                             /\ m.tab = l.tab /\ m.generation = l.generation
                             /\ m.clean => dim = FALSE /\ m = l
      BY <1>7
    <3>2. l \in SessionLoadType
      BY <1>1
    <3> QED
      BY <3>1, <3>2 DEF SessionLoadType
  <2> QED
    BY <2>1, <2>2 DEF SessionShape, OwnersBecome
<1> QED
  BY <1>4, <1>5, <1>6, <1>10, <1>11 DEF TabsMove

\* A load goes on: it stays the load of its generation.
LEMMA LoadGoesOn ==
    ASSUME SessionInv, SessionShape', NEW l \in loads, NEW m, loads' = (loads \ {l}) \cup {m},
           m.tab = l.tab, m.generation = l.generation, m.clean = l.clean,
           l.clean => ReadsTruly(m),
           UNCHANGED <<cookie, owner, tabs, submits>>
    PROVE  SessionInv' /\ TabsMove
<1> USE DEF SessionInv
<1>1. SignedIn' = SignedIn
  BY DEF SignedIn, OwnerOf
<1>2. LoadsTrue'
  <2>1. ASSUME NEW x \in loads', NEW y \in loads', x.tab = y.tab, x.generation = y.generation
        PROVE  x = y
    BY <2>1 DEF LoadsTrue
  <2>2. ASSUME NEW x \in loads'
        PROVE  /\ x.generation <= tabs'[x.tab].generation
               /\ x.generation = tabs'[x.tab].generation /\ tabs'[x.tab].known => x.clean
               /\ x.clean => ReadsTruly(x)'
    BY <1>1 DEF LoadsTrue, ReadsTruly
  <2> QED
    BY <2>1, <2>2 DEF LoadsTrue
<1>3. FormsAreUsed' /\ KnownUserIsShown'
  BY <1>1 DEF FormsAreUsed, KnownUserIsShown
<1> QED
  BY <1>2, <1>3 DEF TabsMove, Moves

-----------------------------------------------------------------------------
(* The steps of the session *)

\* What is spent of a bound was left of it.
LEMMA SpendType ==
    ASSUME budget \in BudgetType,
           NEW what \in {"focus", "submits", "revocations", "lost", "sessions"}, Spend(what)
    PROVE  budget' \in BudgetType /\ budget[what] \in Nat \ {0}
<1>1. budget[what] \in Nat \ {0} /\ budget[what] - 1 \in Nat
  BY DEF Spend, BudgetType
<1>2. CASE what = "sessions"
  <2>1. budget.sessions - 1 \in 0..(MaxSessions - 1)
    BY <1>1, <1>2, WebSessionAssumption DEF BudgetType
  <2> QED
    BY <1>1, <1>2, <2>1 DEF Spend, BudgetType
<1>3. CASE what # "sessions"
  BY <1>1, <1>3 DEF Spend, BudgetType
<1> QED
  BY <1>1, <1>2, <1>3

\* A form is answered by the server, or lost.
LEMMA HandledType ==
    ASSUME SessionShape, NEW c \in submits, NEW sid \in 0..MaxSessions,
           NEW answer \in {"none", "ok", "unauthorized", "refused", "lost"}, Handled(c, answer, sid)
    PROVE  /\ submits' \subseteq SubmitType
           /\ \A n \in submits' : \E s \in submits : n.tab = s.tab
<1>1. c \in SubmitType /\ submits \subseteq SubmitType
  BY DEF SessionShape
<1>2. PICK h : h = [c EXCEPT !.step = "handled", !.answer = answer, !.sid = sid]
  OBVIOUS
<1>3. h \in SubmitType /\ h.tab = c.tab
  BY <1>1, <1>2 DEF SubmitType
<1>4. submits' = (submits \ {c}) \cup {h}
  BY <1>2 DEF Handled
<1> QED
  BY <1>1, <1>3, <1>4

\* Sessions that end have nobody.
LEMMA WithoutType ==
    ASSUME SessionShape, NEW gone
    PROVE  Without(gone) \in [1..MaxSessions -> Usernames \cup {Nobody}]
  BY DEF SessionShape, Without

\* The user returns to a tab: a load of a new generation begins.
LEMMA FocusKeeps ==
    ASSUME SessionInv, NEW t \in Tabs, Focus(t)
    PROVE  SessionInv' /\ TabsMove
<1>1. tabs[t] \in TabType /\ tabs \in [Tabs -> TabType] /\ SessionShape
  BY DEF SessionInv, SessionShape
<1>2. PICK b : b = NextGeneration(tabs[t])
  OBVIOUS
<1>3. /\ b \in TabType /\ Keeps(tabs[t], b) /\ b.known = tabs[t].known
      /\ b.generation = tabs[t].generation + 1 /\ tabs[t].generation \in Nat
  BY <1>1, <1>2 DEF NextGeneration, TabType, Keeps
<1>4. TabRule(b) /\ Moves(tabs[t], b)
  BY <1>1, <1>3, KeptTab DEF SessionInv
<1>5. budget' \in BudgetType
  BY <1>1, SpendType DEF Focus, SessionShape
<1>6. /\ tabs' = [tabs EXCEPT ![t] = b] /\ loads' = {LoadOf(t, 0, cookie')} \cup loads
      /\ cookie' = cookie /\ owner' = owner /\ temporary' = temporary /\ submits' = submits
  BY <1>1, <1>2 DEF Focus
<1>7. \A l \in loads : l.tab = t => l.generation # b.generation
  BY <1>1, <1>3 DEF SessionInv, LoadsTrue, SessionShape, SessionLoadType
<1>8. b.known => b.user.id = SignedIn'
  BY <1>3, <1>6 DEF SessionInv, KnownUserIsShown, Keeps, SignedIn, OwnerOf
<1>9. /\ cookie' \in 0..MaxSessions /\ submits' \subseteq SubmitType
      /\ \A c \in submits' : ~tabs[c.tab].loading
      /\ b.loading => tabs[t].loading
      /\ b.generation >= tabs[t].generation
  BY <1>1, <1>3, <1>6 DEF SessionInv, SessionShape, FormsAreUsed, Keeps
<1>10. \E n \in Nat : {LoadOf(t, 0, cookie')} = {LoadOf(t, n, cookie')}
  OBVIOUS
<1> QED
  BY <1>3, <1>4, <1>5, <1>6, <1>7, <1>8, <1>9, <1>10, TabTurns

\* Forms and links of a tab whose user stays: nothing is loaded.
LEMMA TabStays ==
    ASSUME SessionInv, NEW t \in Tabs, NEW b \in TabType, NEW c,
           tabs' = [tabs EXCEPT ![t] = b], loads' = loads,
           UNCHANGED <<cookie, owner, temporary>>, budget' \in BudgetType,
           submits' \subseteq submits \cup {c}, submits' \subseteq SubmitType,
           c.tab = t, Usable(t),
           TabRule(b), Moves(tabs[t], b),
           b.user = tabs[t].user, b.known = tabs[t].known, b.loading = tabs[t].loading,
           b.generation = tabs[t].generation
    PROVE  SessionInv' /\ TabsMove
<1>1. tabs[t] \in TabType /\ tabs[t].generation \in Nat
  BY DEF SessionInv, SessionShape, TabType
<1>2. b.known => b.user.id = SignedIn'
  BY DEF SessionInv, KnownUserIsShown, SignedIn, OwnerOf
<1>3. /\ cookie' \in 0..MaxSessions /\ \A x \in submits' : ~tabs[x.tab].loading
      /\ b.loading => tabs[t].loading
      /\ b.generation >= tabs[t].generation
  BY <1>1 DEF SessionInv, SessionShape, FormsAreUsed, Usable
<1>4. \A l \in loads : l.tab = t /\ l.generation = b.generation /\ b.known => l.clean
  BY DEF SessionInv, LoadsTrue
<1>5. loads' = {} \cup loads /\ cookie' = cookie /\ owner' = owner /\ temporary' = temporary
  OBVIOUS
<1> QED
  BY <1>2, <1>3, <1>4, <1>5, TabTurns

\* A link is followed by a user, who is not at the login page.
LEMMA VisitKeeps ==
    ASSUME SessionInv, NEW t \in Tabs, NEW p \in Links, Visit(t, p)
    PROVE  SessionInv' /\ TabsMove
<1>1. tabs[t] \in TabType /\ tabs \in [Tabs -> TabType] /\ TabRule(tabs[t])
  BY DEF SessionInv, SessionShape
<1>2. p \in Paths
  BY WebSessionAssumption
<1>3. tabs[t].path # "/login" /\ tabs[t].leftBy # "logout"
  BY <1>1 DEF Visit, Usable, TabRule
<1>4. PICK v : v = [tabs[t] EXCEPT !.path = p, !.waiting = {}]
  OBVIOUS
<1>5. /\ v \in TabType /\ v.user = tabs[t].user /\ v.known = tabs[t].known
      /\ v.loading = tabs[t].loading /\ v.generation = tabs[t].generation
      /\ v.leftBy = tabs[t].leftBy
  BY <1>1, <1>2, <1>4 DEF TabType
<1>6. PICK b : b = Guarded(v)
  OBVIOUS
<1>7. /\ b \in TabType /\ b.user = tabs[t].user /\ b.known = tabs[t].known
      /\ b.loading = tabs[t].loading /\ b.generation = tabs[t].generation
  BY <1>5, <1>6, GuardKeeps
<1>8. TabRule(b) /\ Moves(tabs[t], b)
  BY <1>3, <1>5, <1>6, GuardRules DEF Moves
<1>9. /\ tabs' = [tabs EXCEPT ![t] = b] /\ loads' = loads /\ submits' = submits
      /\ UNCHANGED <<cookie, owner, temporary>> /\ budget' = budget /\ Usable(t)
  BY <1>1, <1>4, <1>6 DEF Visit
<1>10. PICK c : c = [tab |-> t]
  OBVIOUS
<1>11. /\ submits' \subseteq submits \cup {c} /\ submits' \subseteq SubmitType /\ c.tab = t
       /\ budget' \in BudgetType
  BY <1>9, <1>10 DEF SessionInv, SessionShape
<1> QED
  BY <1>7, <1>8, <1>9, <1>11, TabStays

\* A form is sent: only the answers the tab waits for change.
LEMMA SubmitKeeps ==
    ASSUME SessionInv, NEW t \in Tabs, NEW kind \in {"login", "logout", "contact", "password"},
           NEW account \in Usernames, Submit(t, kind, account)
    PROVE  SessionInv' /\ TabsMove
<1>1. tabs[t] \in TabType /\ tabs \in [Tabs -> TabType] /\ TabRule(tabs[t]) /\ SessionShape
  BY DEF SessionInv, SessionShape
<1>2. budget' \in BudgetType /\ budget.submits \in Nat
  BY <1>1, SpendType DEF Submit, SessionShape
<1>3. PICK c : c = [no |-> budget.submits, tab |-> t, kind |-> kind, account |-> account,
                    sid |-> cookie, step |-> "sent", answer |-> "none"]
  OBVIOUS
<1>4. c \in SubmitType /\ c.tab = t /\ submits' = submits \cup {c}
  BY <1>1, <1>2, <1>3 DEF Submit, SubmitType, SessionShape
<1>5. PICK b : b = [tabs[t] EXCEPT !.waiting = @ \cup {budget.submits}]
  OBVIOUS
<1>6. /\ b \in TabType /\ Keeps(tabs[t], b) /\ b.known = tabs[t].known
      /\ b.generation = tabs[t].generation
  BY <1>1, <1>2, <1>5 DEF TabType, Keeps
<1>7. /\ tabs' = [tabs EXCEPT ![t] = b] /\ loads' = loads
      /\ UNCHANGED <<cookie, owner, temporary>> /\ Usable(t)
  BY <1>1, <1>5 DEF Submit
<1>8. TabRule(b) /\ Moves(tabs[t], b)
  BY <1>1, <1>6, KeptTab
<1>9. submits' \subseteq submits \cup {c} /\ submits' \subseteq SubmitType
  BY <1>1, <1>4 DEF SessionShape
<1>10. b.user = tabs[t].user /\ b.loading = tabs[t].loading
  BY <1>6 DEF Keeps
<1> QED
  BY <1>2, <1>4, <1>6, <1>7, <1>8, <1>9, <1>10, TabStays

\* A load that nothing has outdated reads the session in the cookie, or that there is none.
LEMMA ReadSessionKeeps ==
    ASSUME SessionInv, NEW l \in loads, ReadSession(l)
    PROVE  SessionInv' /\ TabsMove
<1> DEFINE who == OwnerOf(l.sid)
<1>1. /\ SessionShape /\ l \in SessionLoadType /\ l.step = "session"
      /\ cookie \in 0..MaxSessions
      /\ l.clean => ReadsTruly(l)
  BY DEF SessionInv, SessionShape, LoadsTrue, ReadSession
<1>2. who \in Usernames \cup {Nobody} /\ (who \in temporary) \in BOOLEAN
  BY <1>1 DEF OwnerOf, SessionShape, SessionLoadType
<1>3. l.clean => l.sid = cookie /\ l.user = NoOne /\ who = SignedIn
  BY <1>1 DEF ReadsTruly, SignedIn
<1>4. PICK m : m = IF who = Nobody THEN [l EXCEPT !.step = "done"]
                   ELSE [l EXCEPT !.step = "me", !.sid = cookie,
                                  !.user = [id |-> who, must |-> who \in temporary]]
  OBVIOUS
<1>5. /\ m \in SessionLoadType /\ m.tab = l.tab /\ m.generation = l.generation
      /\ m.clean = l.clean
  <2>1. CASE who = Nobody
    BY <1>1, <1>4, <2>1 DEF SessionLoadType
  <2>2. CASE who # Nobody
    <3>1. PICK u : u = [id |-> who, must |-> who \in temporary]
      OBVIOUS
    <3>2. u \in UserType
      BY <1>2, <2>2, <3>1 DEF UserType
    <3>3. m = [l EXCEPT !.step = "me", !.sid = cookie, !.user = u]
      BY <1>4, <2>2, <3>1
    <3> HIDE DEF who
    <3> QED
      BY <1>1, <3>2, <3>3 DEF SessionLoadType
  <2> QED
    BY <2>1, <2>2
<1>6. l.clean => ReadsTruly(m)
  <2>1. CASE who = Nobody
    BY <1>1, <1>3, <1>4, <2>1 DEF SessionLoadType, ReadsTruly, NoOne
  <2>2. CASE who # Nobody
    BY <1>1, <1>3, <1>4, <2>2 DEF SessionLoadType, ReadsTruly
  <2> QED
    BY <2>1, <2>2
<1>7. loads' = (loads \ {l}) \cup {m} /\ UNCHANGED <<cookie, owner, temporary, tabs, submits, budget>>
  BY <1>4 DEF ReadSession
<1>8. SessionShape'
  BY <1>1, <1>5, <1>7 DEF SessionShape
<1> QED
  BY <1>5, <1>6, <1>7, <1>8, LoadGoesOn

\* The profile is the one of the session that was read.
LEMMA ReadProfileKeeps ==
    ASSUME SessionInv, NEW l \in loads, ReadProfile(l)
    PROVE  SessionInv' /\ TabsMove
<1>1. /\ SessionShape /\ l \in SessionLoadType /\ l.step = "me"
      /\ l.clean => ReadsTruly(l)
  BY DEF SessionInv, SessionShape, LoadsTrue, ReadProfile
<1>2. l.clean => l.sid = cookie /\ l.user.id = SignedIn
  BY <1>1 DEF ReadsTruly
<1>3. PICK u : u = IF OwnerOf(l.sid) = Nobody THEN NoOne ELSE l.user
  OBVIOUS
<1>4. u \in UserType /\ (l.clean => u.id = SignedIn)
  BY <1>1, <1>2, <1>3 DEF SessionLoadType, UserType, NoOne, SignedIn
<1>5. PICK m : m = [l EXCEPT !.step = "done", !.user = u]
  OBVIOUS
<1>6. /\ m \in SessionLoadType /\ m.tab = l.tab /\ m.generation = l.generation
      /\ m.clean = l.clean /\ m.step = "done" /\ m.user = u
  BY <1>1, <1>4, <1>5 DEF SessionLoadType
<1>7. l.clean => ReadsTruly(m)
  BY <1>4, <1>6 DEF ReadsTruly
<1>8. loads' = (loads \ {l}) \cup {m} /\ UNCHANGED <<cookie, owner, temporary, tabs, submits, budget>>
  BY <1>1, <1>3, <1>5 DEF ReadProfile, SessionLoadType
<1>9. SessionShape'
  BY <1>1, <1>6, <1>8 DEF SessionShape
<1> QED
  BY <1>6, <1>7, <1>8, <1>9, LoadGoesOn

\* A lost load tells nothing.
LEMMA LoseLoadKeeps ==
    ASSUME SessionInv, NEW l \in loads, LoseLoad(l)
    PROVE  SessionInv' /\ TabsMove
<1>1. SessionShape /\ l \in SessionLoadType
  BY DEF SessionInv, SessionShape
<1>2. PICK m : m = [l EXCEPT !.step = "done", !.lost = TRUE]
  OBVIOUS
<1>3. /\ m \in SessionLoadType /\ m.tab = l.tab /\ m.generation = l.generation
      /\ m.clean = l.clean /\ ReadsTruly(m)
  BY <1>1, <1>2 DEF SessionLoadType, ReadsTruly
<1>4. /\ loads' = (loads \ {l}) \cup {m} /\ UNCHANGED <<cookie, owner, temporary, tabs, submits>>
      /\ budget' \in BudgetType
  BY <1>1, <1>2, SpendType DEF LoseLoad, SessionShape
<1>5. SessionShape'
  BY <1>1, <1>3, <1>4 DEF SessionShape
<1> QED
  BY <1>3, <1>4, <1>5, LoadGoesOn

\* The answer of a load tells the tab its user only if it is of the tab's generation.
LEMMA SettledTab ==
    ASSUME NEW tab \in TabType, TabRule(tab), NEW l \in SessionLoadType,
           l.generation = tab.generation /\ tab.known => l.clean
    PROVE  LET a == Settled(tab, l)
           IN  /\ a \in TabType /\ a.path = tab.path /\ a.generation = tab.generation
               /\ a.loading => tab.loading
               /\ tab.leftBy = "logout" => a.path = "/login" /\ a.discard
               /\ a.leftBy = "logout" =>
                     a.path = "/login" /\ a.discard /\ ~a.loading /\ (a.failed => a.user = NoOne)
               /\ \/ a.user = tab.user /\ a.known = tab.known
                  \/ /\ a.user = l.user /\ ~l.lost /\ l.generation = tab.generation
                     /\ a.known => l.clean
<1> DEFINE a == Settled(tab, l)
           answered == [tab EXCEPT !.waiting = @ \ {l.submit}]
<1>1. answered \in TabType
  BY DEF TabType
<1>2. CASE Superseded(tab, l) \/ (l.lost /\ l.submit # 0)
  <2>1. a = answered
    BY <1>2 DEF Settled
  <2> QED
    BY <1>1, <2>1 DEF TabType, TabRule
<1>3. CASE ~Superseded(tab, l) /\ l.lost /\ l.submit = 0
  <2>1. a = PageFails(tab)
    BY <1>3 DEF Settled
  <2>2. a = [tab EXCEPT !.failed = TRUE, !.loading = FALSE, !.waiting = {}]
    BY <2>1 DEF PageFails
  <2> QED
    BY <2>2 DEF TabType, TabRule
<1>4. CASE ~Superseded(tab, l) /\ ~l.lost
  <2>1. PICK loading, sure \in BOOLEAN :
          /\ a = [answered EXCEPT !.user = l.user, !.failed = FALSE, !.loading = loading,
                                  !.known = sure]
          /\ loading => tab.loading
          /\ sure => tab.known \/ l.clean
    <3> DEFINE loading == answered.loading /\ l.submit # 0
               sure == answered.known \/ l.clean
    <3>1. a = [answered EXCEPT !.user = l.user, !.failed = FALSE, !.loading = loading,
                               !.known = sure]
      BY <1>4 DEF Settled
    <3>2. (loading => tab.loading) /\ (sure => tab.known \/ l.clean)
      BY DEF TabType
    <3>3. loading \in BOOLEAN /\ sure \in BOOLEAN
      OBVIOUS
    <3> QED
      BY <3>1, <3>2, <3>3
  <2>2. l.generation = tab.generation
    BY <1>4 DEF Superseded
  <2>3. l.user \in UserType
    BY DEF SessionLoadType
  <2>4. a = [user |-> l.user, loading |-> loading, failed |-> FALSE,
             generation |-> tab.generation, path |-> tab.path, from |-> tab.from,
             discard |-> tab.discard, waiting |-> tab.waiting \ {l.submit}, known |-> sure,
             leftBy |-> tab.leftBy]
    BY <2>1 DEF TabType
  <2>5. a \in TabType
    BY <2>3, <2>4 DEF TabType
  <2> QED
    BY <1>4, <2>1, <2>2, <2>4, <2>5 DEF TabRule
<1> QED
  BY <1>2, <1>3, <1>4

\* The load of the tab's generation is the only one of it, so none is left to tell otherwise.
LEMMA LoadSettlesKeeps ==
    ASSUME SessionInv, NEW l \in loads, LoadSettles(l)
    PROVE  SessionInv' /\ TabsMove
<1> DEFINE t == l.tab
<1>1. /\ SessionShape /\ l \in SessionLoadType /\ t \in Tabs /\ tabs \in [Tabs -> TabType]
      /\ tabs[t] \in TabType /\ TabRule(tabs[t]) /\ l.step = "done"
      /\ l.generation = tabs[t].generation /\ tabs[t].known => l.clean
      /\ l.clean => ReadsTruly(l)
  BY DEF SessionInv, SessionShape, SessionLoadType, LoadsTrue, LoadSettles
<1>2. PICK a : a = Settled(tabs[t], l)
  OBVIOUS
<1>3. /\ a \in TabType /\ a.path = tabs[t].path /\ a.generation = tabs[t].generation
      /\ a.loading => tabs[t].loading
      /\ tabs[t].leftBy = "logout" => a.path = "/login" /\ a.discard
      /\ a.leftBy = "logout" =>
            a.path = "/login" /\ a.discard /\ ~a.loading /\ (a.failed => a.user = NoOne)
      /\ \/ a.user = tabs[t].user /\ a.known = tabs[t].known
         \/ /\ a.user = l.user /\ ~l.lost /\ l.generation = tabs[t].generation
            /\ a.known => l.clean
  BY <1>1, <1>2, SettledTab
<1>4. PICK b : b = Guarded(a)
  OBVIOUS
<1>5. /\ b \in TabType /\ b.user = a.user /\ b.known = a.known
      /\ b.loading = a.loading /\ b.generation = a.generation
  BY <1>3, <1>4, GuardKeeps
<1>6. TabRule(b) /\ Moves(tabs[t], b)
  BY <1>1, <1>3, <1>4, GuardRules, GuardMoves
<1>7. /\ tabs' = [tabs EXCEPT ![t] = b] /\ loads' = {} \cup (loads \ {l})
      /\ cookie' = cookie /\ owner' = owner /\ temporary' = temporary /\ submits' = submits
      /\ budget' = budget
  BY <1>1, <1>2, <1>4 DEF LoadSettles
<1>8. SignedIn' = SignedIn
  BY <1>7 DEF SignedIn, OwnerOf
<1>9. b.known => b.user.id = SignedIn'
  <2>1. CASE a.user = tabs[t].user /\ a.known = tabs[t].known
    BY <1>1, <1>5, <1>8, <2>1 DEF SessionInv, KnownUserIsShown
  <2>2. CASE a.user = l.user /\ ~l.lost /\ (a.known => l.clean)
    BY <1>1, <1>5, <1>8, <2>2 DEF ReadsTruly
  <2> QED
    BY <1>3, <2>1, <2>2
<1>10. \A m \in loads \ {l} : m.tab = t /\ m.generation = b.generation /\ b.known => m.clean
  <2>1. CASE a.user = tabs[t].user /\ a.known = tabs[t].known
    BY <1>3, <1>5, <2>1 DEF SessionInv, LoadsTrue
  <2>2. CASE l.generation = tabs[t].generation
    BY <1>3, <1>5, <2>2 DEF SessionInv, LoadsTrue
  <2> QED
    BY <1>3, <2>1, <2>2
<1>11. /\ cookie' \in 0..MaxSessions /\ submits' \subseteq SubmitType /\ budget' \in BudgetType
       /\ \A c \in submits' : ~tabs[c.tab].loading
       /\ b.loading => tabs[t].loading
       /\ loads \ {l} \subseteq loads
  BY <1>1, <1>3, <1>5, <1>7 DEF SessionInv, SessionShape, FormsAreUsed
<1>12. b.generation >= tabs[t].generation
  BY <1>1, <1>3, <1>5 DEF TabType
<1> HIDE DEF t
<1> QED
  BY <1>1, <1>5, <1>6, <1>7, <1>9, <1>10, <1>11, <1>12, TabTurns

\* The server ends and begins sessions; the tabs keep what they show.
LEMMA HandleLoginKeeps ==
    ASSUME SessionInv, NEW c \in submits, HandleLogin(c)
    PROVE  SessionInv' /\ TabsMove
<1> DEFINE new == MaxSessions + 1 - budget.sessions
<1>1. SessionShape /\ c \in SubmitType
  BY DEF SessionInv, SessionShape
<1>2. /\ budget' \in BudgetType /\ new \in 1..MaxSessions
  <2>1. budget' \in BudgetType /\ budget.sessions \in Nat \ {0}
    BY <1>1, SpendType DEF HandleLogin, SessionShape
  <2>2. budget.sessions \in 0..(MaxSessions - 1)
    BY <1>1 DEF SessionShape, BudgetType
  <2> QED
    BY <2>1, <2>2, WebSessionAssumption
<1>3. PICK owners : owners = [Without({c.sid}) EXCEPT ![new] = c.account]
  OBVIOUS
<1>4. owners \in [1..MaxSessions -> Usernames \cup {Nobody}]
  BY <1>1, <1>2, <1>3, WithoutType DEF SubmitType
<1>5. /\ OwnersBecome(owners) /\ Handled(c, "ok", new)
      /\ cookie' = cookie /\ temporary' = temporary
  BY <1>3 DEF HandleLogin
<1> HIDE DEF new
<1>6. /\ submits' \subseteq SubmitType
      /\ \A n \in submits' : \E s \in submits : n.tab = s.tab
  BY <1>1, <1>2, <1>5, HandledType
<1> QED
  BY <1>1, <1>2, <1>4, <1>5, <1>6, SessionsChange DEF SessionShape

LEMMA HandleLogoutKeeps ==
    ASSUME SessionInv, NEW c \in submits, HandleLogout(c)
    PROVE  SessionInv' /\ TabsMove
<1>1. SessionShape /\ c.sid \in 0..MaxSessions
  BY DEF SessionInv, SessionShape, SubmitType
<1>2. Without({c.sid}) \in [1..MaxSessions -> Usernames \cup {Nobody}]
  BY <1>1, WithoutType
<1>3. /\ OwnersBecome(Without({c.sid})) /\ Handled(c, "ok", c.sid)
      /\ cookie' = cookie /\ temporary' = temporary /\ budget' = budget
  BY DEF HandleLogout
<1>4. /\ submits' \subseteq SubmitType
      /\ \A n \in submits' : \E s \in submits : n.tab = s.tab
  BY <1>1, <1>3, HandledType
<1>5. temporary' \subseteq Usernames /\ budget' \in BudgetType
  BY <1>1, <1>3 DEF SessionShape
<1> QED
  BY <1>2, <1>3, <1>4, <1>5, SessionsChange

LEMMA HandleProfileKeeps ==
    ASSUME SessionInv, NEW c \in submits, HandleProfile(c)
    PROVE  SessionInv' /\ TabsMove
<1> DEFINE a == OwnerOf(c.sid)
           changes == c.kind = "password" /\ a = c.account
<1>1. SessionShape /\ c.sid \in 0..MaxSessions
  BY DEF SessionInv, SessionShape, SubmitType
<1>2. PICK owners : owners = IF changes THEN Without(SessionsOf(a)) ELSE owner
  OBVIOUS
<1>3. owners \in [1..MaxSessions -> Usernames \cup {Nobody}]
  BY <1>1, <1>2, WithoutType DEF SessionShape
<1>4. PICK answer \in {"ok", "unauthorized", "refused"} : Handled(c, answer, c.sid)
  <2> DEFINE answer == CASE a = Nobody -> "unauthorized"
                         [] a # Nobody /\ c.kind = "password" /\ a # c.account -> "refused"
                         [] OTHER -> "ok"
  <2>1. Handled(c, answer, c.sid)
    BY DEF HandleProfile
  <2>2. answer \in {"ok", "unauthorized", "refused"}
    OBVIOUS
  <2> QED
    BY <2>1, <2>2
<1>5. /\ OwnersBecome(owners) /\ cookie' = cookie /\ budget' = budget
      /\ temporary' \subseteq temporary
  BY <1>2 DEF HandleProfile
<1>6. /\ submits' \subseteq SubmitType
      /\ \A n \in submits' : \E s \in submits : n.tab = s.tab
  BY <1>1, <1>4, HandledType
<1>7. temporary' \subseteq Usernames /\ budget' \in BudgetType
  BY <1>1, <1>5 DEF SessionShape
<1> QED
  BY <1>3, <1>5, <1>6, <1>7, SessionsChange

LEMMA LoseSubmitKeeps ==
    ASSUME SessionInv, NEW c \in submits, LoseSubmit(c)
    PROVE  SessionInv' /\ TabsMove
<1>1. SessionShape /\ c.sid \in 0..MaxSessions
  BY DEF SessionInv, SessionShape, SubmitType
<1>2. /\ OwnersBecome(owner) /\ Handled(c, "lost", c.sid)
      /\ cookie' = cookie /\ temporary' = temporary
  BY DEF LoseSubmit, OwnersBecome
<1>3. /\ submits' \subseteq SubmitType
      /\ \A n \in submits' : \E s \in submits : n.tab = s.tab
  BY <1>1, <1>2, HandledType
<1>4. /\ budget' \in BudgetType /\ temporary' \subseteq Usernames
      /\ owner \in [1..MaxSessions -> Usernames \cup {Nobody}]
  BY <1>1, <1>2, SpendType DEF LoseSubmit, SessionShape
<1> QED
  BY <1>2, <1>3, <1>4, SessionsChange

LEMMA RevokeKeeps ==
    ASSUME SessionInv, NEW a \in Usernames, NEW reset \in BOOLEAN, Revoke(a, reset)
    PROVE  SessionInv' /\ TabsMove
<1>1. SessionShape
  BY DEF SessionInv
<1>2. Without(SessionsOf(a)) \in [1..MaxSessions -> Usernames \cup {Nobody}]
  BY <1>1, WithoutType
<1>3. /\ OwnersBecome(Without(SessionsOf(a))) /\ cookie' = cookie /\ submits' = submits
      /\ temporary' \subseteq temporary \cup {a}
  BY DEF Revoke
<1>4. /\ budget' \in BudgetType /\ temporary' \subseteq Usernames /\ submits' \subseteq SubmitType
      /\ \A n \in submits' : \E s \in submits : n.tab = s.tab
  BY <1>1, <1>3, SpendType DEF Revoke, SessionShape
<1> QED
  BY <1>2, <1>3, <1>4, SessionsChange

\* The tab of a form turns to b with the answer, which leaves sid in the cookie.
LEMMA AnswerTurns ==
    ASSUME SessionInv, NEW c \in submits, NEW sid \in 0..MaxSessions, NEW b \in TabType, NEW begun,
           cookie' = sid, submits' = submits \ {c}, UNCHANGED <<owner, temporary, budget>>,
           tabs' = [(IF sid # cookie THEN Outdated ELSE tabs) EXCEPT ![c.tab] = b],
           loads' = begun \cup IF sid # cookie THEN OutdatedLoads ELSE loads,
           TabRule(b), Moves(tabs[c.tab], b), b.loading => tabs[c.tab].loading,
           b.known => b.user.id = SignedIn',
           \/ /\ b.generation = tabs[c.tab].generation + 1
              /\ begun = {} \/ \E n \in Nat : begun = {LoadOf(c.tab, n, sid)}
           \/ /\ b.generation = tabs[c.tab].generation /\ begun = {} /\ sid = cookie
              /\ b.known => tabs[c.tab].known
    PROVE  SessionInv' /\ TabsMove
<1> DEFINE t == c.tab
<1>1. /\ SessionShape /\ c \in SubmitType /\ t \in Tabs /\ tabs[t] \in TabType
      /\ tabs[t].generation \in Nat
  BY DEF SessionInv, SessionShape, SubmitType, TabType
<1>2. PICK kept : kept = IF sid # cookie THEN OutdatedLoads ELSE loads
  OBVIOUS
<1>3. /\ loads' = begun \cup kept
      /\ \/ cookie' = cookie /\ kept \subseteq loads /\ tabs' = [tabs EXCEPT ![t] = b]
         \/ kept \subseteq OutdatedLoads /\ tabs' = [Outdated EXCEPT ![t] = b]
  BY <1>2
<1>4. \A l \in kept : l.tab = t /\ l.generation = b.generation /\ b.known => l.clean
  <2> SUFFICES ASSUME NEW l \in kept, l.tab = t, l.generation = b.generation, b.known
               PROVE  l.clean
    OBVIOUS
  <2>1. PICK m \in loads : l.tab = m.tab /\ l.generation = m.generation
                           /\ (sid = cookie => l = m)
    BY <1>1, <1>2 DEF OutdatedLoads, SessionShape, SessionLoadType
  <2>2. m.generation \in Nat /\ m.generation <= tabs[t].generation
    BY <1>1, <2>1 DEF SessionInv, LoadsTrue, SessionShape, SessionLoadType
  <2>3. CASE b.generation = tabs[t].generation + 1
    <3>1. m.generation = tabs[t].generation + 1
      BY <2>1, <2>3
    <3> QED
      BY <1>1, <2>2, <3>1
  <2>4. CASE b.generation = tabs[t].generation /\ sid = cookie /\ tabs[t].known
    BY <2>1, <2>4 DEF SessionInv, LoadsTrue
  <2> QED
    BY <2>3, <2>4
<1>5. /\ cookie' \in 0..MaxSessions /\ submits' \subseteq SubmitType /\ budget' \in BudgetType
      /\ owner' = owner /\ temporary' = temporary
      /\ \A x \in submits' : ~tabs[x.tab].loading
  BY <1>1 DEF SessionInv, SessionShape, FormsAreUsed
<1>6. b.generation >= tabs[t].generation
  BY <1>1
<1>7. \/ begun = {}
      \/ /\ b.generation = tabs[t].generation + 1
         /\ \E n \in Nat : begun = {LoadOf(t, n, cookie')}
  OBVIOUS
<1> HIDE DEF t
<1>8. TabRule(b) /\ Moves(tabs[t], b) /\ (b.loading => tabs[t].loading)
  BY DEF t
<1> QED
  BY <1>1, <1>3, <1>4, <1>5, <1>6, <1>7, <1>8, TabTurns

\* The tab an answer finds: what it knew may be outdated by the new cookie.
Found(c, sid) == IF sid # cookie THEN [tabs[c.tab] EXCEPT !.known = FALSE] ELSE tabs[c.tab]

\* It is the tab as it was, but for what it knew.
LEMMA FoundTab ==
    ASSUME SessionInv, NEW c \in submits, NEW sid \in 0..MaxSessions
    PROVE  /\ c \in SubmitType /\ c.tab \in Tabs
           /\ tabs[c.tab] \in TabType /\ Found(c, sid) \in TabType
           /\ TabRule(tabs[c.tab]) /\ TabRule(Found(c, sid)) /\ ~tabs[c.tab].loading
           /\ Keeps(tabs[c.tab], Found(c, sid))
           /\ Found(c, sid).generation = tabs[c.tab].generation
           /\ Found(c, sid).known => sid = cookie /\ tabs[c.tab].known
           /\ (IF sid # cookie THEN Outdated ELSE tabs)[c.tab] = Found(c, sid)
<1>1. /\ c \in SubmitType /\ c.tab \in Tabs /\ tabs[c.tab] \in TabType /\ TabRule(tabs[c.tab])
      /\ ~tabs[c.tab].loading
  BY DEF SessionInv, SessionShape, SubmitType, FormsAreUsed
<1>2. CASE sid = cookie
  BY <1>1, <1>2 DEF Found, Keeps
<1>3. CASE sid # cookie
  <2>1. Found(c, sid) = [tabs[c.tab] EXCEPT !.known = FALSE]
    BY <1>3 DEF Found
  <2>2. /\ Found(c, sid) \in TabType /\ Keeps(tabs[c.tab], Found(c, sid))
        /\ Found(c, sid).known = FALSE /\ Found(c, sid).generation = tabs[c.tab].generation
    BY <1>1, <2>1 DEF TabType, Keeps
  <2>3. TabRule(Found(c, sid))
    BY <1>1, <2>2, KeptTab
  <2>4. Outdated[c.tab] = Found(c, sid)
    BY <1>1, <2>1 DEF Outdated
  <2> QED
    BY <1>1, <1>3, <2>2, <2>3, <2>4
<1> QED
  BY <1>2, <1>3

\* A form that is answered only leaves the list of those waited for.
LEMMA AnsweredTab ==
    ASSUME NEW tab \in TabType, NEW c
    PROVE  /\ Answered(tab, c) \in TabType /\ Keeps(tab, Answered(tab, c))
           /\ Answered(tab, c).known = tab.known /\ Answered(tab, c).generation = tab.generation
<1>1. PICK a : a = Answered(tab, c)
  OBVIOUS
<1>2. a = [tab EXCEPT !.waiting = @ \ {c.no}]
  BY <1>1 DEF Answered
<1>3. a \in TabType /\ Keeps(tab, a) /\ a.known = tab.known /\ a.generation = tab.generation
  BY <1>2 DEF TabType, Keeps
<1> QED
  BY <1>1, <1>3

\* An answer that the form shows, and that changes nothing else.
LEMMA ToldKeeps ==
    ASSUME SessionInv, NEW c \in submits, cookie' = cookie, submits' = submits \ {c},
           UNCHANGED <<owner, temporary, budget>>, loads' = loads,
           tabs' = [tabs EXCEPT ![c.tab] = Answered(@, c)]
    PROVE  SessionInv' /\ TabsMove
<1>1. c.tab \in Tabs /\ tabs \in [Tabs -> TabType] /\ cookie \in 0..MaxSessions
  BY DEF SessionInv, SessionShape, SubmitType
<1>2. PICK b : b = Answered(tabs[c.tab], c)
  OBVIOUS
<1>3. /\ b \in TabType /\ Keeps(tabs[c.tab], b) /\ b.known = tabs[c.tab].known
      /\ b.generation = tabs[c.tab].generation
  BY <1>1, <1>2, AnsweredTab
<1>4. TabRule(b) /\ Moves(tabs[c.tab], b)
  BY <1>1, <1>3, KeptTab DEF SessionInv
<1>5. tabs' = [(IF cookie # cookie THEN Outdated ELSE tabs) EXCEPT ![c.tab] = b]
  BY <1>1, <1>2
<1>6. loads' = {} \cup IF cookie # cookie THEN OutdatedLoads ELSE loads
  OBVIOUS
<1>7. b.known => b.user.id = SignedIn'
  BY <1>1, <1>3 DEF SessionInv, KnownUserIsShown, Keeps, SignedIn, OwnerOf
<1>8. b.loading => tabs[c.tab].loading
  BY <1>3 DEF Keeps
<1>9. /\ b.generation = tabs[c.tab].generation /\ {} = {} /\ cookie = cookie
      /\ b.known => tabs[c.tab].known
  BY <1>3
<1> QED
  BY <1>1, <1>3, <1>4, <1>5, <1>6, <1>7, <1>8, <1>9, AnswerTurns

\* A load begun with the answer to a form.
LEMMA ReloadKeeps ==
    ASSUME SessionInv, NEW c \in submits, NEW sid \in 0..MaxSessions, NEW f,
           f = Found(c, sid) \/ f = Answered(Found(c, sid), c),
           cookie' = sid, submits' = submits \ {c}, UNCHANGED <<owner, temporary, budget>>,
           tabs' = [(IF sid # cookie THEN Outdated ELSE tabs) EXCEPT ![c.tab] = NextGeneration(f)],
           NEW n \in Nat,
           loads' = {LoadOf(c.tab, n, sid)} \cup IF sid # cookie THEN OutdatedLoads ELSE loads
    PROVE  SessionInv' /\ TabsMove
<1> DEFINE t == c.tab
<1>1. /\ t \in Tabs /\ tabs[t] \in TabType /\ f \in TabType /\ TabRule(tabs[t])
      /\ Keeps(tabs[t], f) /\ f.generation = tabs[t].generation
      /\ f.known => sid = cookie /\ tabs[t].known
  BY FoundTab, AnsweredTab DEF Keeps
<1>2. PICK b : b = NextGeneration(f)
  OBVIOUS
<1>3. /\ b \in TabType /\ Keeps(tabs[t], b) /\ b.known = f.known
      /\ b.generation = tabs[t].generation + 1
  BY <1>1, <1>2 DEF NextGeneration, TabType, Keeps
<1>4. TabRule(b) /\ Moves(tabs[t], b)
  BY <1>1, <1>3, KeptTab
<1>5. b.known => b.user.id = SignedIn'
  BY <1>1, <1>3 DEF SessionInv, KnownUserIsShown, Keeps, SignedIn, OwnerOf
<1>6. b.loading => tabs[t].loading
  BY <1>3 DEF Keeps
<1>7. tabs' = [(IF sid # cookie THEN Outdated ELSE tabs) EXCEPT ![c.tab] = b]
  BY <1>2
<1>8. PICK begun : begun = {LoadOf(c.tab, n, sid)}
  OBVIOUS
<1>9. /\ loads' = begun \cup IF sid # cookie THEN OutdatedLoads ELSE loads
      /\ b.generation = tabs[c.tab].generation + 1
      /\ \E i \in Nat : begun = {LoadOf(c.tab, i, sid)}
  BY <1>3, <1>8
<1> QED
  BY <1>3, <1>4, <1>5, <1>6, <1>7, <1>9, AnswerTurns

\* The three kinds of forms, answered.
LEMMA LoginAnsweredKeeps ==
    ASSUME SessionInv, NEW c \in submits, LoginAnswered(c)
    PROVE  SessionInv' /\ TabsMove
<1>1. CASE c.answer = "ok"
  <2>1. c.sid \in 0..MaxSessions /\ c.no \in Nat
    BY DEF SessionInv, SessionShape, SubmitType
  <2>2. PICK f : f = Found(c, c.sid)
    OBVIOUS
  <2>3. (IF c.sid # cookie THEN Outdated ELSE tabs)[c.tab] = f
    BY <2>1, <2>2, FoundTab
  <2>4. /\ cookie' = c.sid /\ submits' = submits \ {c} /\ UNCHANGED <<owner, temporary, budget>>
        /\ loads' = {LoadOf(c.tab, c.no, c.sid)}
                      \cup IF c.sid # cookie THEN OutdatedLoads ELSE loads
    BY <1>1 DEF LoginAnswered, Arrives
  <2>5. tabs' = [(IF c.sid # cookie THEN Outdated ELSE tabs) EXCEPT ![c.tab] = NextGeneration(f)]
    BY <1>1, <2>3 DEF LoginAnswered, Arrives
  <2> QED
    BY <2>1, <2>2, <2>4, <2>5, ReloadKeeps
<1>2. CASE c.answer # "ok"
  <2>1. /\ cookie' = cookie /\ submits' = submits \ {c} /\ UNCHANGED <<owner, temporary, budget>>
        /\ loads' = loads /\ tabs' = [tabs EXCEPT ![c.tab] = Answered(@, c)]
    BY <1>2 DEF LoginAnswered, Arrives
  <2> QED
    BY <2>1, ToldKeeps
<1> QED
  BY <1>1, <1>2

\* The tab is signed out by the answer, and knows it unless the session was only expired.
LEMMA ClosedKeeps ==
    ASSUME SessionInv, NEW c \in submits, NEW sid \in 0..MaxSessions,
           NEW left \in BOOLEAN, NEW sure \in BOOLEAN, sure => sid = 0,
           cookie' = sid, submits' = submits \ {c}, UNCHANGED <<owner, temporary, budget>>,
           NEW a,
           a = IF left
               THEN [clearSession(Answered(Found(c, sid), c)) EXCEPT !.discard = TRUE,
                                                  !.leftBy = "logout", !.known = TRUE]
               ELSE [clearSession(Answered(Found(c, sid), c)) EXCEPT !.known = sure],
           left => sure,
           tabs' = [(IF sid # cookie THEN Outdated ELSE tabs) EXCEPT ![c.tab] = Guarded(a)],
           loads' = IF sid # cookie THEN OutdatedLoads ELSE loads
    PROVE  SessionInv' /\ TabsMove
<1> DEFINE t == c.tab
<1>1. PICK f : f = Answered(Found(c, sid), c)
  OBVIOUS
<1>2. /\ t \in Tabs /\ tabs[t] \in TabType /\ f \in TabType /\ TabRule(tabs[t])
      /\ ~tabs[t].loading /\ Keeps(tabs[t], f) /\ f.generation = tabs[t].generation
  BY <1>1, FoundTab, AnsweredTab DEF Keeps
<1>3. PICK x : x = clearSession(f)
  OBVIOUS
<1>4. /\ x \in TabType /\ x.user = NoOne /\ x.failed = FALSE /\ x.loading = f.loading
      /\ x.path = f.path /\ x.discard = f.discard /\ x.leftBy = f.leftBy
      /\ x.generation = f.generation + 1
  <2>1. x = [f EXCEPT !.generation = @ + 1, !.user = NoOne, !.failed = FALSE]
    BY <1>2, <1>3 DEF clearSession, NextGeneration, TabType
  <2>2. f.generation + 1 \in Nat \ {0} /\ NoOne \in UserType
    BY <1>2 DEF TabType, UserType
  <2> QED
    BY <1>2, <2>1, <2>2 DEF TabType
<1>5. /\ a \in TabType /\ a.user = NoOne /\ ~a.loading /\ ~a.failed /\ a.known = sure
      /\ a.path = tabs[t].path /\ a.generation = tabs[t].generation + 1
      /\ a.leftBy = "logout" => a.discard
      /\ tabs[t].leftBy = "logout" => a.path = "/login" /\ a.discard
  <2>1. CASE left
    <3>1. a = [x EXCEPT !.discard = TRUE, !.leftBy = "logout", !.known = TRUE]
      BY <1>1, <1>3, <2>1
    <3>2. a \in TabType
      BY <1>4, <3>1 DEF TabType
    <3>3. /\ a.user = x.user /\ a.loading = x.loading /\ a.failed = x.failed
          /\ a.path = x.path /\ a.generation = x.generation /\ a.discard = TRUE
          /\ a.leftBy = "logout" /\ a.known = TRUE
      BY <1>4, <3>1 DEF TabType
    <3>4. f.loading = tabs[t].loading /\ f.path = tabs[t].path
      BY <1>2 DEF Keeps
    <3>5. tabs[t].leftBy = "logout" => tabs[t].path = "/login"
      BY <1>2 DEF TabRule
    <3> QED
      BY <1>2, <1>4, <2>1, <3>2, <3>3, <3>4, <3>5
  <2>2. CASE ~left
    <3>1. a = [x EXCEPT !.known = sure]
      BY <1>1, <1>3, <2>2
    <3>2. a \in TabType
      BY <1>4, <3>1 DEF TabType
    <3>3. /\ a.user = x.user /\ a.loading = x.loading /\ a.failed = x.failed
          /\ a.path = x.path /\ a.generation = x.generation /\ a.discard = x.discard
          /\ a.leftBy = x.leftBy /\ a.known = sure
      BY <1>4, <3>1 DEF TabType
    <3>4. /\ f.loading = tabs[t].loading /\ f.path = tabs[t].path
          /\ f.discard = tabs[t].discard /\ f.leftBy = tabs[t].leftBy
      BY <1>2 DEF Keeps
    <3>5. tabs[t].leftBy = "logout" => tabs[t].path = "/login" /\ tabs[t].discard
      BY <1>2 DEF TabRule
    <3> QED
      BY <1>2, <1>4, <3>2, <3>3, <3>4, <3>5
  <2> QED
    BY <2>1, <2>2
<1>6. PICK b : b = Guarded(a)
  OBVIOUS
<1>7. /\ b \in TabType /\ b.user = NoOne /\ ~b.loading /\ b.known = sure
      /\ b.generation = tabs[t].generation + 1
  BY <1>5, <1>6, GuardKeeps
<1>8. b.path = "/login" /\ b.discard = a.discard /\ b.leftBy = a.leftBy
  BY <1>5, <1>6, GuestIsSent
<1>9. TabRule(b) /\ Moves(tabs[t], b)
  BY <1>5, <1>7, <1>8 DEF TabRule, Moves
<1>10. b.known => b.user.id = SignedIn'
  BY <1>7 DEF SignedIn, OwnerOf, NoOne
<1>11. tabs' = [(IF sid # cookie THEN Outdated ELSE tabs) EXCEPT ![c.tab] = b]
  BY <1>6
<1>12. loads' = {} \cup IF sid # cookie THEN OutdatedLoads ELSE loads
  OBVIOUS
<1>13. b.loading => tabs[t].loading
  BY <1>7
<1> QED
  BY <1>7, <1>9, <1>10, <1>11, <1>12, <1>13, AnswerTurns

LEMMA LogoutAnsweredKeeps ==
    ASSUME SessionInv, NEW c \in submits, LogoutAnswered(c)
    PROVE  SessionInv' /\ TabsMove
<1>1. CASE c.answer = "ok"
  <2>1. 0 \in 0..MaxSessions
    BY WebSessionAssumption
  <2>2. PICK a : a = [clearSession(Answered(Found(c, 0), c)) EXCEPT !.discard = TRUE,
                                                  !.leftBy = "logout", !.known = TRUE]
    OBVIOUS
  <2>3. (IF 0 # cookie THEN Outdated ELSE tabs)[c.tab] = Found(c, 0)
    BY <2>1, FoundTab
  <2>4. /\ cookie' = 0 /\ submits' = submits \ {c} /\ UNCHANGED <<owner, temporary, budget>>
        /\ loads' = IF 0 # cookie THEN OutdatedLoads ELSE loads
    BY <1>1 DEF LogoutAnswered, Arrives
  <2>5. tabs' = [(IF 0 # cookie THEN Outdated ELSE tabs) EXCEPT ![c.tab] = Guarded(a)]
    BY <1>1, <2>2, <2>3 DEF LogoutAnswered, Arrives
  <2> QED
    BY <2>1, <2>2, <2>4, <2>5, ClosedKeeps
<1>2. CASE c.answer # "ok"
  <2>1. /\ cookie' = cookie /\ submits' = submits \ {c} /\ UNCHANGED <<owner, temporary, budget>>
        /\ loads' = loads /\ tabs' = [tabs EXCEPT ![c.tab] = Answered(@, c)]
    BY <1>2 DEF LogoutAnswered, Arrives
  <2> QED
    BY <2>1, ToldKeeps
<1> QED
  BY <1>1, <1>2

LEMMA ProfileAnsweredKeeps ==
    ASSUME SessionInv, NEW c \in submits, ProfileAnswered(c)
    PROVE  SessionInv' /\ TabsMove
<1>1. 0 \in 0..MaxSessions /\ cookie \in 0..MaxSessions
  BY WebSessionAssumption DEF SessionInv, SessionShape
<1>2. CASE c.answer = "ok" /\ c.kind = "password"
  <2>1. PICK a : a = [clearSession(Answered(Found(c, 0), c)) EXCEPT !.known = TRUE]
    OBVIOUS
  <2>2. (IF 0 # cookie THEN Outdated ELSE tabs)[c.tab] = Found(c, 0)
    BY <1>1, FoundTab
  <2>3. /\ cookie' = 0 /\ submits' = submits \ {c} /\ UNCHANGED <<owner, temporary, budget>>
        /\ loads' = IF 0 # cookie THEN OutdatedLoads ELSE loads
    BY <1>2 DEF ProfileAnswered, Arrives
  <2>4. tabs' = [(IF 0 # cookie THEN Outdated ELSE tabs) EXCEPT ![c.tab] = Guarded(a)]
    BY <1>2, <2>1, <2>2 DEF ProfileAnswered, Arrives
  <2> QED
    BY <1>1, <2>1, <2>3, <2>4, ClosedKeeps
<1>3. CASE c.answer = "ok" /\ c.kind = "contact"
  <2>1. PICK f : f = Answered(Found(c, cookie), c)
    OBVIOUS
  <2>2. tabs[c.tab] = Found(c, cookie)
    BY DEF Found
  <2>3. /\ cookie' = cookie /\ submits' = submits \ {c} /\ UNCHANGED <<owner, temporary, budget>>
        /\ loads' = {LoadOf(c.tab, 0, cookie)}
                      \cup IF cookie # cookie THEN OutdatedLoads ELSE loads
        /\ tabs' = [(IF cookie # cookie THEN Outdated ELSE tabs)
                      EXCEPT ![c.tab] = NextGeneration(Answered(@, c))]
    BY <1>3 DEF ProfileAnswered, Arrives
  <2>4. tabs' = [(IF cookie # cookie THEN Outdated ELSE tabs) EXCEPT ![c.tab] = NextGeneration(f)]
    BY <2>1, <2>2, <2>3
  <2> QED
    BY <1>1, <2>1, <2>3, <2>4, ReloadKeeps
<1>4. CASE c.answer = "unauthorized"
  <2>1. PICK a : a = [clearSession(Answered(Found(c, cookie), c)) EXCEPT !.known = FALSE]
    OBVIOUS
  <2>2. tabs[c.tab] = Found(c, cookie)
    BY DEF Found
  <2>3. /\ cookie' = cookie /\ submits' = submits \ {c} /\ UNCHANGED <<owner, temporary, budget>>
        /\ loads' = IF cookie # cookie THEN OutdatedLoads ELSE loads
    BY <1>4 DEF ProfileAnswered, Arrives
  <2>4. tabs' = [(IF cookie # cookie THEN Outdated ELSE tabs) EXCEPT ![c.tab] = Guarded(a)]
    BY <1>4, <2>1, <2>2 DEF ProfileAnswered, Arrives
  <2> QED
    BY <1>1, <2>1, <2>3, <2>4, ClosedKeeps
<1>5. CASE c.answer \notin {"ok", "unauthorized"}
  <2>1. /\ cookie' = cookie /\ submits' = submits \ {c} /\ UNCHANGED <<owner, temporary, budget>>
        /\ loads' = loads /\ tabs' = [tabs EXCEPT ![c.tab] = Answered(@, c)]
    BY <1>5 DEF ProfileAnswered, Arrives
  <2> QED
    BY <2>1, ToldKeeps
<1>6. c.answer = "ok" => c.kind \in {"password", "contact"}
  BY DEF ProfileAnswered
<1> QED
  BY <1>2, <1>3, <1>4, <1>5, <1>6

-----------------------------------------------------------------------------
(* The theorem *)

\* The tabs begin with a load each, of the cookie there is.
LEMMA SessionStarts == SessionInit => SessionInv
<1> SUFFICES ASSUME SessionInit PROVE SessionInv
  OBVIOUS
<1>1. PICK a \in Usernames \cup {Nobody} :
        /\ owner = [s \in 1..MaxSessions |-> IF s = 1 THEN a ELSE Nobody]
        /\ cookie = IF a = Nobody THEN 0 ELSE 1
  BY DEF SessionInit
<1>2. /\ cookie \in 0..MaxSessions
      /\ owner \in [1..MaxSessions -> Usernames \cup {Nobody}]
  BY <1>1, WebSessionAssumption
<1>3. ASSUME NEW t \in Tabs
      PROVE  /\ tabs[t] \in TabType /\ tabs[t].loading /\ tabs[t].generation = 1
             /\ ~tabs[t].known /\ tabs[t].leftBy = "none"
  <2>1. PICK p \in FirstPaths :
          tabs[t] = [user |-> NoOne, loading |-> TRUE, failed |-> FALSE,
                     generation |-> 1, path |-> p, from |-> NoPath, discard |-> FALSE,
                     waiting |-> {}, known |-> FALSE, leftBy |-> "none"]
    BY DEF SessionInit
  <2> QED
    BY <2>1, WebSessionAssumption DEF TabType, UserType
<1>4. tabs \in [Tabs -> TabType]
  BY <1>3 DEF SessionInit
<1>5. ASSUME NEW l \in loads
      PROVE  /\ l \in SessionLoadType /\ l.generation = 1 /\ l.clean /\ ReadsTruly(l)
             /\ \E t \in Tabs : l = [tab |-> t, generation |-> 1, submit |-> 0, sid |-> cookie,
                     step |-> "session", user |-> NoOne, lost |-> FALSE, clean |-> TRUE]
  <2>1. PICK t \in Tabs : l = [LoadOf(t, 0, cookie) EXCEPT !.generation = 1]
    BY DEF SessionInit
  <2>2. l = [tab |-> t, generation |-> 1, submit |-> 0, sid |-> cookie,
             step |-> "session", user |-> NoOne, lost |-> FALSE, clean |-> TRUE]
    BY <2>1 DEF LoadOf
  <2> QED
    BY <1>2, <2>2 DEF SessionLoadType, UserType, ReadsTruly
<1>6. SessionShape
  BY <1>2, <1>4, <1>5, WebSessionAssumption DEF SessionInit, SessionShape, BudgetType
<1>7. LoadsTrue
  <2>1. ASSUME NEW l \in loads
        PROVE  l.generation <= tabs[l.tab].generation
    BY <1>3, <1>5, <2>1 DEF SessionLoadType
  <2>2. ASSUME NEW l \in loads, NEW m \in loads, l.tab = m.tab
        PROVE  l = m
    <3>1. PICK t \in Tabs : l = [tab |-> t, generation |-> 1, submit |-> 0, sid |-> cookie,
             step |-> "session", user |-> NoOne, lost |-> FALSE, clean |-> TRUE]
      BY <1>5
    <3>2. PICK u \in Tabs : m = [tab |-> u, generation |-> 1, submit |-> 0, sid |-> cookie,
             step |-> "session", user |-> NoOne, lost |-> FALSE, clean |-> TRUE]
      BY <1>5
    <3>3. l.tab = t /\ m.tab = u
      BY <3>1, <3>2
    <3> QED
      BY <2>2, <3>1, <3>2, <3>3
  <2> QED
    BY <1>5, <2>1, <2>2 DEF LoadsTrue
<1>8. FormsAreUsed /\ KnownUserIsShown /\ \A t \in Tabs : TabRule(tabs[t])
  BY <1>3 DEF SessionInit, FormsAreUsed, KnownUserIsShown, TabRule
<1> QED
  BY <1>6, <1>7, <1>8 DEF SessionInv

\* Every step keeps the invariant and moves the tabs as it may.
LEMMA SessionStep == SessionInv /\ [SessionNext]_sessionVars => SessionInv' /\ TabsMove
<1> SUFFICES ASSUME SessionInv, [SessionNext]_sessionVars PROVE SessionInv' /\ TabsMove
  OBVIOUS
<1>1. ASSUME NEW t \in Tabs,
             \/ Focus(t) \/ SubmitLogout(t)
             \/ \E p \in Links : Visit(t, p)
             \/ \E a \in Usernames : SubmitLogin(t, a)
             \/ \E kind \in {"contact", "password"} : SubmitProfile(t, kind)
      PROVE  SessionInv' /\ TabsMove
  <2>1. tabs[t].user # NoOne => tabs[t].user.id \in Usernames
    BY DEF SessionInv, SessionShape, TabType, UserType
  <2>2. CASE Focus(t)
    BY <2>2, FocusKeeps
  <2>3. CASE SubmitLogout(t)
    BY <2>1, <2>3, SubmitKeeps DEF SubmitLogout
  <2>4. CASE \E p \in Links : Visit(t, p)
    BY <2>4, VisitKeeps
  <2>5. CASE \E a \in Usernames : SubmitLogin(t, a)
    BY <2>5, SubmitKeeps DEF SubmitLogin
  <2>6. CASE \E kind \in {"contact", "password"} : SubmitProfile(t, kind)
    BY <2>1, <2>6, SubmitKeeps DEF SubmitProfile
  <2> QED
    BY <1>1, <2>2, <2>3, <2>4, <2>5, <2>6
<1>2. ASSUME NEW l \in loads, LoadAdvances(l) \/ LoseLoad(l)
      PROVE  SessionInv' /\ TabsMove
  BY <1>2, ReadSessionKeeps, ReadProfileKeeps, LoadSettlesKeeps, LoseLoadKeeps DEF LoadAdvances
<1>3. ASSUME NEW c \in submits, Serves(c) \/ LoseSubmit(c)
      PROVE  SessionInv' /\ TabsMove
  BY <1>3, HandleLoginKeeps, HandleLogoutKeeps, HandleProfileKeeps, LoseSubmitKeeps DEF Serves
<1>4. ASSUME NEW c \in submits, SubmitAnswers(c)
      PROVE  SessionInv' /\ TabsMove
  BY <1>4, LoginAnsweredKeeps, LogoutAnsweredKeeps, ProfileAnsweredKeeps DEF SubmitAnswers
<1>5. CASE UNCHANGED sessionVars
  BY <1>5 DEF sessionVars, SessionInv, SessionShape, LoadsTrue, ReadsTruly, SignedIn, OwnerOf,
              FormsAreUsed, KnownUserIsShown, TabsMove, Moves
<1> QED
  BY <1>1, <1>2, <1>3, <1>4, <1>5, RevokeKeeps DEF SessionNext

\* A tab that knows who is signed in shows that user, whatever answers come late: generations
\* keep them apart, and what changes the session outdates what was read before.  A user
\* who leaves the login page is at a page of the role, and after a logout at a home page.
THEOREM SessionStaysTrue == SessionSpec => SessionIsShown
<1>1. SessionInv => SessionTypeOK /\ KnownUserIsShown
  BY DEF SessionInv, SessionShape, SessionTypeOK, LoadsTrue, TabType, UserType, NoOne,
         SessionLoadType, SubmitType
<1>2. TabsMove =>
        \A t \in Tabs :
          LET tab == tabs'[t]
              role == RoleOf[tab.user.id]
          IN  tabs[t].path = "/login" /\ tab.path # "/login" =>
                  /\ isPathAllowedForRole(tab.path, role)
                  /\ tab.user.must => tab.path = ProfilePath(role)
  BY DEF TabsMove, Moves
<1>3. TabsMove =>
        \A t \in Tabs :
          LET role == RoleOf[tabs'[t].user.id]
          IN  tabs[t].leftBy = "logout" /\ tabs'[t].path # tabs[t].path =>
                  tabs'[t].path \in {"/login", ProfilePath(role), defaultPathForRole(role)}
  BY DEF TabsMove, Moves
<1> QED
  BY <1>1, <1>2, <1>3, SessionStarts, SessionStep, PTL
     DEF SessionSpec, SessionIsShown, LandingIsAllowed, LogoutForgetsTheScreen
=============================================================================
