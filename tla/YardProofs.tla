----------------------------- MODULE YardProofs -----------------------------
(***************************************************************************)
(* What the yard prototype keeps, whatever the order of its commands: the  *)
(* holds and the stock, and the tree of pieces.                            *)
(***************************************************************************)
EXTENDS Yard, SumLemmas, SequenceTheorems, TLAPS

---------------------------------------------------------------------------
(* Counting up, and functions defined by it                                *)

\* What holds at 0, and at m + 1 when it holds at m, holds up to n.
LEMMA CountingUp ==
    ASSUME NEW n \in Nat, NEW P, 0 \in P, \A m \in 0..n : m \in P /\ m < n => m + 1 \in P
    PROVE  \A m \in 0..n : m \in P
<1> SUFFICES ASSUME NEW b \in 0..n, b \notin P PROVE FALSE
  OBVIOUS
<1> DEFINE U == {x \in 0..n : x \notin P}
           T == {0..m : m \in U}
<1>1. T \subseteq SUBSET (0..n) /\ T # {}
  OBVIOUS
<1>2. IsFiniteSet(0..n)
  BY FS_Interval
<1>3. PICK s \in T : \A y \in T : y \subseteq s => y = s
  <2> DEFINE N == 0..n
  <2>1. T \subseteq SUBSET N
    BY <1>1
  <2>2. T # {} /\ IsFiniteSet(N)
    BY <1>1, <1>2
  <2> HIDE DEF T, N
  <2> QED BY ONLY <2>1, <2>2, LeastSubset
<1>4. PICK m \in U : s = 0..m
  BY <1>3
<1>5. m \in 0..n /\ m \notin P /\ m # 0
  BY <1>4
<1>6. m - 1 \in 0..n /\ m - 1 < n
  BY <1>5
<1>7. CASE m - 1 \in P
  <2>1. (m - 1) + 1 \in P
    BY <1>6, <1>7
  <2> QED BY <1>5, <2>1
<1>8. CASE m - 1 \notin P
  <2>1. 0..(m - 1) \in T
    BY <1>6, <1>8
  <2>2. 0..(m - 1) \subseteq s /\ m \in s /\ m \notin 0..(m - 1)
    BY <1>4, <1>5
  <2> QED BY <1>3, <2>1, <2>2
<1> QED BY <1>7, <1>8

\* A function on 0..n that starts with b and goes on with g.
Iterates(f, n, b, g) == f[0] = b /\ \A k \in 1..n : f[k] = g[<<k, f[k - 1]>>]

\* A function on 0..n defined step by step exists: the library's induction takes an operator.
LEMMA IterationExists ==
    ASSUME NEW n \in Nat, NEW V, NEW b \in V, NEW g \in [(1..n) \X V -> V]
    PROVE  \E f \in [0..n -> V] : Iterates(f, n, b, g)
<1> DEFINE P == {m \in 0..n : \E f \in [0..m -> V] : Iterates(f, m, b, g)}
<1>1. 0 \in P
  <2>1. [k \in 0..0 |-> b] \in [0..0 -> V] /\ Iterates([k \in 0..0 |-> b], 0, b, g)
    BY DEF Iterates
  <2> QED BY <2>1
<1>2. \A m \in 0..n : m \in P /\ m < n => m + 1 \in P
  <2> TAKE m \in 0..n
  <2> HAVE m \in P /\ m < n
  <2>1. PICK f \in [0..m -> V] : Iterates(f, m, b, g)
    OBVIOUS
  <2> DEFINE h == [k \in 0..(m + 1) |-> IF k = m + 1 THEN g[<<m + 1, f[m]>>] ELSE f[k]]
  <2>2. <<m + 1, f[m]>> \in (1..n) \X V
    OBVIOUS
  <2>3. g[<<m + 1, f[m]>>] \in V
    BY <2>2
  <2>4. h \in [0..(m + 1) -> V]
    BY <2>3
  <2>5. h[0] = b
    BY <2>1 DEF Iterates
  <2>6. ASSUME NEW k \in 1..(m + 1) PROVE h[k] = g[<<k, h[k - 1]>>]
    <3>1. CASE k = m + 1
      <4>1. k \in 0..(m + 1) /\ k - 1 \in 0..(m + 1) /\ k - 1 = m /\ m # m + 1
        BY <3>1
      <4>2. h[k] = g[<<m + 1, f[m]>>] /\ h[k - 1] = f[m]
        BY <3>1, <4>1
      <4> QED BY <3>1, <4>2
    <3>2. CASE k # m + 1
      <4>1. k \in 1..m /\ k - 1 \in 0..m /\ k # m + 1 /\ k - 1 # m + 1
        BY <3>2
      <4>2. f[k] = g[<<k, f[k - 1]>>]
        BY <2>1, <4>1 DEF Iterates
      <4>3. h[k] = f[k] /\ h[k - 1] = f[k - 1]
        BY <4>1
      <4> HIDE DEF h
      <4> QED BY <4>2, <4>3
    <3> QED BY <3>1, <3>2
  <2>7. Iterates(h, m + 1, b, g)
    <3> HIDE DEF h
    <3> QED BY <2>5, <2>6 DEF Iterates
  <2> HIDE DEF h
  <2> QED BY <2>4, <2>7
<1>3. n \in P
  <2> HIDE DEF P
  <2> QED BY <1>1, <1>2, CountingUp
<1> QED BY <1>3

---------------------------------------------------------------------------
(* Largest and least numbers, sets in sequence                             *)

\* The fold behind Max ends at the largest element.
LEMMA LargestIs ==
    ASSUME NEW S, S \subseteq Nat, S # {}, IsFiniteSet(S)
    PROVE  Max(S) \in S /\ \A x \in S : Max(S) >= x
<1> DEFINE T == {{y \in S : y >= x} : x \in S}
<1>1. T \subseteq SUBSET S /\ T # {}
  OBVIOUS
<1>2. PICK s \in T : \A y \in T : y \subseteq s => y = s
  <2>1. T \subseteq SUBSET S
    BY <1>1
  <2>2. T # {} /\ IsFiniteSet(S)
    BY <1>1
  <2> HIDE DEF T
  <2> QED BY ONLY <2>1, <2>2, LeastSubset
<1>3. PICK m \in S : s = {y \in S : y >= m}
  BY <1>2
<1>4. ASSUME NEW x \in S PROVE m >= x
  <2>1. CASE x > m
    <3>1. {y \in S : y >= x} \in T
      OBVIOUS
    <3>2. ASSUME NEW y \in S, y >= x PROVE y >= m
      BY <2>1, <3>2
    <3>3. {y \in S : y >= x} \subseteq s
      BY <1>3, <3>2
    <3>4. m \in s /\ m \notin {y \in S : y >= x}
      BY <1>3, <2>1
    <3> QED BY <1>2, <3>1, <3>4, <3>3
  <2> QED BY <2>1
<1> QED BY <1>4 DEF Max

\* The fold behind Min ends at the least element.
LEMMA LeastIs ==
    ASSUME NEW S, S \subseteq Nat, S # {}, IsFiniteSet(S)
    PROVE  Min(S) \in S /\ \A x \in S : Min(S) <= x
<1> DEFINE T == {{y \in S : y <= x} : x \in S}
<1>1. T \subseteq SUBSET S /\ T # {}
  OBVIOUS
<1>2. PICK s \in T : \A y \in T : y \subseteq s => y = s
  <2>1. T \subseteq SUBSET S
    BY <1>1
  <2>2. T # {} /\ IsFiniteSet(S)
    BY <1>1
  <2> HIDE DEF T
  <2> QED BY ONLY <2>1, <2>2, LeastSubset
<1>3. PICK m \in S : s = {y \in S : y <= m}
  BY <1>2
<1>4. ASSUME NEW x \in S PROVE m <= x
  <2>1. CASE x < m
    <3>1. {y \in S : y <= x} \in T
      OBVIOUS
    <3>2. ASSUME NEW y \in S, y <= x PROVE y <= m
      BY <2>1, <3>2
    <3>3. {y \in S : y <= x} \subseteq s
      BY <1>3, <3>2
    <3>4. m \in s /\ m \notin {y \in S : y <= x}
      BY <1>3, <2>1
    <3> QED BY <1>2, <3>1, <3>4, <3>3
  <2> QED BY <2>1
<1> QED BY <1>4 DEF Min

\* The sequence of a finite set has every element, at one place.
LEMMA SequenceOfSet ==
    ASSUME NEW S, IsFiniteSet(S)
    PROVE  /\ SetToSeq(S) \in Seq(S)
           /\ Range(SetToSeq(S)) = S
           /\ \A j, k \in DOMAIN SetToSeq(S) : SetToSeq(S)[j] = SetToSeq(S)[k] => j = k
<1> DEFINE n == Cardinality(S)  f == SetToSeq(S)
<1>1. n \in Nat /\ ExistsBijection(1..n, S)
  BY FS_CardinalityType
<1>2. \E g \in [1..n -> S] : IsInjective(g)
  BY <1>1 DEF ExistsBijection, Bijection, Injection
<1>3. f \in [1..n -> S] /\ IsInjective(f)
  BY <1>2 DEF SetToSeq
<1>4. f \in Seq(S)
  BY <1>1, <1>3
<1>5. f \in Injection(1..n, S)
  BY <1>3 DEF Injection
<1>6. Cardinality(1..n) = n
  BY <1>1, FS_Interval
<1> HIDE DEF f
<1>7. f \in Surjection(1..n, S)
  BY <1>5, <1>6, FS_Injection DEF n
<1>8. Range(f) = S
  BY <1>3, <1>7 DEF Surjection, Range
<1>9. \A j, k \in DOMAIN f : f[j] = f[k] => j = k
  BY <1>3 DEF IsInjective
<1> QED BY <1>4, <1>8, <1>9 DEF f

\* One entry more.
LEMMA AppendIs ==
    ASSUME NEW T, NEW s \in Seq(T), NEW x \in T
    PROVE  Append(s, x) \in Seq(T) /\ Range(Append(s, x)) = Range(s) \cup {x}
<1> DEFINE last == <<x>>
<1>1. Append(s, x) = s \o last /\ Append(s, x) \in Seq(T)
  BY AppendIsConcat, AppendProperties
<1>2. last \in Seq(T) /\ Range(last) = {x}
  BY DEF Range
<1> HIDE DEF last
<1>3. Range(s \o last) = Range(s) \cup Range(last)
  BY <1>2, RangeConcatenation
<1> QED BY <1>1, <1>2, <1>3

\* What stays when some entries are removed is a sequence of the others.
LEMMA RemainingIs ==
    ASSUME NEW T, NEW s \in Seq(T), NEW gone
    PROVE  /\ Remaining(s, gone) \in Seq(T)
           /\ Range(Remaining(s, gone)) = Range(s) \ gone
<1> DEFINE n == Len(s)
           Kept(f) == f = [k \in 0..n |->
                             IF k = 0 THEN <<>>
                             ELSE IF s[k] \in gone THEN f[k - 1] ELSE Append(f[k - 1], s[k])]
           g == [p \in (1..n) \X Seq(T) |-> IF s[p[1]] \in gone THEN p[2] ELSE Append(p[2], s[p[1]])]
           it == CHOOSE f : Kept(f)
<1>1. n \in Nat /\ \A k \in 1..n : s[k] \in T
  BY ElementOfSeq, LenProperties
<1>2. {s[j] : j \in 1..n} = Range(s)
  BY RangeEquality
<1>3. Remaining(s, gone) = it[n]
  BY DEF Remaining
<1> HIDE DEF n
<1>4. \E f : Kept(f)
  <2>1. <<>> \in Seq(T)
    OBVIOUS
  <2>2. ASSUME NEW k \in 1..n, NEW q \in Seq(T) PROVE Append(q, s[k]) \in Seq(T)
    BY <1>1, AppendProperties
  <2>3. g \in [(1..n) \X Seq(T) -> Seq(T)]
    BY <2>2
  <2>4. PICK f \in [0..n -> Seq(T)] : Iterates(f, n, <<>>, g)
    <3> HIDE DEF g, n
    <3> QED BY <1>1, <2>1, <2>3, IterationExists
  <2>5. ASSUME NEW k \in 1..n
        PROVE  f[k] = IF s[k] \in gone THEN f[k - 1] ELSE Append(f[k - 1], s[k])
    <3>1. f[k] = g[<<k, f[k - 1]>>]
      BY <2>4 DEF Iterates
    <3>2. k - 1 \in 0..n
      BY <1>1
    <3>3. <<k, f[k - 1]>> \in (1..n) \X Seq(T)
      BY <3>2
    <3> QED BY <3>1, <3>3
  <2>6. ASSUME NEW k \in 0..n
        PROVE  f[k] = IF k = 0 THEN <<>>
                      ELSE IF s[k] \in gone THEN f[k - 1] ELSE Append(f[k - 1], s[k])
    <3>1. CASE k = 0
      BY <2>4, <3>1 DEF Iterates
    <3>2. CASE k # 0
      <4>1. k \in 1..n
        BY <1>1, <3>2
      <4> QED BY <2>5, <3>2, <4>1
    <3> QED BY <3>1, <3>2
  <2>7. Kept(f)
    BY <2>6
  <2> HIDE DEF Kept
  <2> QED BY <2>7
<1>5. Kept(it)
  <2> HIDE DEF Kept
  <2> QED BY <1>4
<1> HIDE DEF it
<1>6. \A k \in 0..n : it[k] = IF k = 0 THEN <<>>
                               ELSE IF s[k] \in gone THEN it[k - 1] ELSE Append(it[k - 1], s[k])
  BY <1>5
<1> HIDE DEF Kept
<1> DEFINE P == {m \in 0..n : it[m] \in Seq(T) /\ Range(it[m]) = {s[j] : j \in 1..m} \ gone}
<1>7. 0 \in P
  <2>1. it[0] = <<>> /\ 0 \in 0..n
    BY <1>1, <1>6
  <2>2. <<>> \in Seq(T) /\ Range(<<>>) = {}
    BY DEF Range
  <2>3. {s[j] : j \in 1..0} = {}
    OBVIOUS
  <2> QED BY <2>1, <2>2, <2>3
<1>8. \A m \in 0..n : m \in P /\ m < n => m + 1 \in P
  <2> TAKE m \in 0..n
  <2> HAVE m \in P /\ m < n
  <2>1. m + 1 \in 0..n /\ m + 1 \in 1..n /\ (m + 1) - 1 = m /\ m \in Nat /\ m + 1 # 0
    BY <1>1
  <2>2. it[m + 1] = IF s[m + 1] \in gone THEN it[m] ELSE Append(it[m], s[m + 1])
    BY <1>6, <2>1
  <2>3. {s[j] : j \in 1..(m + 1)} = {s[j] : j \in 1..m} \cup {s[m + 1]}
    BY <2>1
  <2>4. s[m + 1] \in T
    BY <1>1, <2>1
  <2>5. CASE s[m + 1] \in gone
    <3>1. it[m + 1] = it[m]
      BY <2>2, <2>5
    <3> QED BY <2>1, <2>3, <2>5, <3>1
  <2>6. CASE s[m + 1] \notin gone
    <3>1. it[m + 1] = Append(it[m], s[m + 1])
      BY <2>2, <2>6
    <3>2. it[m] \in Seq(T)
      OBVIOUS
    <3>3. Append(it[m], s[m + 1]) \in Seq(T) /\ Range(Append(it[m], s[m + 1])) = Range(it[m]) \cup {s[m + 1]}
      BY <2>4, <3>2, AppendIs
    <3> QED BY <2>1, <2>3, <2>6, <3>1, <3>3
  <2> QED BY <2>5, <2>6
<1>9. n \in P
  <2>1. n \in Nat /\ n \in 0..n
    BY <1>1
  <2> HIDE DEF P
  <2>2. \A m \in 0..n : m \in P
    BY ONLY <2>1, <1>7, <1>8, CountingUp
  <2> QED BY <2>1, <2>2
<1> QED BY <1>3, <1>9, <1>2

\* An entry that is not the one removed stays.
LEMMA OneRemoved ==
    ASSUME NEW T, NEW s \in Seq(T), NEW i \in DOMAIN s
    PROVE  /\ RemoveAt(s, i) \in Seq(T)
           /\ Range(RemoveAt(s, i)) = {s[j] : j \in DOMAIN s \ {i}}
<1>1. Len(s) \in Nat /\ DOMAIN s = 1..Len(s) /\ \A j \in 1..Len(s) : s[j] \in T
  BY ElementOfSeq, LenProperties
<1> DEFINE a == SubSeq(s, 1, i - 1)  b == SubSeq(s, i + 1, Len(s))
<1>2. /\ a \in Seq(T) /\ Len(a) = i - 1
      /\ \A j \in 1..(i - 1) : a[j] = s[j]
  BY <1>1, SubSeqProperties
<1>3. /\ b \in Seq(T) /\ Len(b) = Len(s) - i
      /\ \A j \in 1..(Len(s) - i) : b[j] = s[i + j]
  <2>1. \A j \in (i + 1)..Len(s) : s[j] \in T
    BY <1>1
  <2>2. i + 1 \in Int /\ Len(s) \in Int
    BY <1>1
  <2>3. /\ b \in Seq(T)
        /\ Len(b) = IF i + 1 <= Len(s) THEN Len(s) - (i + 1) + 1 ELSE 0
        /\ \A j \in 1..(Len(s) - (i + 1) + 1) : b[j] = s[(i + 1) + j - 1]
    BY <2>1, <2>2, SubSeqProperties
  <2> HIDE DEF b
  <2>4. Len(s) - (i + 1) + 1 = Len(s) - i /\ i <= Len(s)
    BY <1>1
  <2>5. \A j \in 1..(Len(s) - i) : (i + 1) + j - 1 = i + j
    BY <1>1
  <2> QED BY <1>1, <2>3, <2>4, <2>5
<1> HIDE DEF a, b
<1>4. a \o b \in Seq(T) /\ Range(a \o b) = Range(a) \cup Range(b)
  BY <1>2, <1>3, RangeConcatenation, ConcatProperties
<1>5. Range(a) = {s[j] : j \in 1..(i - 1)}
  BY <1>1, <1>2 DEF Range
<1>6. Range(b) = {s[j] : j \in (i + 1)..Len(s)}
  <2>1. DOMAIN b = 1..(Len(s) - i)
    BY <1>3
  <2>2. \A j \in (i + 1)..Len(s) : j - i \in 1..(Len(s) - i) /\ b[j - i] = s[j]
    BY <1>1, <1>3
  <2>3. \A j \in 1..(Len(s) - i) : i + j \in (i + 1)..Len(s) /\ b[j] = s[i + j]
    BY <1>1, <1>3
  <2>4. Range(b) = {b[j] : j \in 1..(Len(s) - i)}
    BY <2>1 DEF Range
  <2>5. ASSUME NEW x \in Range(b) PROVE x \in {s[j] : j \in (i + 1)..Len(s)}
    BY <2>3, <2>4
  <2>6. ASSUME NEW j \in (i + 1)..Len(s) PROVE s[j] \in Range(b)
    BY <2>2, <2>4
  <2> QED BY <2>5, <2>6
<1>7. DOMAIN s \ {i} = (1..(i - 1)) \cup ((i + 1)..Len(s))
  BY <1>1
<1> QED BY <1>4, <1>5, <1>6, <1>7 DEF RemoveAt, a, b

---------------------------------------------------------------------------
(* The tree                                                                *)

\* A finite forest of records, each under another one of it or under none.
Rooted(its) ==
    /\ IsFiniteSet(DOMAIN its) /\ NoItem \notin DOMAIN its
    /\ \A i \in DOMAIN its : its[i].parent \in DOMAIN its \cup {NoItem}

\* The parents of a set of pieces.
Over(its, A) == {its[a].parent : a \in A} \ {NoItem}

\* The walk upwards, one level more at each step.
Levels(its, i, n, f) ==
    f = [k \in 0..n |-> IF k = 0 THEN {its[i].parent} \ {NoItem}
                        ELSE f[k - 1] \cup ({its[a].parent : a \in f[k - 1]} \ {NoItem})]

\* The walk ends at level n, and each level adds the parents of the one before.
EndsWalk(its, i, n, f) ==
    /\ ancestorChain(its, i) = f[n]
    /\ f[0] = {its[i].parent} \ {NoItem}
    /\ \A k \in 1..n : f[k] = f[k - 1] \cup Over(its, f[k - 1])

\* The recursive function of ancestorChain is a walk with these levels.
LEMMA LevelsExist ==
    ASSUME NEW its, Rooted(its), NEW i \in DOMAIN its
    PROVE  \E f : EndsWalk(its, i, Cardinality(DOMAIN its), f)
<1> DEFINE n == Cardinality(DOMAIN its)
           V == SUBSET DOMAIN its
           b == {its[i].parent} \ {NoItem}
           g == [p \in (1..n) \X V |-> p[2] \cup Over(its, p[2])]
           it == CHOOSE f : Levels(its, i, n, f)
<1>1. ancestorChain(its, i) = it[n]
  BY DEF ancestorChain, Levels
<1>2. n \in Nat
  BY FS_CardinalityType DEF Rooted
<1>3. b \in V /\ \A A \in V : A \cup Over(its, A) \in V
  BY DEF Rooted, Over
<1> HIDE DEF n, b
<1>4. \E f : Levels(its, i, n, f)
  <2>1. g \in [(1..n) \X V -> V]
    BY <1>3
  <2>2. PICK f \in [0..n -> V] : Iterates(f, n, b, g)
    <3> HIDE DEF g, V
    <3> QED BY <1>2, <1>3, <2>1, IterationExists
  <2>3. ASSUME NEW k \in 1..n PROVE f[k] = f[k - 1] \cup Over(its, f[k - 1])
    <3>1. f[k] = g[<<k, f[k - 1]>>]
      BY <2>2 DEF Iterates
    <3>2. k - 1 \in 0..n
      BY <1>2
    <3>3. <<k, f[k - 1]>> \in (1..n) \X V
      BY <3>2
    <3> QED BY <3>1, <3>3
  <2>4. ASSUME NEW k \in 0..n
        PROVE  f[k] = IF k = 0 THEN {its[i].parent} \ {NoItem}
                      ELSE f[k - 1] \cup ({its[a].parent : a \in f[k - 1]} \ {NoItem})
    <3>1. CASE k = 0
      BY <2>2, <3>1 DEF Iterates, b
    <3>2. CASE k # 0
      <4>1. k \in 1..n
        BY <1>2, <3>2
      <4> QED BY <2>3, <3>2, <4>1 DEF Over
    <3> QED BY <3>1, <3>2
  <2>5. Levels(its, i, n, f)
    BY <2>4 DEF Levels
  <2> QED BY <2>5
<1>5. Levels(its, i, n, it)
  BY <1>4
<1> HIDE DEF it
<1>6. it[0] = {its[i].parent} \ {NoItem}
  BY <1>2, <1>5 DEF Levels
<1>7. ASSUME NEW k \in 1..n PROVE it[k] = it[k - 1] \cup Over(its, it[k - 1])
  <2>1. k \in 0..n /\ k # 0
    BY <1>2
  <2> QED BY <1>5, <2>1 DEF Levels, Over
<1>8. EndsWalk(its, i, n, it)
  BY <1>1, <1>6, <1>7 DEF EndsWalk
<1> QED BY <1>8 DEF n

\* What the walk visits: the parent, the parent of whatever is visited, and no more than any
\* set with these two has.  With one level for each piece nothing is left to visit.
LEMMA ChainIs ==
    ASSUME NEW its, Rooted(its), NEW i \in DOMAIN its
    PROVE  /\ ancestorChain(its, i) \subseteq DOMAIN its
           /\ its[i].parent \in ancestorChain(its, i) \cup {NoItem}
           /\ \A a \in ancestorChain(its, i) : its[a].parent \in ancestorChain(its, i) \cup {NoItem}
           /\ \A C : /\ its[i].parent \in C \cup {NoItem}
                     /\ \A c \in C \cap DOMAIN its : its[c].parent \in C \cup {NoItem}
                     => ancestorChain(its, i) \subseteq C
<1> DEFINE D == DOMAIN its  n == Cardinality(D)
<1>1. PICK f : EndsWalk(its, i, n, f)
  BY LevelsExist
<1>2. /\ ancestorChain(its, i) = f[n]
      /\ f[0] = {its[i].parent} \ {NoItem}
      /\ \A k \in 1..n : f[k] = f[k - 1] \cup Over(its, f[k - 1])
  BY <1>1 DEF EndsWalk
<1>3. IsFiniteSet(D) /\ n \in Nat
  BY FS_CardinalityType DEF Rooted
<1>4. \A A : A \subseteq D => Over(its, A) \subseteq D
  BY DEF Over, Rooted
<1>5. f[0] \subseteq D
  BY <1>2 DEF Rooted
<1> HIDE DEF D, n
<1> DEFINE P == {m \in 0..n : /\ f[m] \subseteq D
                              /\ f[0] \subseteq f[m]
                              /\ Over(its, f[m]) \subseteq f[m] \/ Cardinality(f[m]) > m}
<1>6. 0 \in P
  <2>1. CASE f[0] = {}
    BY <1>3, <1>5, <2>1 DEF Over
  <2>2. CASE f[0] # {}
    <3>1. IsFiniteSet(f[0])
      BY <1>3, <1>5, FS_Subset
    <3>2. Cardinality(f[0]) \in Nat /\ Cardinality(f[0]) # 0
      BY <2>2, <3>1, FS_CardinalityType, FS_EmptySet
    <3> QED BY <1>3, <1>5, <3>2
  <2> QED BY <2>1, <2>2
<1>7. \A m \in 0..n : m \in P /\ m < n => m + 1 \in P
  <2> TAKE m \in 0..n
  <2> HAVE m \in P /\ m < n
  <2>1. m + 1 \in 0..n /\ m + 1 \in 1..n /\ (m + 1) - 1 = m
    BY <1>3
  <2>2. f[m + 1] = f[m] \cup Over(its, f[m])
    BY <1>2, <2>1
  <2>3. f[m + 1] \subseteq D /\ f[0] \subseteq f[m + 1] /\ f[m] \subseteq D
    BY <1>4, <2>2
  <2>4. CASE Over(its, f[m]) \subseteq f[m]
    <3>1. f[m + 1] = f[m]
      BY <2>2, <2>4
    <3> QED BY <2>1, <2>3, <2>4, <3>1
  <2>5. CASE ~(Over(its, f[m]) \subseteq f[m])
    <3>1. PICK x \in Over(its, f[m]) : x \notin f[m]
      BY <2>5
    <3>2. Cardinality(f[m]) > m
      BY <2>5
    <3>3. IsFiniteSet(f[m]) /\ IsFiniteSet(f[m + 1])
      BY <1>3, <2>3, FS_Subset
    <3>4. Cardinality(f[m] \cup {x}) = Cardinality(f[m]) + 1
      BY <3>1, <3>3, FS_AddElement
    <3>5. f[m] \cup {x} \in SUBSET f[m + 1]
      BY <2>2, <3>1
    <3>6. Cardinality(f[m] \cup {x}) <= Cardinality(f[m + 1])
      BY <3>3, <3>5, FS_Subset
    <3>7. Cardinality(f[m]) \in Nat /\ Cardinality(f[m + 1]) \in Nat
      BY <3>3, FS_CardinalityType
    <3>8. Cardinality(f[m + 1]) > m + 1
      BY <1>3, <3>2, <3>4, <3>6, <3>7
    <3> QED BY <2>1, <2>3, <3>8
  <2> QED BY <2>4, <2>5
<1>8. n \in P
  <2>1. n \in Nat /\ n \in 0..n
    BY <1>3
  <2> HIDE DEF P
  <2>2. \A m \in 0..n : m \in P
    BY ONLY <2>1, <1>6, <1>7, CountingUp
  <2> QED BY <2>1, <2>2
<1>9. f[n] \subseteq D /\ f[0] \subseteq f[n]
  BY <1>8
<1>10. Over(its, f[n]) \subseteq f[n]
  <2>1. Cardinality(f[n]) <= n
    BY <1>3, <1>9, FS_Subset DEF n
  <2>2. Cardinality(f[n]) \in Nat
    BY <1>3, <1>9, FS_Subset, FS_CardinalityType
  <2> QED BY <1>3, <1>8, <2>1, <2>2
<1>11. ASSUME NEW C, its[i].parent \in C \cup {NoItem},
              \A c \in C \cap D : its[c].parent \in C \cup {NoItem}
       PROVE  f[n] \subseteq C
  <2> DEFINE Q == {m \in 0..n : f[m] \subseteq C \cap D}
  <2>1. 0 \in Q
    BY <1>2, <1>3, <1>5, <1>11
  <2>2. \A m \in 0..n : m \in Q /\ m < n => m + 1 \in Q
    <3> TAKE m \in 0..n
    <3> HAVE m \in Q /\ m < n
    <3>1. m + 1 \in 0..n /\ m + 1 \in 1..n /\ (m + 1) - 1 = m
      BY <1>3
    <3>2. f[m + 1] = f[m] \cup Over(its, f[m])
      BY <1>2, <3>1
    <3>3. Over(its, f[m]) \subseteq C
      BY <1>11 DEF Over
    <3>4. Over(its, f[m]) \subseteq D
      BY <1>4
    <3> QED BY <3>1, <3>2, <3>3, <3>4
  <2>3. n \in Q
    <3>1. n \in Nat /\ n \in 0..n
      BY <1>3
    <3> HIDE DEF Q
    <3>2. \A m \in 0..n : m \in Q
      BY ONLY <3>1, <2>1, <2>2, CountingUp
    <3> QED BY <3>1, <3>2
  <2> QED BY <2>3
<1>12. its[i].parent \in f[n] \cup {NoItem}
  BY <1>2, <1>9
<1>13. \A a \in f[n] : its[a].parent \in f[n] \cup {NoItem}
  BY <1>10 DEF Over
<1> QED BY <1>2, <1>9, <1>11, <1>12, <1>13 DEF D

\* No pieces are all under each other: some piece of any set has its parent outside.
NoLoop(its) == \A S \in SUBSET DOMAIN its : S # {} => \E s \in S : its[s].parent \notin S

\* In a forest without loops no walk upwards comes back.
LEMMA NobodyAboveItself ==
    ASSUME NEW its, Rooted(its), NoLoop(its), NEW i \in DOMAIN its
    PROVE  i \notin ancestorChain(its, i)
<1> SUFFICES ASSUME i \in ancestorChain(its, i) PROVE FALSE
  OBVIOUS
<1> DEFINE S == {s \in ancestorChain(its, i) : i \in ancestorChain(its, s)}
<1>1. ancestorChain(its, i) \subseteq DOMAIN its
  BY ChainIs
<1>2. S \in SUBSET DOMAIN its /\ i \in S
  BY <1>1
<1>3. PICK s \in S : its[s].parent \notin S
  <2> HIDE DEF S
  <2> QED BY <1>2 DEF NoLoop
<1> DEFINE p == its[s].parent
<1>4. s \in DOMAIN its /\ i \in ancestorChain(its, s) /\ s \in ancestorChain(its, i)
  BY <1>1
<1>5. p \in ancestorChain(its, i) \cup {NoItem}
  BY <1>4, ChainIs
<1>6. p # NoItem
  <2>1. CASE p = NoItem
    <3>1. ancestorChain(its, s) \subseteq {}
      <4>1. its[s].parent \in {} \cup {NoItem}
        BY <2>1
      <4>2. \A c \in {} \cap DOMAIN its : its[c].parent \in {} \cup {NoItem}
        OBVIOUS
      <4> HIDE DEF p, S
      <4> QED BY <1>4, <4>1, <4>2, ChainIs
    <3> QED BY <1>4, <3>1
  <2> QED BY <2>1
<1>7. p \in DOMAIN its /\ p \in ancestorChain(its, i)
  BY <1>1, <1>5, <1>6
<1>8. p = i \/ i \in ancestorChain(its, p)
  <2> DEFINE C == {p} \cup ancestorChain(its, p)
  <2>1. its[s].parent \in C \cup {NoItem}
    OBVIOUS
  <2>2. \A c \in C \cap DOMAIN its : its[c].parent \in C \cup {NoItem}
    BY <1>7, ChainIs
  <2>3. ancestorChain(its, s) \subseteq C
    <3> HIDE DEF C, p, S
    <3> QED BY <1>4, <2>1, <2>2, ChainIs
  <2> QED BY <1>4, <2>3
<1> QED BY <1>2, <1>3, <1>7, <1>8

\* Taking pieces off leaves a forest.
LEMMA CutKeeps ==
    ASSUME NEW its, Rooted(its), NoLoop(its), NEW new, DOMAIN new = DOMAIN its,
           \A i \in DOMAIN its : new[i].parent \in {its[i].parent, NoItem}
    PROVE  Rooted(new) /\ NoLoop(new)
<1>1. Rooted(new)
  BY DEF Rooted
<1>2. ASSUME NEW S \in SUBSET DOMAIN its, S # {} PROVE \E s \in S : new[s].parent \notin S
  <2>1. PICK s \in S : its[s].parent \notin S
    BY <1>2 DEF NoLoop
  <2>2. NoItem \notin S
    BY DEF Rooted
  <2> QED BY <2>1, <2>2
<1> QED BY <1>1, <1>2 DEF NoLoop

\* So does putting a loose piece under one that is not below it.
LEMMA PutKeeps ==
    ASSUME NEW its, Rooted(its), NoLoop(its), NEW i \in DOMAIN its, NEW dest \in DOMAIN its,
           its[i].parent = NoItem, dest \notin Unit(its, i),
           NEW new, DOMAIN new = DOMAIN its, new[i].parent = dest,
           \A j \in DOMAIN its \ {i} : new[j].parent = its[j].parent
    PROVE  Rooted(new) /\ NoLoop(new)
<1>1. Rooted(new)
  BY DEF Rooted
<1>2. dest # i /\ i \notin ancestorChain(its, dest)
  BY DEF Unit, collectSubtree
<1>3. NoItem \notin DOMAIN its
  BY DEF Rooted
<1>4. ASSUME NEW S \in SUBSET DOMAIN its, S # {}, \A s \in S : new[s].parent \in S PROVE FALSE
  <2>1. i \in S
    <3>1. CASE i \notin S
      <4>1. \A s \in S : its[s].parent \in S
        BY <1>4, <3>1
      <4> QED BY <1>4, <4>1 DEF NoLoop
    <3> QED BY <3>1
  <2>2. dest \in S
    BY <1>4, <2>1
  <2> DEFINE T == {dest} \cup ancestorChain(its, dest)
  <2>3. ancestorChain(its, dest) \subseteq S
    <3>1. its[dest].parent \in S \cup {NoItem}
      BY <1>2, <1>4, <2>2
    <3>2. \A c \in S \cap DOMAIN its : its[c].parent \in S \cup {NoItem}
      BY <1>4
    <3> QED BY <3>1, <3>2, ChainIs
  <2>4. T \in SUBSET S /\ i \notin T /\ T # {}
    BY <1>2, <2>2, <2>3
  <2>5. ASSUME NEW t \in T PROVE its[t].parent \in T
    <3>1. its[t].parent \in T \cup {NoItem}
      BY <2>5, ChainIs
    <3>2. its[t].parent = new[t].parent /\ new[t].parent \in S
      BY <1>4, <2>4, <2>5
    <3> QED BY <1>3, <3>1, <3>2
  <2> HIDE DEF T
  <2> QED BY <2>4, <2>5 DEF NoLoop
<1> QED BY <1>1, <1>4 DEF NoLoop

\* So does a new nested group of pieces, under one that is there or under none.
LEMMA AddedKeeps ==
    ASSUME NEW its, Rooted(its), NoLoop(its), NEW st, DOMAIN st \cap DOMAIN its = {},
           IsFiniteSet(DOMAIN st), NoItem \notin DOMAIN st, NEW root \in DOMAIN st,
           st[root].parent \in DOMAIN its \cup {NoItem},
           \A i \in DOMAIN st \ {root} : st[i].parent \in DOMAIN st,
           \A S \in SUBSET (DOMAIN st \ {root}) : S # {} => \E i \in S : st[i].parent \notin S
    PROVE  Rooted(WithArrived(its, st)) /\ NoLoop(WithArrived(its, st))
<1> DEFINE new == WithArrived(its, st)
<1>1. /\ DOMAIN new = DOMAIN its \cup DOMAIN st
      /\ \A i \in DOMAIN its : new[i] = its[i]
      /\ \A i \in DOMAIN st : new[i] = st[i]
  BY DEF WithArrived
<1> HIDE DEF new
<1>2. IsFiniteSet(DOMAIN its \cup DOMAIN st)
  BY FS_Union DEF Rooted
<1>3. Rooted(new)
  BY <1>1, <1>2 DEF Rooted
<1>4. ASSUME NEW S \in SUBSET DOMAIN new, S # {}, \A s \in S : new[s].parent \in S PROVE FALSE
  <2> DEFINE A == S \cap DOMAIN its  B == S \cap DOMAIN st
  <2>1. \A a \in A : its[a].parent \in A
    <3> TAKE a \in A
    <3>1. its[a].parent = new[a].parent /\ its[a].parent \in DOMAIN its \cup {NoItem}
      BY <1>1 DEF Rooted
    <3>2. NoItem \notin S
      BY <1>1 DEF Rooted
    <3> QED BY <1>4, <3>1, <3>2
  <2>2. A = {}
    <3> HIDE DEF A
    <3>1. A \in SUBSET DOMAIN its
      BY DEF A
    <3> QED BY <2>1, <3>1 DEF NoLoop
  <2>3. root \notin B
    <3>1. CASE root \in B
      <4>1. st[root].parent \in S
        BY <1>1, <1>4, <3>1
      <4>2. st[root].parent \in DOMAIN its
        BY <1>1, <4>1 DEF Rooted
      <4> QED BY <2>2, <4>1, <4>2
    <3> QED BY <3>1
  <2>4. B \in SUBSET (DOMAIN st \ {root}) /\ B # {} /\ B = S
    BY <1>1, <1>4, <2>2, <2>3
  <2>5. \A b \in B : st[b].parent \in B
    BY <1>1, <1>4, <2>4
  <2> HIDE DEF A, B
  <2> QED BY <2>4, <2>5
<1>5. Rooted(new) /\ NoLoop(new)
  BY <1>3, <1>4 DEF NoLoop
<1> QED BY <1>5 DEF new

---------------------------------------------------------------------------
(* The inductive invariant                                                 *)

ItemType == [parent : Items \cup {NoItem}, installed : BOOLEAN, sold : BOOLEAN,
             hold : {NoDraft} \cup Ids, noDesarmar : BOOLEAN, complete : BOOLEAN]
MissingType == [parent : Items, name : STRING,
                origin : {"MISSING_AT_RECEIPT", "REMOVED_AFTER_BASELINE"}]
ReviewType == [parent : Items, name : STRING, kind : {"ALREADY_PRESENT", "PENDING_NA"}]
CategoryType == [name : STRING, expected : SUBSET STRING]
OrderType == [type : {"DISMANTLING", "INSTALLATION"}, status : Active \cup {"COMPLETED", "CANCELLED"},
              piece : Items, source : Items \cup {NoItem}, dest : Items \cup {NoItem},
              by : Mechanics \cup {"nobody"}, before : BOOLEAN, after : BOOLEAN, links : SUBSET Ids]
DocStatus == {"NONE", "DRAFT", "QUOTE_DRAFT", "QUOTE_ISSUED", "CONDUCE", "COMPLETED", "CANCELLED"}
DocType == [status : DocStatus, lines : [Items -> Nat], units : [Products -> Nat],
            delivered : SUBSET Items, old : BOOLEAN]

\* The inventory: one forest, pieces installed under another one only, and each assembly
\* complete when nothing is listed as missing from it.
Inventory(its, gone) ==
    /\ DOMAIN its \subseteq Items /\ its \in [DOMAIN its -> ItemType]
    /\ gone \in Seq(MissingType)
    /\ \A k \in DOMAIN gone : gone[k].parent \in DOMAIN its
    /\ Rooted(its) /\ NoLoop(its)
    /\ \A i \in DOMAIN its : its[i].installed <=> its[i].parent # NoItem
    /\ \A i \in DOMAIN its : isAssemblyItem(i) => (its[i].complete <=> isComplete(gone, i))

\* Every pending review is about a piece, and no two categories have one name.
Catalogued(its, revs, cats) ==
    /\ revs \subseteq ReviewType /\ \A r \in revs : r.parent \in DOMAIN its
    /\ cats \in [Categories -> CategoryType]
    /\ \A c, d \in Categories : cats[c].name = cats[d].name => c = d

\* A piece has one active order, and is loose while it is to be installed.
Ordered(its, ords) ==
    /\ ords \in Seq(OrderType) /\ \A k \in DOMAIN ords : ords[k].piece \in DOMAIN its
    /\ \A j, k \in DOMAIN ords :
         isActiveStatus(ords[j]) /\ isActiveStatus(ords[k]) /\ ords[j].piece = ords[k].piece => j = k
    /\ \A k \in DOMAIN ords :
         isActiveStatus(ords[k]) /\ ords[k].type = "INSTALLATION" => ~its[ords[k].piece].installed

\* A number that is free is of a blank document, lines are of pieces there are, and a
\* hold is of a draft with a line for it.
Documented(its, docs) ==
    /\ docs \in [Ids -> DocType]
    /\ \A v \in Ids : docs[v].status = "NONE" => docs[v] = Blank
    /\ \A v \in Ids : ItemsOn(docs[v]) \subseteq DOMAIN its
    /\ \A i \in DOMAIN its :
         its[i].hold # NoDraft => docs[its[i].hold].status = "DRAFT" /\ docs[its[i].hold].lines[i] > 0

\* The units a document of one of some statuses asks for, and those of all such documents.
UnitsIn(inv, p, T) == IF inv.status \in T THEN inv.units[p] ELSE 0
Weights(docs, p, T) == [v \in Ids |-> UnitsIn(docs[v], p, T)]
OnLines(docs, p, T) == Count(Ids, Weights(docs, p, T))

\* The units reserved are those of the drafts, there are that many in the yard, and what
\* was entered is in the yard or on a standing sale.
Stocked(docs, prods, ent) ==
    /\ prods \in [Products -> [onHand : Nat, reserved : Nat]] /\ ent \in [Products -> Int]
    /\ \A p \in Products :
         /\ prods[p].reserved = OnLines(docs, p, {"DRAFT"})
         /\ prods[p].reserved <= prods[p].onHand
         /\ prods[p].onHand + OnLines(docs, p, Standing) = ent[p]

YardInv ==
    /\ Inventory(items, missing)
    /\ Catalogued(items, reviews, catalog)
    /\ Ordered(items, orders)
    /\ Documented(items, invoices)
    /\ Stocked(invoices, products, entered)

---------------------------------------------------------------------------
(* The inventory                                                           *)

\* Completeness asks for the entries, not for their order.
LEMMA CompleteByEntries ==
    ASSUME NEW T, NEW gone \in Seq(T), NEW i
    PROVE  isComplete(gone, i) <=> \A e \in Range(gone) : e.parent # i
BY DEF isComplete, Range

\* So does the place an entry is about.
LEMMA Typed ==
    ASSUME NEW T, NEW gone \in Seq(T)
    PROVE  \A S : (\A k \in DOMAIN gone : gone[k].parent \in S) <=> \A e \in Range(gone) : e.parent \in S
BY DEF Range

\* What a rewrite of the completeness of some pieces leaves alone.
LEMMA Synced ==
    ASSUME NEW its, its \in [DOMAIN its -> ItemType], NEW gone, NEW parents
    PROVE  LET new == syncDirectParentCompleteness(its, gone, parents)
           IN  /\ new \in [DOMAIN its -> ItemType] /\ DOMAIN new = DOMAIN its
               /\ \A i \in DOMAIN its :
                    /\ new[i].parent = its[i].parent /\ new[i].installed = its[i].installed
                    /\ new[i].sold = its[i].sold /\ new[i].hold = its[i].hold
                    /\ isAssemblyItem(i) =>
                         (new[i].complete <=> IF i \in parents THEN isComplete(gone, i) ELSE its[i].complete)
<1> DEFINE new == syncDirectParentCompleteness(its, gone, parents)
<1>1. DOMAIN new = DOMAIN its
  BY DEF syncDirectParentCompleteness
<1>2. ASSUME NEW i \in DOMAIN its
      PROVE  /\ new[i] \in ItemType
             /\ new[i].parent = its[i].parent /\ new[i].installed = its[i].installed
             /\ new[i].sold = its[i].sold /\ new[i].hold = its[i].hold
             /\ isAssemblyItem(i) =>
                  (new[i].complete <=> IF i \in parents THEN isComplete(gone, i) ELSE its[i].complete)
  <2>1. its[i] \in ItemType
    OBVIOUS
  <2>2. isComplete(gone, i) \in BOOLEAN
    BY DEF isComplete
  <2>3. CASE i \in parents /\ isAssemblyItem(i)
    <3>1. new[i] = [its[i] EXCEPT !.complete = isComplete(gone, i)]
      BY <2>3 DEF syncDirectParentCompleteness
    <3> HIDE DEF new
    <3> QED BY <2>1, <2>2, <2>3, <3>1 DEF ItemType
  <2>4. CASE ~(i \in parents /\ isAssemblyItem(i))
    <3>1. new[i] = its[i]
      BY <2>4 DEF syncDirectParentCompleteness
    <3> HIDE DEF new
    <3> QED BY <2>1, <2>4, <3>1
  <2> QED BY <2>3, <2>4
<1>3. new = [i \in DOMAIN its |-> new[i]]
  BY DEF syncDirectParentCompleteness
<1>4. new \in [DOMAIN its -> ItemType]
  <2> HIDE DEF new
  <2> QED BY <1>2, <1>3
<1> QED BY <1>1, <1>2, <1>4

\* Once the pieces whose entries changed are synchronised, completeness is the derived one.
LEMMA SyncedInventory ==
    ASSUME NEW its, DOMAIN its \subseteq Items, its \in [DOMAIN its -> ItemType],
           NEW gone \in Seq(MissingType), \A k \in DOMAIN gone : gone[k].parent \in DOMAIN its,
           Rooted(its), NoLoop(its), \A i \in DOMAIN its : its[i].installed <=> its[i].parent # NoItem,
           NEW parents,
           \A i \in DOMAIN its \ parents :
              isAssemblyItem(i) => (its[i].complete <=> isComplete(gone, i))
    PROVE  Inventory(syncDirectParentCompleteness(its, gone, parents), gone)
<1> DEFINE new == syncDirectParentCompleteness(its, gone, parents)
<1>1. /\ new \in [DOMAIN its -> ItemType] /\ DOMAIN new = DOMAIN its
      /\ \A i \in DOMAIN its :
           /\ new[i].parent = its[i].parent /\ new[i].installed = its[i].installed
           /\ isAssemblyItem(i) =>
                (new[i].complete <=> IF i \in parents THEN isComplete(gone, i) ELSE its[i].complete)
  BY Synced
<1> HIDE DEF new
<1>2. Rooted(new) /\ NoLoop(new)
  BY <1>1, CutKeeps
<1>3. \A i \in DOMAIN its : isAssemblyItem(i) => (new[i].complete <=> isComplete(gone, i))
  BY <1>1
<1>4. \A i \in DOMAIN its : new[i].installed <=> new[i].parent # NoItem
  BY <1>1
<1> QED BY <1>1, <1>2, <1>3, <1>4 DEF Inventory, new

\* A change of sales, holds and flags only.
LEMMA SideKeeps ==
    ASSUME NEW its, NEW gone, Inventory(its, gone), NEW new \in [DOMAIN its -> ItemType],
           \A i \in DOMAIN its : /\ new[i].parent = its[i].parent
                                 /\ new[i].installed = its[i].installed
                                 /\ new[i].complete = its[i].complete
    PROVE  Inventory(new, gone)
<1>1. DOMAIN new = DOMAIN its
  OBVIOUS
<1>2. Rooted(new) /\ NoLoop(new)
  BY <1>1, CutKeeps DEF Inventory
<1> QED BY <1>1, <1>2 DEF Inventory

\* The image of a finite set under a function.
LEMMA ImageIsFinite ==
    ASSUME NEW S, IsFiniteSet(S), NEW f
    PROVE  IsFiniteSet({f[x] : x \in S})
<1> DEFINE T == {f[x] : x \in S}
           g == [x \in S |-> f[x]]
<1>1. g \in Surjection(S, T)
  BY DEF Surjection
<1> HIDE DEF T, g
<1>2. IsFiniteSet(T)
  BY <1>1, FS_Surjection
<1> QED BY <1>2 DEF T

\* What a checklist lists as missing.
LEMMA StagedMissingIs ==
    ASSUME NEW receipt, IsNested(receipt)
    PROVE  /\ StagedMissing(receipt) \in Seq(MissingType)
           /\ \A e \in Range(StagedMissing(receipt)) : e.parent \in DOMAIN receipt.parent
           /\ \A i \in DOMAIN receipt.parent :
                receipt.missing[i] = {} <=> \A e \in Range(StagedMissing(receipt)) : e.parent # i
<1> DEFINE N == DOMAIN receipt.parent
           U == UNION {receipt.missing[j] : j \in N}
           entry == [p \in N \X U |-> [parent |-> p[1], name |-> p[2], origin |-> "MISSING_AT_RECEIPT"]]
           entries == {[parent |-> i, name |-> n, origin |-> "MISSING_AT_RECEIPT"] : i \in N, n \in U}
           E == {e \in entries : e.name \in receipt.missing[e.parent]}
<1>1. /\ N \subseteq Items /\ IsFiniteSet(N) /\ receipt.missing \in [N -> SUBSET STRING]
      /\ \A i \in N : IsFiniteSet(receipt.missing[i])
  BY DEF IsNested
<1>2. IsFiniteSet(U) /\ U \subseteq STRING
  <2>1. IsFiniteSet({receipt.missing[j] : j \in N})
    BY <1>1, ImageIsFinite
  <2>2. \A T \in {receipt.missing[j] : j \in N} : IsFiniteSet(T)
    BY <1>1
  <2>3. IsFiniteSet(U)
    BY <2>1, <2>2, FS_UNION
  <2> QED BY <1>1, <2>3
<1>3. IsFiniteSet(N \X U)
  BY <1>1, <1>2, FS_Product
<1>4. entries = {entry[p] : p \in N \X U}
  <2>1. ASSUME NEW i \in N, NEW n \in U
        PROVE  [parent |-> i, name |-> n, origin |-> "MISSING_AT_RECEIPT"] = entry[<<i, n>>]
    OBVIOUS
  <2>2. ASSUME NEW p \in N \X U PROVE entry[p] \in entries
    OBVIOUS
  <2>3. ASSUME NEW e \in entries PROVE e \in {entry[p] : p \in N \X U}
    <3>1. PICK i \in N, n \in U : e = [parent |-> i, name |-> n, origin |-> "MISSING_AT_RECEIPT"]
      OBVIOUS
    <3>2. e = entry[<<i, n>>] /\ <<i, n>> \in N \X U
      BY <2>1, <3>1
    <3> HIDE DEF entry, N, U
    <3> QED BY <3>2
  <2> HIDE DEF entry, entries
  <2> QED BY <2>2, <2>3
<1>5. IsFiniteSet(E)
  <2>1. IsFiniteSet({entry[p] : p \in N \X U})
    <3> HIDE DEF entry, N, U
    <3> QED BY <1>3, ImageIsFinite
  <2>2. E \in SUBSET entries
    OBVIOUS
  <2> HIDE DEF E, entries, entry
  <2> QED BY <1>4, <2>1, <2>2, FS_Subset
<1>6. E \subseteq MissingType /\ \A e \in E : e.parent \in N
  BY <1>1, <1>2 DEF MissingType
<1>7. \A i \in N : receipt.missing[i] = {} <=> \A e \in E : e.parent # i
  <2> TAKE i \in N
  <2>1. ASSUME NEW e \in E, e.parent = i PROVE receipt.missing[i] # {}
    BY <2>1
  <2>2. ASSUME NEW n \in receipt.missing[i] PROVE \E e \in E : e.parent = i
    <3>1. [parent |-> i, name |-> n, origin |-> "MISSING_AT_RECEIPT"] \in E
      BY <2>2
    <3> QED BY <3>1
  <2> QED BY <2>1, <2>2
<1>8. StagedMissing(receipt) = SetToSeq(E)
  BY DEF StagedMissing
<1> HIDE DEF E, N
<1>9. SetToSeq(E) \in Seq(E) /\ Range(SetToSeq(E)) = E
  BY <1>5, SequenceOfSet
<1>10. SetToSeq(E) \in Seq(MissingType)
  BY <1>6, <1>9, SeqMonotonic
<1> QED BY <1>6, <1>7, <1>8, <1>9, <1>10 DEF N

\* The checklist joins the pieces and what is missing.
Joined(its, gone, receipt, new, left) ==
    /\ Inventory(new, left)
    /\ DOMAIN new = DOMAIN its \cup DOMAIN receipt.parent
    /\ \A i \in DOMAIN its : new[i] = its[i]
    /\ \A i \in DOMAIN receipt.parent : new[i].hold = NoDraft

\* A nested checklist joins the forest, each assembly of it complete when it lists nothing.
LEMMA ArrivedInventory ==
    ASSUME NEW its, NEW gone, Inventory(its, gone),
           NEW receipt, IsNested(receipt), DOMAIN receipt.parent \cap DOMAIN its = {},
           NEW under, under \in DOMAIN its \cup {NoItem}
    PROVE  Joined(its, gone, receipt, WithArrived(its, StagedItems(receipt, under)),
                  gone \o StagedMissing(receipt))
<1> DEFINE N == DOMAIN receipt.parent
           st == StagedItems(receipt, under)
           new == WithArrived(its, st)
           more == StagedMissing(receipt)
<1>1. /\ N \subseteq Items /\ IsFiniteSet(N) /\ receipt.root \in N /\ NoItem \notin Items
      /\ \A i \in N \ {receipt.root} : receipt.parent[i] \in N
      /\ \A S \in SUBSET (N \ {receipt.root}) : S # {} => \E i \in S : receipt.parent[i] \notin S
  BY YardAssumption DEF IsNested
<1>2. /\ DOMAIN its \subseteq Items /\ its \in [DOMAIN its -> ItemType]
      /\ gone \in Seq(MissingType) /\ \A k \in DOMAIN gone : gone[k].parent \in DOMAIN its
      /\ Rooted(its) /\ NoLoop(its)
      /\ \A i \in DOMAIN its : its[i].installed <=> its[i].parent # NoItem
      /\ \A i \in DOMAIN its : isAssemblyItem(i) => (its[i].complete <=> isComplete(gone, i))
  BY DEF Inventory
<1>3. DOMAIN st = N
  BY DEF StagedItems
<1>4. ASSUME NEW i \in N
      PROVE  /\ st[i].parent = IF i = receipt.root THEN under ELSE receipt.parent[i]
             /\ st[i].installed <=> st[i].parent # NoItem
             /\ st[i].hold = NoDraft
             /\ st[i].complete <=> isAssemblyItem(i) /\ receipt.missing[i] = {}
             /\ st[i] \in ItemType
  <2> DEFINE p == IF i = receipt.root THEN under ELSE receipt.parent[i]
             c == isAssemblyItem(i) /\ receipt.missing[i] = {}
  <2>1. st[i] = buildRegisteredItem(p, c)
    BY DEF StagedItems
  <2>2. p \in Items \cup {NoItem} /\ c \in BOOLEAN
    BY <1>1, <1>2
  <2> DEFINE rec == [parent |-> p, installed |-> p # NoItem, sold |-> FALSE, hold |-> NoDraft,
                     noDesarmar |-> FALSE, complete |-> c]
  <2>3. st[i] = rec
    BY <2>1 DEF buildRegisteredItem
  <2> HIDE DEF p, c, st
  <2>4. /\ rec.parent = p /\ (rec.installed <=> p # NoItem) /\ rec.hold = NoDraft
        /\ (rec.complete <=> c)
    OBVIOUS
  <2>5. rec \in ItemType
    BY <2>2 DEF ItemType
  <2> HIDE DEF rec
  <2>6. /\ st[i].parent = p /\ (st[i].installed <=> st[i].parent # NoItem) /\ st[i].hold = NoDraft
        /\ (st[i].complete <=> c) /\ st[i] \in ItemType
    BY <2>3, <2>4, <2>5
  <2> QED BY <2>6 DEF p, c
<1> HIDE DEF st
<1>5. /\ DOMAIN new = DOMAIN its \cup N
      /\ \A i \in DOMAIN its : new[i] = its[i]
      /\ \A i \in N : new[i] = st[i]
      /\ new = [i \in DOMAIN its \cup N |-> new[i]]
  BY <1>3 DEF WithArrived
<1>6. Rooted(new) /\ NoLoop(new)
  <2>1. st[receipt.root].parent \in DOMAIN its \cup {NoItem}
    BY <1>1, <1>4
  <2>2. \A i \in DOMAIN st \ {receipt.root} : st[i].parent \in DOMAIN st
    BY <1>1, <1>3, <1>4
  <2>3. \A S \in SUBSET (DOMAIN st \ {receipt.root}) : S # {} => \E i \in S : st[i].parent \notin S
    <3> TAKE S \in SUBSET (DOMAIN st \ {receipt.root})
    <3> HAVE S # {}
    <3>1. PICK i \in S : receipt.parent[i] \notin S
      BY <1>1, <1>3
    <3>2. st[i].parent = receipt.parent[i]
      BY <1>3, <1>4
    <3> QED BY <3>1, <3>2
  <2>4. NoItem \notin DOMAIN st /\ IsFiniteSet(DOMAIN st) /\ DOMAIN st \cap DOMAIN its = {}
    BY <1>1, <1>3
  <2>5. receipt.root \in DOMAIN st
    BY <1>1, <1>3
  <2> HIDE DEF N
  <2> QED BY <1>2, <2>1, <2>2, <2>3, <2>4, <2>5, AddedKeeps
<1> HIDE DEF new
<1>7. new \in [DOMAIN new -> ItemType] /\ DOMAIN new \subseteq Items
  <2>1. ASSUME NEW i \in DOMAIN its \cup N PROVE new[i] \in ItemType
    <3>1. CASE i \in DOMAIN its
      <4>1. new[i] = its[i] /\ its[i] \in ItemType
        BY <1>2, <1>5, <3>1
      <4> QED BY <4>1
    <3>2. CASE i \in N
      <4>1. new[i] = st[i] /\ st[i] \in ItemType
        BY <1>4, <1>5, <3>2
      <4> QED BY <4>1
    <3> QED BY <3>1, <3>2
  <2> HIDE DEF N
  <2> QED BY <1>1, <1>2, <1>5, <2>1
<1>8. ASSUME NEW i \in DOMAIN new PROVE new[i].installed <=> new[i].parent # NoItem
  <2>1. CASE i \in DOMAIN its
    BY <1>2, <1>5, <2>1
  <2>2. CASE i \in N
    <3>1. new[i] = st[i] /\ (st[i].installed <=> st[i].parent # NoItem)
      BY <1>4, <1>5, <2>2
    <3> QED BY <3>1
  <2> QED BY <1>5, <2>1, <2>2
<1>9. /\ more \in Seq(MissingType)
      /\ \A e \in Range(more) : e.parent \in N
      /\ \A i \in N : receipt.missing[i] = {} <=> \A e \in Range(more) : e.parent # i
  BY StagedMissingIs
<1> HIDE DEF more, N
<1>10. /\ gone \o more \in Seq(MissingType)
       /\ Range(gone \o more) = Range(gone) \cup Range(more)
  BY <1>2, <1>9, ConcatProperties, RangeConcatenation
<1>11. \A e \in Range(gone) : e.parent \in DOMAIN its
  BY <1>2 DEF Range
<1>12. \A k \in DOMAIN (gone \o more) : (gone \o more)[k].parent \in DOMAIN new
  <2>1. \A e \in Range(gone \o more) : e.parent \in DOMAIN new
    BY <1>5, <1>9, <1>10, <1>11
  <2> QED BY <2>1 DEF Range
<1>13. ASSUME NEW i \in DOMAIN new, isAssemblyItem(i)
       PROVE  new[i].complete <=> isComplete(gone \o more, i)
  <2>1. isComplete(gone \o more, i) <=> \A e \in Range(gone) \cup Range(more) : e.parent # i
    BY <1>10, CompleteByEntries
  <2>2. CASE i \in DOMAIN its
    <3>1. \A e \in Range(more) : e.parent # i
      BY <1>9, <2>2 DEF N
    <3>2. isComplete(gone, i) <=> \A e \in Range(gone) : e.parent # i
      BY <1>2, CompleteByEntries
    <3>3. new[i].complete <=> isComplete(gone, i)
      BY <1>2, <1>5, <1>13, <2>2
    <3> QED BY <2>1, <3>1, <3>2, <3>3
  <2>3. CASE i \in N
    <3>1. \A e \in Range(gone) : e.parent # i
      BY <1>11, <2>3 DEF N
    <3>2. new[i].complete <=> receipt.missing[i] = {}
      BY <1>4, <1>5, <1>13, <2>3
    <3> QED BY <1>9, <2>1, <2>3, <3>1, <3>2
  <2> QED BY <1>5, <2>2, <2>3
<1>14. Inventory(new, gone \o more)
  BY <1>6, <1>7, <1>8, <1>10, <1>12, <1>13 DEF Inventory
<1>15. \A i \in N : new[i].hold = NoDraft
  BY <1>4, <1>5
<1> QED BY <1>5, <1>14, <1>15 DEF Joined, new, st, more, N

\* Completeness may be rewritten at any time.
LEMMA Resynced ==
    ASSUME NEW its, NEW gone, Inventory(its, gone), NEW parents
    PROVE  Inventory(syncDirectParentCompleteness(its, gone, parents), gone)
<1>1. /\ DOMAIN its \subseteq Items /\ its \in [DOMAIN its -> ItemType] /\ gone \in Seq(MissingType)
      /\ \A k \in DOMAIN gone : gone[k].parent \in DOMAIN its
      /\ Rooted(its) /\ NoLoop(its)
      /\ \A i \in DOMAIN its : its[i].installed <=> its[i].parent # NoItem
      /\ \A i \in DOMAIN its \ parents : isAssemblyItem(i) => (its[i].complete <=> isComplete(gone, i))
  BY DEF Inventory
<1> QED BY <1>1, SyncedInventory

\* Entries about one piece come and go, and that piece is synchronised.
LEMMA Relisted ==
    ASSUME NEW its, NEW gone, Inventory(its, gone), NEW p,
           NEW left \in Seq(MissingType), \A e \in Range(left) : e.parent \in DOMAIN its,
           \A e \in Range(left) : e.parent # p => e \in Range(gone),
           \A e \in Range(gone) : e.parent # p => e \in Range(left)
    PROVE  Inventory(syncDirectParentCompleteness(its, left, {p}), left)
<1>1. /\ DOMAIN its \subseteq Items /\ its \in [DOMAIN its -> ItemType] /\ gone \in Seq(MissingType)
      /\ Rooted(its) /\ NoLoop(its)
      /\ \A i \in DOMAIN its : its[i].installed <=> its[i].parent # NoItem
  BY DEF Inventory
<1>2. \A k \in DOMAIN left : left[k].parent \in DOMAIN its
  BY DEF Range
<1>3. \A i \in DOMAIN its \ {p} : isAssemblyItem(i) => (its[i].complete <=> isComplete(left, i))
  <2> TAKE i \in DOMAIN its \ {p}
  <2> HAVE isAssemblyItem(i)
  <2>1. its[i].complete <=> isComplete(gone, i)
    BY DEF Inventory
  <2>2. isComplete(gone, i) <=> \A e \in Range(gone) : e.parent # i
    BY <1>1, CompleteByEntries
  <2>3. isComplete(left, i) <=> \A e \in Range(left) : e.parent # i
    BY CompleteByEntries
  <2> QED BY <2>1, <2>2, <2>3
<1> QED BY <1>1, <1>2, <1>3, SyncedInventory

\* correctReceiptBaseline removes entries of one piece and synchronises it.
LEMMA CorrectedInventory ==
    ASSUME NEW its, NEW gone, Inventory(its, gone), NEW p \in DOMAIN its, NEW names, NEW origins,
           NEW left, left = Remaining(gone, [parent : {p}, name : names, origin : origins])
    PROVE  Inventory(syncDirectParentCompleteness(its, left, {p}), left)
<1> DEFINE R == [parent : {p}, name : names, origin : origins]
<1>1. gone \in Seq(MissingType) /\ \A e \in Range(gone) : e.parent \in DOMAIN its
  BY DEF Inventory, Range
<1>2. \A e \in R : e.parent = p
  OBVIOUS
<1> HIDE DEF R
<1>3. left \in Seq(MissingType) /\ Range(left) = Range(gone) \ R
  BY <1>1, RemainingIs DEF R
<1>4. \A e \in Range(left) : e.parent \in DOMAIN its /\ e \in Range(gone)
  BY <1>1, <1>3
<1>5. \A e \in Range(gone) : e.parent # p => e \in Range(left)
  BY <1>2, <1>3
<1> QED BY <1>3, <1>4, <1>5, Relisted

\* A review answered MISSING adds an entry of one piece.
LEMMA ListedInventory ==
    ASSUME NEW its, NEW gone, Inventory(its, gone), NEW p \in DOMAIN its,
           NEW e \in MissingType, e.parent = p
    PROVE  Inventory(syncDirectParentCompleteness(its, Append(gone, e), {p}), Append(gone, e))
<1> DEFINE left == Append(gone, e)
<1>1. gone \in Seq(MissingType) /\ \A x \in Range(gone) : x.parent \in DOMAIN its
  BY DEF Inventory, Range
<1>2. left \in Seq(MissingType) /\ Range(left) = Range(gone) \cup {e}
  BY <1>1, AppendIs
<1> HIDE DEF left
<1>3. \A x \in Range(left) : x.parent \in DOMAIN its
  BY <1>1, <1>2
<1>4. \A x \in Range(left) : x.parent # p => x \in Range(gone)
  BY <1>2
<1>5. \A x \in Range(gone) : x.parent # p => x \in Range(left)
  BY <1>2
<1>6. Inventory(syncDirectParentCompleteness(its, left, {p}), left)
  BY <1>2, <1>3, <1>4, <1>5, Relisted
<1> QED BY <1>6 DEF left

\* A rename changes no parent.
LEMMA RenamedInventory ==
    ASSUME NEW its, NEW gone, Inventory(its, gone), NEW new \in Seq(MissingType),
           DOMAIN new = DOMAIN gone, \A k \in DOMAIN gone : new[k].parent = gone[k].parent
    PROVE  Inventory(its, new)
<1>1. \A i : isComplete(new, i) <=> isComplete(gone, i)
  BY DEF isComplete
<1>2. \A k \in DOMAIN new : new[k].parent \in DOMAIN its
  BY DEF Inventory
<1> QED BY <1>1, <1>2 DEF Inventory

\* The piece is off, and what it was on misses it.
LEMMA DismantledInventory ==
    ASSUME NEW its, NEW gone, Inventory(its, gone), NEW i \in DOMAIN its, NEW name \in STRING,
           its[i].parent # NoItem
    PROVE  LET was == its[i].parent
               left == Append(gone, [parent |-> was, name |-> name, origin |-> "REMOVED_AFTER_BASELINE"])
           IN  Inventory(syncDirectParentCompleteness(
                           [its EXCEPT ![i].parent = NoItem, ![i].installed = FALSE], left, {was}), left)
<1> DEFINE was == its[i].parent
           e == [parent |-> was, name |-> name, origin |-> "REMOVED_AFTER_BASELINE"]
           left == Append(gone, e)
           off == [its EXCEPT ![i].parent = NoItem, ![i].installed = FALSE]
<1>1. /\ DOMAIN its \subseteq Items /\ its \in [DOMAIN its -> ItemType] /\ gone \in Seq(MissingType)
      /\ Rooted(its) /\ NoLoop(its)
      /\ \A j \in DOMAIN its : its[j].installed <=> its[j].parent # NoItem
      /\ \A j \in DOMAIN its : isAssemblyItem(j) => (its[j].complete <=> isComplete(gone, j))
      /\ \A x \in Range(gone) : x.parent \in DOMAIN its
  BY DEF Inventory, Range
<1>2. was \in DOMAIN its /\ was \in Items
  BY <1>1 DEF Rooted
<1>3. e \in MissingType /\ e.parent = was
  BY <1>2 DEF MissingType
<1>4. /\ DOMAIN off = DOMAIN its /\ off \in [DOMAIN its -> ItemType]
      /\ off[i].parent = NoItem /\ off[i].installed = FALSE /\ off[i].complete = its[i].complete
      /\ \A j \in DOMAIN its \ {i} : off[j] = its[j]
  <2>1. its[i] \in ItemType
    BY <1>1
  <2>2. /\ off[i] = [its[i] EXCEPT !.parent = NoItem, !.installed = FALSE]
        /\ DOMAIN off = DOMAIN its /\ \A j \in DOMAIN its \ {i} : off[j] = its[j]
    OBVIOUS
  <2>3. /\ off[i] \in ItemType
        /\ off[i].parent = NoItem /\ off[i].installed = FALSE /\ off[i].complete = its[i].complete
    <3> HIDE DEF off
    <3> QED BY <2>1, <2>2 DEF ItemType
  <2>4. off \in [DOMAIN its -> ItemType]
    BY <1>1, <2>2, <2>3
  <2> HIDE DEF off
  <2> QED BY <2>2, <2>3, <2>4
<1> HIDE DEF off, e, was
<1>5. Rooted(off) /\ NoLoop(off)
  <2>1. \A j \in DOMAIN its : off[j].parent \in {its[j].parent, NoItem}
    BY <1>4
  <2> QED BY <1>1, <1>4, <2>1, CutKeeps
<1>6. \A j \in DOMAIN its : off[j].installed <=> off[j].parent # NoItem
  BY <1>1, <1>4
<1>7. left \in Seq(MissingType) /\ Range(left) = Range(gone) \cup {e}
  BY <1>1, <1>3, AppendIs
<1> HIDE DEF left
<1>8. \A k \in DOMAIN left : left[k].parent \in DOMAIN its
  <2>1. \A x \in Range(left) : x.parent \in DOMAIN its
    BY <1>1, <1>2, <1>3, <1>7
  <2> QED BY <2>1 DEF Range
<1>9. ASSUME NEW j \in DOMAIN its \ {was}, isAssemblyItem(j)
      PROVE  off[j].complete <=> isComplete(left, j)
  <2>1. off[j].complete = its[j].complete
    BY <1>4
  <2>2. its[j].complete <=> isComplete(gone, j)
    BY <1>1, <1>9
  <2>3. isComplete(gone, j) <=> \A x \in Range(gone) : x.parent # j
    BY <1>1, CompleteByEntries
  <2>4. isComplete(left, j) <=> \A x \in Range(left) : x.parent # j
    BY <1>7, CompleteByEntries
  <2> QED BY <1>3, <1>7, <2>1, <2>2, <2>3, <2>4
<1>10. Inventory(syncDirectParentCompleteness(off, left, {was}), left)
  <2>1. DOMAIN off \subseteq Items /\ off \in [DOMAIN off -> ItemType]
    BY <1>1, <1>4
  <2> QED BY <1>4, <1>5, <1>6, <1>7, <1>8, <1>9, <2>1, SyncedInventory
<1> QED BY <1>10 DEF off, left, e, was

\* The piece is on, and an entry for it may be resolved.
LEMMA InstalledInventory ==
    ASSUME NEW its, NEW gone, Inventory(its, gone), NEW i \in DOMAIN its, NEW dest \in DOMAIN its,
           its[i].parent = NoItem, dest \notin Unit(its, i),
           NEW left \in Seq(MissingType), Range(left) \subseteq Range(gone),
           \A e \in Range(gone) : e.parent # dest => e \in Range(left)
    PROVE  Inventory(syncDirectParentCompleteness(
                       [its EXCEPT ![i].parent = dest, ![i].installed = TRUE], left, {dest}), left)
<1> DEFINE on == [its EXCEPT ![i].parent = dest, ![i].installed = TRUE]
<1>1. /\ DOMAIN its \subseteq Items /\ its \in [DOMAIN its -> ItemType] /\ gone \in Seq(MissingType)
      /\ Rooted(its) /\ NoLoop(its)
      /\ \A j \in DOMAIN its : its[j].installed <=> its[j].parent # NoItem
      /\ \A j \in DOMAIN its : isAssemblyItem(j) => (its[j].complete <=> isComplete(gone, j))
      /\ \A x \in Range(gone) : x.parent \in DOMAIN its
  BY DEF Inventory, Range
<1>2. dest \in Items /\ dest # NoItem
  BY <1>1, YardAssumption
<1>3. /\ DOMAIN on = DOMAIN its /\ on \in [DOMAIN its -> ItemType]
      /\ on[i].parent = dest /\ on[i].installed = TRUE /\ on[i].complete = its[i].complete
      /\ \A j \in DOMAIN its \ {i} : on[j] = its[j]
  <2>1. its[i] \in ItemType
    BY <1>1
  <2>2. /\ on[i] = [its[i] EXCEPT !.parent = dest, !.installed = TRUE]
        /\ DOMAIN on = DOMAIN its /\ \A j \in DOMAIN its \ {i} : on[j] = its[j]
    OBVIOUS
  <2>3. /\ on[i] \in ItemType
        /\ on[i].parent = dest /\ on[i].installed = TRUE /\ on[i].complete = its[i].complete
    <3> HIDE DEF on
    <3> QED BY <1>2, <2>1, <2>2 DEF ItemType
  <2>4. on \in [DOMAIN its -> ItemType]
    BY <1>1, <2>2, <2>3
  <2> HIDE DEF on
  <2> QED BY <2>2, <2>3, <2>4
<1> HIDE DEF on
<1>4. Rooted(on) /\ NoLoop(on)
  <2>1. \A j \in DOMAIN its \ {i} : on[j].parent = its[j].parent
    BY <1>3
  <2> QED BY <1>1, <1>3, <2>1, PutKeeps
<1>5. \A j \in DOMAIN its : on[j].installed <=> on[j].parent # NoItem
  BY <1>1, <1>2, <1>3
<1>6. \A k \in DOMAIN left : left[k].parent \in DOMAIN its
  <2>1. \A x \in Range(left) : x.parent \in DOMAIN its
    BY <1>1
  <2> QED BY <2>1 DEF Range
<1>7. ASSUME NEW j \in DOMAIN its \ {dest}, isAssemblyItem(j)
      PROVE  on[j].complete <=> isComplete(left, j)
  <2>1. on[j].complete = its[j].complete
    BY <1>3
  <2>2. its[j].complete <=> isComplete(gone, j)
    BY <1>1, <1>7
  <2>3. isComplete(gone, j) <=> \A x \in Range(gone) : x.parent # j
    BY <1>1, CompleteByEntries
  <2>4. isComplete(left, j) <=> \A x \in Range(left) : x.parent # j
    BY CompleteByEntries
  <2> QED BY <2>1, <2>2, <2>3, <2>4
<1>8. DOMAIN on \subseteq Items /\ on \in [DOMAIN on -> ItemType]
  BY <1>1, <1>3
<1>9. Inventory(syncDirectParentCompleteness(on, left, {dest}), left)
  BY <1>3, <1>4, <1>5, <1>6, <1>7, <1>8, SyncedInventory
<1> QED BY <1>9 DEF on

---------------------------------------------------------------------------
(* The work orders                                                         *)

\* Pieces arrive and come off; orders end, or are taken and photographed.
LEMMA OrdersFade ==
    ASSUME NEW its, NEW ords, Ordered(its, ords),
           NEW after, DOMAIN its \subseteq DOMAIN after,
           \A i \in DOMAIN its : after[i].installed => its[i].installed,
           NEW new \in Seq(OrderType), DOMAIN new = DOMAIN ords,
           \A k \in DOMAIN ords : /\ new[k].piece = ords[k].piece /\ new[k].type = ords[k].type
                                  /\ isActiveStatus(new[k]) => isActiveStatus(ords[k])
    PROVE  Ordered(after, new)
<1>1. \A k \in DOMAIN new : new[k].piece \in DOMAIN after
  BY DEF Ordered
<1>2. ASSUME NEW j \in DOMAIN new, NEW k \in DOMAIN new,
             isActiveStatus(new[j]), isActiveStatus(new[k]), new[j].piece = new[k].piece
      PROVE  j = k
  BY <1>2 DEF Ordered
<1>3. ASSUME NEW k \in DOMAIN new, isActiveStatus(new[k]), new[k].type = "INSTALLATION"
      PROVE  ~after[new[k].piece].installed
  BY <1>3 DEF Ordered
<1> QED BY <1>1, <1>2, <1>3 DEF Ordered

\* Pieces that arrive or come off leave the orders as they are.
LEMMA OrdersStand ==
    ASSUME NEW its, NEW ords, Ordered(its, ords),
           NEW after, DOMAIN its \subseteq DOMAIN after,
           \A i \in DOMAIN its : after[i].installed => its[i].installed
    PROVE  Ordered(after, ords)
<1>1. ords \in Seq(OrderType)
  BY DEF Ordered
<1> QED BY <1>1, OrdersFade

\* One order is rewritten.
LEMMA OneOrderFades ==
    ASSUME NEW its, NEW ords, Ordered(its, ords), NEW k \in DOMAIN ords, NEW o \in OrderType,
           o.piece = ords[k].piece, o.type = ords[k].type,
           isActiveStatus(o) => isActiveStatus(ords[k])
    PROVE  Ordered(its, [ords EXCEPT ![k] = o])
<1> DEFINE new == [ords EXCEPT ![k] = o]
<1>1. ords \in Seq(OrderType)
  BY DEF Ordered
<1>2. k \in 1..Len(ords) /\ DOMAIN ords = 1..Len(ords)
  BY <1>1, LenProperties
<1>3. /\ new \in Seq(OrderType) /\ Len(new) = Len(ords)
      /\ \A j \in 1..Len(ords) : new[j] = IF j = k THEN o ELSE ords[j]
  BY <1>1, <1>2, ExceptSeq
<1>4. DOMAIN new = DOMAIN ords
  OBVIOUS
<1> HIDE DEF new
<1>5. \A j \in DOMAIN ords : /\ new[j].piece = ords[j].piece /\ new[j].type = ords[j].type
                             /\ isActiveStatus(new[j]) => isActiveStatus(ords[j])
  BY <1>2, <1>3
<1>6. Ordered(its, new)
  BY <1>3, <1>4, <1>5, OrdersFade
<1> QED BY <1>6 DEF new

\* A piece without an active order gets one: to take it off, or to put it on when it is loose.
LEMMA OrderOpens ==
    ASSUME NEW its, NEW ords, Ordered(its, ords), NEW o \in OrderType, o.piece \in DOMAIN its,
           \A k \in DOMAIN ords : ords[k].piece = o.piece => ~isActiveStatus(ords[k]),
           o.type = "INSTALLATION" => ~its[o.piece].installed
    PROVE  Ordered(its, Append(ords, o))
<1> DEFINE new == Append(ords, o)
<1>1. ords \in Seq(OrderType) /\ DOMAIN ords = 1..Len(ords) /\ Len(ords) \in Nat
  BY LenProperties DEF Ordered
<1>2. /\ new \in Seq(OrderType) /\ Len(new) = Len(ords) + 1
      /\ \A k \in 1..Len(ords) : new[k] = ords[k]
      /\ new[Len(ords) + 1] = o
  BY <1>1, AppendProperties
<1>3. DOMAIN new = 1..(Len(ords) + 1)
  BY <1>2, LenProperties
<1> HIDE DEF new
<1>4. ASSUME NEW k \in DOMAIN new
      PROVE  \/ k \in DOMAIN ords /\ new[k] = ords[k]
             \/ k = Len(ords) + 1 /\ new[k] = o
  <2>1. k \in 1..(Len(ords) + 1)
    BY <1>3, <1>4
  <2>2. CASE k \in 1..Len(ords)
    <3>1. new[k] = ords[k]
      BY <1>2, <2>2
    <3>2. k \in DOMAIN ords
      BY <1>1, <2>2
    <3> QED BY <3>1, <3>2
  <2>3. CASE k = Len(ords) + 1
    BY <1>2, <2>3
  <2> QED BY <1>1, <2>1, <2>2, <2>3
<1>5. \A k \in DOMAIN new : new[k].piece \in DOMAIN its
  BY <1>4 DEF Ordered
<1>6. ASSUME NEW j \in DOMAIN new, NEW k \in DOMAIN new,
             isActiveStatus(new[j]), isActiveStatus(new[k]), new[j].piece = new[k].piece
      PROVE  j = k
  <2>1. CASE j \in DOMAIN ords /\ new[j] = ords[j]
    <3>1. CASE k \in DOMAIN ords /\ new[k] = ords[k]
      BY <1>6, <2>1, <3>1 DEF Ordered
    <3>2. CASE k = Len(ords) + 1 /\ new[k] = o
      BY <1>6, <2>1, <3>2
    <3> QED BY <1>4, <3>1, <3>2
  <2>2. CASE j = Len(ords) + 1 /\ new[j] = o
    <3>1. CASE k \in DOMAIN ords /\ new[k] = ords[k]
      BY <1>6, <2>2, <3>1
    <3>2. CASE k = Len(ords) + 1 /\ new[k] = o
      BY <2>2, <3>2
    <3> QED BY <1>4, <3>1, <3>2
  <2> QED BY <1>4, <2>1, <2>2
<1>7. ASSUME NEW k \in DOMAIN new, isActiveStatus(new[k]), new[k].type = "INSTALLATION"
      PROVE  ~its[new[k].piece].installed
  BY <1>4, <1>7 DEF Ordered
<1>8. Ordered(its, new)
  BY <1>2, <1>5, <1>6, <1>7 DEF Ordered
<1> QED BY <1>8 DEF new

\* The last step of an installation: the piece is on, and its only active order ends.
LEMMA OrderInstalls ==
    ASSUME NEW its, NEW ords, Ordered(its, ords), NEW k \in DOMAIN ords, isActiveStatus(ords[k]),
           NEW after, DOMAIN after = DOMAIN its,
           \A i \in DOMAIN its \ {ords[k].piece} : after[i].installed => its[i].installed
    PROVE  Ordered(after, [ords EXCEPT ![k].status = "COMPLETED"])
<1> DEFINE o == [ords[k] EXCEPT !.status = "COMPLETED"]
           new == [ords EXCEPT ![k].status = "COMPLETED"]
<1>1. ords \in Seq(OrderType) /\ ords[k] \in OrderType
  BY ElementOfSeq, LenProperties DEF Ordered
<1>2. /\ o \in OrderType /\ o.piece = ords[k].piece /\ o.type = ords[k].type
      /\ ~isActiveStatus(o)
  BY <1>1 DEF OrderType, isActiveStatus, Active
<1>3. new = [ords EXCEPT ![k] = o]
  OBVIOUS
<1> HIDE DEF o, new
<1>4. Ordered(its, new)
  BY <1>2, <1>3, OneOrderFades
<1>5. DOMAIN new = DOMAIN ords /\ new[k] = o /\ \A j \in DOMAIN ords \ {k} : new[j] = ords[j]
  BY <1>1, <1>3
<1>6. ASSUME NEW j \in DOMAIN new, isActiveStatus(new[j]), new[j].type = "INSTALLATION"
      PROVE  ~after[new[j].piece].installed
  <2>1. j # k /\ new[j] = ords[j]
    BY <1>2, <1>5, <1>6
  <2>2. ords[j].piece # ords[k].piece
    BY <1>5, <1>6, <2>1 DEF Ordered
  <2>3. ords[j].piece \in DOMAIN its /\ ~its[ords[j].piece].installed
    BY <1>5, <1>6, <2>1 DEF Ordered
  <2> QED BY <2>1, <2>2, <2>3
<1>7. Ordered(after, new)
  BY <1>4, <1>6 DEF Ordered
<1> QED BY <1>7 DEF new

\* Installed pieces without an order to take them off get one each.
LEMMA OrdersOpen ==
    ASSUME NEW its, NEW ords, Ordered(its, ords), NEW more \in Seq(OrderType),
           \A k \in DOMAIN more : more[k].piece \in DOMAIN its /\ more[k].type = "DISMANTLING",
           \A k \in DOMAIN more, j \in DOMAIN ords :
              isActiveStatus(ords[j]) => ords[j].piece # more[k].piece,
           \A j, k \in DOMAIN more : more[j].piece = more[k].piece => j = k
    PROVE  Ordered(its, ords \o more)
<1> DEFINE new == ords \o more  n == Len(ords)  m == Len(more)
<1>1. /\ ords \in Seq(OrderType) /\ DOMAIN ords = 1..n /\ n \in Nat
      /\ DOMAIN more = 1..m /\ m \in Nat
  BY LenProperties DEF Ordered
<1>2. /\ new \in Seq(OrderType) /\ Len(new) = n + m
      /\ \A k \in 1..(n + m) : new[k] = IF k <= n THEN ords[k] ELSE more[k - n]
  BY <1>1, ConcatProperties
<1>3. DOMAIN new = 1..(n + m)
  BY <1>2, LenProperties
<1> HIDE DEF new, n, m
<1>4. ASSUME NEW k \in DOMAIN new
      PROVE  \/ k \in DOMAIN ords /\ new[k] = ords[k]
             \/ k - n \in DOMAIN more /\ new[k] = more[k - n]
  <2>1. k \in 1..(n + m)
    BY <1>3, <1>4
  <2>2. CASE k <= n
    BY <1>1, <1>2, <2>1, <2>2
  <2>3. CASE ~(k <= n)
    <3>1. k - n \in 1..m
      BY <1>1, <2>1, <2>3
    <3> QED BY <1>1, <1>2, <2>1, <2>3, <3>1
  <2> QED BY <2>2, <2>3
<1>5. \A k \in DOMAIN new : new[k].piece \in DOMAIN its
  BY <1>4 DEF Ordered
<1>6. ASSUME NEW j \in DOMAIN new, NEW k \in DOMAIN new,
             isActiveStatus(new[j]), isActiveStatus(new[k]), new[j].piece = new[k].piece
      PROVE  j = k
  <2>1. CASE j \in DOMAIN ords /\ new[j] = ords[j]
    <3>1. CASE k \in DOMAIN ords /\ new[k] = ords[k]
      BY <1>6, <2>1, <3>1 DEF Ordered
    <3>2. CASE k - n \in DOMAIN more /\ new[k] = more[k - n]
      BY <1>6, <2>1, <3>2
    <3> QED BY <1>4, <3>1, <3>2
  <2>2. CASE j - n \in DOMAIN more /\ new[j] = more[j - n]
    <3>1. CASE k \in DOMAIN ords /\ new[k] = ords[k]
      BY <1>6, <2>2, <3>1
    <3>2. CASE k - n \in DOMAIN more /\ new[k] = more[k - n]
      <4>1. j - n = k - n
        BY <1>6, <2>2, <3>2
      <4>2. j \in Int /\ k \in Int
        BY <1>1, <1>3
      <4> QED BY <1>1, <4>1, <4>2
    <3> QED BY <1>4, <3>1, <3>2
  <2> QED BY <1>4, <2>1, <2>2
<1>7. ASSUME NEW k \in DOMAIN new, isActiveStatus(new[k]), new[k].type = "INSTALLATION"
      PROVE  ~its[new[k].piece].installed
  <2>1. k \in DOMAIN ords /\ new[k] = ords[k]
    BY <1>4, <1>7
  <2> QED BY <1>7, <2>1 DEF Ordered
<1>8. Ordered(its, new)
  BY <1>2, <1>5, <1>6, <1>7 DEF Ordered
<1> QED BY <1>8 DEF new

\* A sale links the active order of each installed piece, or opens one.
LEMMA SaleOrders ==
    ASSUME Ordered(items, orders), NEW v \in Ids, NEW gone, Inventory(items, gone),
           NEW pieces \in SUBSET DOMAIN items, \A i \in pieces : items[i].installed
    PROVE  Ordered(items, ensureDismantlingOrder(v, pieces))
<1> DEFINE reused == [k \in DOMAIN orders |->
                        IF \E i \in pieces : activeDismantling(orders[k], i)
                        THEN [orders[k] EXCEPT !.links = @ \cup {v}] ELSE orders[k]]
           fresh == {i \in pieces : ~\E k \in DOMAIN orders : activeDismantling(orders[k], i)}
           order == [i \in fresh |-> NewOrder("DISMANTLING", i, NoItem, {v})]
           E == {NewOrder("DISMANTLING", i, NoItem, {v}) : i \in fresh}
<1>1. ensureDismantlingOrder(v, pieces) = reused \o SetToSeq(E)
  BY DEF ensureDismantlingOrder
<1>2. orders \in Seq(OrderType) /\ DOMAIN orders = 1..Len(orders) /\ Len(orders) \in Nat
  BY LenProperties DEF Ordered
<1>3. \A k \in DOMAIN orders :
         /\ reused[k] \in OrderType
         /\ reused[k].piece = orders[k].piece /\ reused[k].type = orders[k].type
         /\ isActiveStatus(reused[k]) <=> isActiveStatus(orders[k])
  <2> TAKE k \in DOMAIN orders
  <2>1. orders[k] \in OrderType
    BY <1>2, ElementOfSeq
  <2>2. CASE \E i \in pieces : activeDismantling(orders[k], i)
    <3>1. reused[k] = [orders[k] EXCEPT !.links = @ \cup {v}]
      BY <2>2
    <3> HIDE DEF reused
    <3> QED BY <2>1, <3>1 DEF OrderType, isActiveStatus
  <2>3. CASE ~\E i \in pieces : activeDismantling(orders[k], i)
    <3>1. reused[k] = orders[k]
      BY <2>3
    <3> HIDE DEF reused
    <3> QED BY <2>1, <3>1
  <2> QED BY <2>2, <2>3
<1>4. DOMAIN reused = DOMAIN orders /\ reused \in Seq(OrderType)
  <2>1. reused = [k \in 1..Len(orders) |-> reused[k]]
    BY <1>2
  <2>2. \A k \in 1..Len(orders) : reused[k] \in OrderType
    BY <1>2, <1>3
  <2>3. reused \in [1..Len(orders) -> OrderType]
    <3> HIDE DEF reused
    <3> QED BY <2>1, <2>2
  <2>4. DOMAIN reused = DOMAIN orders
    OBVIOUS
  <2> HIDE DEF reused
  <2> QED BY <1>2, <2>3, <2>4
<1> HIDE DEF reused
<1>5. Ordered(items, reused)
  BY <1>3, <1>4, OrdersFade
<1>6. /\ DOMAIN items \subseteq Items /\ items \in [DOMAIN items -> ItemType]
      /\ IsFiniteSet(DOMAIN items)
  BY DEF Inventory, Rooted
<1>7. ASSUME NEW i \in fresh
      PROVE  /\ order[i] \in OrderType /\ order[i].piece = i /\ order[i].type = "DISMANTLING"
             /\ order[i] = NewOrder("DISMANTLING", i, NoItem, {v})
  <2>1. items[i].parent \in Items \cup {NoItem} /\ i \in Items
    BY <1>6 DEF ItemType
  <2> QED BY <2>1 DEF NewOrder, OrderType, Active
<1>8. IsFiniteSet(fresh)
  BY <1>6, FS_Subset
<1>9. E = {order[i] : i \in fresh}
  BY <1>7
<1>10. \A i \in fresh, j \in DOMAIN orders : isActiveStatus(orders[j]) => orders[j].piece # i
  <2> TAKE i \in fresh, j \in DOMAIN orders
  <2> HAVE isActiveStatus(orders[j])
  <2> SUFFICES ASSUME orders[j].piece = i PROVE FALSE
    OBVIOUS
  <2>1. orders[j].type # "DISMANTLING"
    BY DEF activeDismantling
  <2>2. orders[j].type \in {"DISMANTLING", "INSTALLATION"}
    <3>1. orders[j] \in OrderType
      BY <1>2, ElementOfSeq
    <3> QED BY <3>1 DEF OrderType
  <2>3. ~items[i].installed
    BY <2>1, <2>2 DEF Ordered
  <2> QED BY <2>3
<1> HIDE DEF order, fresh, E
<1>11. IsFiniteSet(E)
  BY <1>8, <1>9, ImageIsFinite
<1>12. /\ SetToSeq(E) \in Seq(E) /\ Range(SetToSeq(E)) = E
       /\ \A j, k \in DOMAIN SetToSeq(E) : SetToSeq(E)[j] = SetToSeq(E)[k] => j = k
  BY <1>11, SequenceOfSet
<1> DEFINE more == SetToSeq(E)
<1>13. \A k \in DOMAIN more : more[k] \in E
  BY <1>12 DEF Range
<1>14. fresh \subseteq DOMAIN items
  BY DEF fresh
<1> HIDE DEF more
<1>15. \A k \in DOMAIN more : more[k].piece \in fresh /\ more[k].type = "DISMANTLING"
                              /\ more[k] = order[more[k].piece]
  BY <1>7, <1>9, <1>13
<1>16. \A j, k \in DOMAIN more : more[j].piece = more[k].piece => j = k
  BY <1>12, <1>15 DEF more
<1>17. more \in Seq(OrderType)
  <2>1. E \subseteq OrderType
    BY <1>7, <1>9
  <2> QED BY <1>12, <2>1, SeqMonotonic DEF more
<1>18. \A k \in DOMAIN more : more[k].piece \in DOMAIN items /\ more[k].type = "DISMANTLING"
  BY <1>14, <1>15
<1>19. \A k \in DOMAIN more, j \in DOMAIN reused :
          isActiveStatus(reused[j]) => reused[j].piece # more[k].piece
  BY <1>3, <1>4, <1>10, <1>15
<1>20. Ordered(items, reused \o more)
  BY <1>5, <1>16, <1>17, <1>18, <1>19, OrdersOpen
<1> QED BY <1>1, <1>20 DEF more

---------------------------------------------------------------------------
(* The documents and the units on their lines                              *)

\* A number that is given is of a blank document.
LEMMA NextIdIsFree ==
    ASSUME Documented(items, invoices), NextId \in Ids
    PROVE  invoices[NextId] = Blank
<1> DEFINE S == {v \in Ids : invoices[v].status # "NONE"} \cup {0}
<1>1. S \subseteq Nat /\ S # {} /\ IsFiniteSet(S)
  <2>1. Ids \subseteq Nat /\ IsFiniteSet(Ids)
    BY YardAssumption, FS_Interval DEF Ids
  <2>2. IsFiniteSet({v \in Ids : invoices[v].status # "NONE"})
    BY <2>1, FS_Subset
  <2>3. IsFiniteSet(S)
    BY <2>2, FS_AddElement
  <2> QED BY <2>1, <2>3
<1>2. NextId = 1 + Max(S)
  BY DEF NextId
<1> HIDE DEF S
<1>3. Max(S) \in Nat /\ \A x \in S : Max(S) >= x
  BY <1>1, LargestIs
<1>4. NextId \notin S
  BY <1>2, <1>3
<1> QED BY <1>4 DEF Documented, S

\* The holds of an inventory with more pieces are those there were.
LEMMA DocumentedStands ==
    ASSUME NEW its, NEW docs, Documented(its, docs), NEW after, DOMAIN its \subseteq DOMAIN after,
           \A i \in DOMAIN its : after[i].hold \in {its[i].hold, NoDraft},
           \A i \in DOMAIN after \ DOMAIN its : after[i].hold = NoDraft
    PROVE  Documented(after, docs)
<1>1. \A v \in Ids : ItemsOn(docs[v]) \subseteq DOMAIN after
  BY DEF Documented
<1>2. ASSUME NEW i \in DOMAIN after, after[i].hold # NoDraft
      PROVE  docs[after[i].hold].status = "DRAFT" /\ docs[after[i].hold].lines[i] > 0
  <2>1. i \in DOMAIN its /\ after[i].hold = its[i].hold
    BY <1>2
  <2> QED BY <1>2, <2>1 DEF Documented
<1> QED BY <1>1, <1>2 DEF Documented

\* One document is rewritten: no hold may be left on it without a line.
LEMMA OneDocument ==
    ASSUME NEW its, \A i \in DOMAIN its : its[i].hold \in {NoDraft} \cup Ids,
           NEW docs, Documented(its, docs), NEW v \in Ids,
           NEW inv \in DocType, inv.status = "NONE" => inv = Blank,
           ItemsOn(inv) \subseteq DOMAIN its,
           NEW after, DOMAIN after = DOMAIN its,
           \A i \in DOMAIN its : after[i].hold \in {its[i].hold, NoDraft, v},
           \A i \in DOMAIN its : after[i].hold = v => inv.status = "DRAFT" /\ inv.lines[i] > 0
    PROVE  Documented(after, [docs EXCEPT ![v] = inv])
<1> DEFINE new == [docs EXCEPT ![v] = inv]
<1>1. docs \in [Ids -> DocType]
  BY DEF Documented
<1>2. /\ new \in [Ids -> DocType] /\ new[v] = inv
      /\ \A u \in Ids \ {v} : new[u] = docs[u]
  BY <1>1
<1> HIDE DEF new
<1>3. \A u \in Ids : new[u].status = "NONE" => new[u] = Blank
  BY <1>2 DEF Documented
<1>4. \A u \in Ids : ItemsOn(new[u]) \subseteq DOMAIN after
  <2> TAKE u \in Ids
  <2>1. CASE u = v
    BY <1>2, <2>1
  <2>2. CASE u # v
    <3>1. new[u] = docs[u] /\ ItemsOn(docs[u]) \subseteq DOMAIN its
      BY <1>2, <2>2 DEF Documented
    <3> QED BY <3>1
  <2> QED BY <2>1, <2>2
<1>5. ASSUME NEW i \in DOMAIN after, after[i].hold # NoDraft
      PROVE  new[after[i].hold].status = "DRAFT" /\ new[after[i].hold].lines[i] > 0
  <2>1. CASE after[i].hold = v
    BY <1>2, <2>1
  <2>2. CASE after[i].hold # v
    <3>1. after[i].hold = its[i].hold /\ its[i].hold # NoDraft
      BY <1>5, <2>2
    <3>2. docs[its[i].hold].status = "DRAFT" /\ docs[its[i].hold].lines[i] > 0
      BY <3>1 DEF Documented
    <3>3. its[i].hold \in Ids
      BY <3>1
    <3> QED BY <1>2, <2>2, <3>1, <3>2, <3>3
  <2> QED BY <2>1, <2>2
<1>6. Documented(after, new)
  BY <1>2, <1>3, <1>4, <1>5 DEF Documented
<1> QED BY <1>6 DEF new

\* The numbers of documents are finitely many.
LEMMA IdsAreFinite == IsFiniteSet(Ids) /\ Ids \subseteq Nat
BY YardAssumption, FS_Interval DEF Ids

\* What documents ask for is counted in natural numbers.
LEMMA WeightsAreNatural ==
    ASSUME NEW docs \in [Ids -> DocType], NEW p \in Products, NEW T
    PROVE  /\ \A v \in Ids : Weights(docs, p, T)[v] \in Nat
           /\ \A v \in Ids : UnitsIn(docs[v], p, T) \in Nat
           /\ OnLines(docs, p, T) \in Nat
<1>1. ASSUME NEW v \in Ids PROVE UnitsIn(docs[v], p, T) \in Nat
  <2>1. docs[v] \in DocType
    OBVIOUS
  <2>2. docs[v].units[p] \in Nat
    BY <2>1 DEF DocType
  <2> QED BY <2>2 DEF UnitsIn
<1>2. \A v \in Ids : Weights(docs, p, T)[v] \in Nat
  BY <1>1 DEF Weights
<1> QED BY <1>1, <1>2, IdsAreFinite, CountIsNatural DEF OnLines

\* The units on the lines of all the documents but one.
LEMMA AllButOne ==
    ASSUME NEW docs \in [Ids -> DocType], NEW p \in Products, NEW T, NEW v \in Ids
    PROVE  /\ OnLines(docs, p, T) = UnitsIn(docs[v], p, T) + Count(Ids \ {v}, Weights(docs, p, T))
           /\ Count(Ids \ {v}, Weights(docs, p, T)) \in Nat
           /\ UnitsIn(docs[v], p, T) \in Nat
           /\ OnLines(docs, p, T) >= UnitsIn(docs[v], p, T)
<1> DEFINE W == Weights(docs, p, T)
<1>1. \A u \in Ids : W[u] \in Nat
  BY WeightsAreNatural
<1>2. W[v] = UnitsIn(docs[v], p, T)
  BY DEF Weights
<1> HIDE DEF W
<1>3. Count(Ids, W) = W[v] + Count(Ids \ {v}, W)
  BY <1>1, IdsAreFinite, CountOfOneMore
<1>4. IsFiniteSet(Ids \ {v}) /\ \A u \in Ids \ {v} : W[u] \in Nat
  BY <1>1, IdsAreFinite, FS_Subset
<1>5. Count(Ids \ {v}, W) \in Nat
  BY <1>4, CountIsNatural
<1>6. W[v] \in Nat
  BY <1>1
<1> QED BY <1>2, <1>3, <1>5, <1>6 DEF OnLines, W

\* When one document changes, the sum changes by what it asks for.
LEMMA OneDocumentApart ==
    ASSUME NEW docs \in [Ids -> DocType], NEW new \in [Ids -> DocType], NEW p \in Products, NEW T,
           NEW v \in Ids,
           \A u \in Ids \ {v} : new[u].status = docs[u].status /\ new[u].units[p] = docs[u].units[p]
    PROVE  /\ OnLines(new, p, T) + UnitsIn(docs[v], p, T) = OnLines(docs, p, T) + UnitsIn(new[v], p, T)
           /\ OnLines(docs, p, T) >= UnitsIn(docs[v], p, T)
           /\ OnLines(docs, p, T) \in Nat /\ OnLines(new, p, T) \in Nat
           /\ UnitsIn(docs[v], p, T) \in Nat /\ UnitsIn(new[v], p, T) \in Nat
<1> DEFINE R == Ids \ {v}  A == Weights(docs, p, T)  B == Weights(new, p, T)
<1>1. \A u \in R : A[u] = B[u]
  BY DEF Weights, UnitsIn
<1>2. Count(R, A) = Count(R, B)
  <2> HIDE DEF A, B, R
  <2> QED BY <1>1, CountOfSame
<1>3. /\ OnLines(docs, p, T) = UnitsIn(docs[v], p, T) + Count(R, A)
      /\ Count(R, A) \in Nat /\ UnitsIn(docs[v], p, T) \in Nat
  BY AllButOne
<1>4. /\ OnLines(new, p, T) = UnitsIn(new[v], p, T) + Count(R, B)
      /\ UnitsIn(new[v], p, T) \in Nat
  BY AllButOne
<1> HIDE DEF A, B, R
<1> QED BY <1>2, <1>3, <1>4

\* Documents that ask for the same: the stock stands.
LEMMA SameUnits ==
    ASSUME NEW docs, NEW new, NEW p, NEW T,
           \A u \in Ids : new[u].status = docs[u].status /\ new[u].units = docs[u].units
    PROVE  OnLines(new, p, T) = OnLines(docs, p, T)
<1>1. \A u \in Ids : Weights(new, p, T)[u] = Weights(docs, p, T)[u]
  BY DEF Weights, UnitsIn
<1> QED BY <1>1, CountOfSame DEF OnLines

\* The stock adds up again when one document and the product move together.
LEMMA StockMoves ==
    ASSUME NEW docs \in [Ids -> DocType], NEW prods, NEW ent, Stocked(docs, prods, ent),
           NEW v \in Ids, NEW inv \in DocType,
           NEW prods2 \in [Products -> [onHand : Nat, reserved : Nat]],
           \A p \in Products :
             /\ prods2[p].reserved + UnitsIn(docs[v], p, {"DRAFT"})
                  = prods[p].reserved + UnitsIn(inv, p, {"DRAFT"})
             /\ prods2[p].reserved <= prods2[p].onHand
             /\ prods2[p].onHand + UnitsIn(inv, p, Standing)
                  = prods[p].onHand + UnitsIn(docs[v], p, Standing)
    PROVE  Stocked([docs EXCEPT ![v] = inv], prods2, ent)
<1> DEFINE new == [docs EXCEPT ![v] = inv]
<1>1. new \in [Ids -> DocType] /\ new[v] = inv /\ \A u \in Ids \ {v} : new[u] = docs[u]
  OBVIOUS
<1> HIDE DEF new
<1>2. ASSUME NEW p \in Products
      PROVE  /\ prods2[p].reserved = OnLines(new, p, {"DRAFT"})
             /\ prods2[p].reserved <= prods2[p].onHand
             /\ prods2[p].onHand + OnLines(new, p, Standing) = ent[p]
  <2>1. \A u \in Ids \ {v} : new[u].status = docs[u].status /\ new[u].units[p] = docs[u].units[p]
    BY <1>1
  <2>2. /\ OnLines(new, p, {"DRAFT"}) + UnitsIn(docs[v], p, {"DRAFT"})
             = OnLines(docs, p, {"DRAFT"}) + UnitsIn(inv, p, {"DRAFT"})
        /\ OnLines(docs, p, {"DRAFT"}) \in Nat /\ OnLines(new, p, {"DRAFT"}) \in Nat
        /\ UnitsIn(docs[v], p, {"DRAFT"}) \in Nat /\ UnitsIn(inv, p, {"DRAFT"}) \in Nat
    BY <1>1, <2>1, OneDocumentApart
  <2>3. /\ OnLines(new, p, Standing) + UnitsIn(docs[v], p, Standing)
             = OnLines(docs, p, Standing) + UnitsIn(inv, p, Standing)
        /\ OnLines(docs, p, Standing) \in Nat /\ OnLines(new, p, Standing) \in Nat
        /\ UnitsIn(docs[v], p, Standing) \in Nat /\ UnitsIn(inv, p, Standing) \in Nat
    BY <1>1, <2>1, OneDocumentApart
  <2>4. /\ prods[p].reserved = OnLines(docs, p, {"DRAFT"})
        /\ prods[p].onHand + OnLines(docs, p, Standing) = ent[p] /\ ent[p] \in Int
        /\ prods[p].onHand \in Nat /\ prods[p].reserved \in Nat
    BY DEF Stocked
  <2>5. prods2[p].onHand \in Nat /\ prods2[p].reserved \in Nat
    OBVIOUS
  <2> QED BY <2>2, <2>3, <2>4, <2>5
<1>3. Stocked(new, prods2, ent)
  BY <1>2 DEF Stocked
<1> QED BY <1>3 DEF new

\* Documents that ask for nothing that counts may change as they like.
LEMMA StockStands ==
    ASSUME NEW docs \in [Ids -> DocType], NEW prods, NEW ent, Stocked(docs, prods, ent),
           NEW v \in Ids, NEW inv \in DocType,
           \A p \in Products : /\ UnitsIn(inv, p, {"DRAFT"}) = UnitsIn(docs[v], p, {"DRAFT"})
                               /\ UnitsIn(inv, p, Standing) = UnitsIn(docs[v], p, Standing)
    PROVE  Stocked([docs EXCEPT ![v] = inv], prods, ent)
<1>1. prods \in [Products -> [onHand : Nat, reserved : Nat]]
  BY DEF Stocked
<1>2. \A p \in Products : prods[p].reserved <= prods[p].onHand
  BY DEF Stocked
<1> QED BY <1>1, <1>2, StockMoves

\* The sum of the fold that the property uses is this count.
LEMMA UnitsOnCount ==
    ASSUME invoices \in [Ids -> DocType], NEW p \in Products, NEW T
    PROVE  UnitsOn(p, T) = OnLines(invoices, p, T)
<1> DEFINE S == {v \in Ids : invoices[v].status \in T}
           U == [v \in Ids |-> invoices[v].units[p]]
           W == Weights(invoices, p, T)
           Adds(i) == i = [s \in SUBSET S |->
                    IF s = {} THEN 0
                    ELSE invoices[CHOOSE x \in s : TRUE].units[p] + i[s \ {CHOOSE x \in s : TRUE}]]
           it == CHOOSE i : Adds(i)
<1>1. UnitsOn(p, T) = it[S]
  BY DEF UnitsOn, MapThenSumSet, MapThenFoldSet
<1>2. IsFiniteSet(S) /\ \A x \in S : U[x] \in Nat
  <2>1. IsFiniteSet(S)
    BY IdsAreFinite, FS_Subset
  <2>2. \A x \in S : invoices[x] \in DocType
    OBVIOUS
  <2> QED BY <2>1, <2>2 DEF DocType
<1>3. \A i : Folding(S, U, i) <=> Adds(i)
  <2> TAKE i
  <2>1. \A s \in SUBSET S : s # {} =>
            U[CHOOSE x \in s : TRUE] = invoices[CHOOSE x \in s : TRUE].units[p]
    OBVIOUS
  <2>2. [s \in SUBSET S |->
            IF s = {} THEN 0
            ELSE U[CHOOSE x \in s : TRUE] + i[s \ {CHOOSE x \in s : TRUE}]]
          = [s \in SUBSET S |->
            IF s = {} THEN 0
            ELSE invoices[CHOOSE x \in s : TRUE].units[p] + i[s \ {CHOOSE x \in s : TRUE}]]
    BY <2>1
  <2> QED BY <2>2 DEF Folding
<1>4. \E i : Folding(S, U, i)
  <2> HIDE DEF U, S
  <2> QED BY <1>2, FoldingExists
<1>5. Folding(S, U, it)
  <2> HIDE DEF Adds, U, S
  <2>1. Adds(it)
    BY <1>3, <1>4
  <2> QED BY <1>3, <2>1
<1> HIDE DEF it
<1>6. it[S] = Count(S, U)
  <2> HIDE DEF U, S
  <2> QED BY <1>2, <1>5, FoldingCounts
<1>7. Units(S, U) = Units(Ids, W)
  <2>1. \A v \in Ids : v \in S => W[v] = U[v]
    BY DEF Weights, UnitsIn
  <2>2. \A v \in Ids : v \notin S => W[v] = 0
    BY DEF Weights, UnitsIn
  <2>3. S \subseteq Ids
    OBVIOUS
  <2> HIDE DEF S, U, W
  <2>4. \A v \in Ids \ S : 1..W[v] = {}
    BY <2>2
  <2>5. ASSUME NEW x \in Units(Ids, W) PROVE x \in Units(S, U)
    BY <2>1, <2>4 DEF Units
  <2>6. ASSUME NEW x \in Units(S, U) PROVE x \in Units(Ids, W)
    BY <2>1, <2>3 DEF Units
  <2> QED BY <2>5, <2>6
<1> QED BY <1>1, <1>6, <1>7 DEF Count, OnLines

---------------------------------------------------------------------------
(* The catalogue                                                           *)

\* More pieces and fewer reviews.
LEMMA CatalogueStands ==
    ASSUME NEW its, NEW revs, NEW cats, Catalogued(its, revs, cats),
           NEW after, DOMAIN its \subseteq DOMAIN after, NEW fewer \in SUBSET revs
    PROVE  Catalogued(after, fewer, cats)
BY DEF Catalogued

\* A category expects one more name, and pieces are reviewed for it.
LEMMA CatalogueGrows ==
    ASSUME NEW its, NEW revs, NEW cats, Catalogued(its, revs, cats), NEW c \in Categories,
           NEW name \in STRING, NEW more, more \subseteq ReviewType,
           \A r \in more : r.parent \in DOMAIN its
    PROVE  Catalogued(its, revs \cup more, [cats EXCEPT ![c].expected = @ \cup {name}])
<1> DEFINE new == [cats EXCEPT ![c].expected = @ \cup {name}]
<1>1. cats \in [Categories -> CategoryType] /\ cats[c] \in CategoryType
  BY DEF Catalogued
<1>2. /\ new[c] = [cats[c] EXCEPT !.expected = @ \cup {name}]
      /\ DOMAIN new = Categories /\ \A d \in Categories \ {c} : new[d] = cats[d]
      /\ new = [d \in Categories |-> new[d]]
  BY <1>1
<1> HIDE DEF new
<1>3. new[c] \in CategoryType /\ new[c].name = cats[c].name
  BY <1>1, <1>2 DEF CategoryType
<1>4. new \in [Categories -> CategoryType] /\ \A d \in Categories : new[d].name = cats[d].name
  BY <1>1, <1>2, <1>3
<1>5. Catalogued(its, revs \cup more, new)
  BY <1>4 DEF Catalogued
<1> QED BY <1>5 DEF new

\* The new name is nobody's, so the names stay apart.
LEMMA CatalogueRenames ==
    ASSUME NEW its, NEW revs, NEW cats, Catalogued(its, revs, cats), NEW c \in Categories,
           NEW name \in STRING, \A d \in Categories : cats[d].name # name,
           NEW new \in [Categories -> CategoryType],
           new[c].name = name, \A d \in Categories \ {c} : new[d].name = cats[d].name,
           NEW revs2, revs2 \subseteq ReviewType, \A s \in revs2 : \E r \in revs : s.parent = r.parent
    PROVE  Catalogued(its, revs2, new)
<1>1. \A d, e \in Categories : new[d].name = new[e].name => d = e
  BY DEF Catalogued
<1>2. \A s \in revs2 : s.parent \in DOMAIN its
  BY DEF Catalogued
<1> QED BY <1>1, <1>2 DEF Catalogued

---------------------------------------------------------------------------
(* The steps on the tree                                                   *)

\* The five parts of the invariant after a step.
LEMMA YardAfter ==
    ASSUME Inventory(items', missing'), Catalogued(items', reviews', catalog'),
           Ordered(items', orders'), Documented(items', invoices'),
           Stocked(invoices', products', entered')
    PROVE  YardInv'
BY DEF YardInv

\* A step on the tree that puts nothing on and gives no hold.
LEMMA TreeStep ==
    ASSUME YardInv, UNCHANGED <<orders, products, entered, invoices>>,
           Inventory(items', missing'), Catalogued(items', reviews', catalog'),
           DOMAIN items \subseteq DOMAIN items',
           \A i \in DOMAIN items : /\ items'[i].hold = items[i].hold
                                   /\ items'[i].installed => items[i].installed,
           \A i \in DOMAIN items' \ DOMAIN items : items'[i].hold = NoDraft
    PROVE  YardInv'
<1>1. Ordered(items', orders)
  <2>1. Ordered(items, orders)
    BY DEF YardInv
  <2> QED BY <2>1, OrdersStand
<1>2. Documented(items', invoices)
  <2>1. Documented(items, invoices)
    BY DEF YardInv
  <2> QED BY <2>1, DocumentedStands
<1>3. Stocked(invoices, products, entered)
  BY DEF YardInv
<1>4. orders' = orders /\ products' = products /\ entered' = entered /\ invoices' = invoices
  OBVIOUS
<1> QED BY <1>1, <1>2, <1>3, <1>4, YardAfter

\* A loose piece that nobody holds.
LEMMA RegisterItemStep ==
    ASSUME YardInv, NEW i \in Items, RegisterItem(i)
    PROVE  YardInv'
<1> DEFINE r == [root |-> i, parent |-> [j \in {i} |-> NoItem], missing |-> [j \in {i} |-> {}]]
           st == [j \in {i} |-> buildRegisteredItem(NoItem, FALSE)]
<1>1. /\ i \notin DOMAIN items /\ ~isAssemblyItem(i) /\ items' = WithArrived(items, st)
      /\ missing' = missing /\ reviews' = reviews /\ catalog' = catalog
      /\ UNCHANGED <<orders, products, entered, invoices>>
  BY DEF RegisterItem
<1>2. IsNested(r) /\ DOMAIN r.parent = {i} /\ r.missing[i] = {}
  BY FS_EmptySet, FS_Singleton DEF IsNested
<1>3. StagedItems(r, NoItem) = st
  BY <1>1 DEF StagedItems
<1> HIDE DEF r, st
<1>4. StagedMissing(r) = <<>>
  <2>1. /\ StagedMissing(r) \in Seq(MissingType)
        /\ \A e \in Range(StagedMissing(r)) : e.parent \in {i}
        /\ \A e \in Range(StagedMissing(r)) : e.parent # i
    BY <1>2, StagedMissingIs
  <2>2. Range(StagedMissing(r)) = {}
    BY <2>1
  <2> DEFINE s == StagedMissing(r)
  <2>3. s \in Seq(MissingType) /\ DOMAIN s = {}
    BY <2>1, <2>2 DEF Range
  <2> HIDE DEF s
  <2>4. Len(s) \in Nat /\ DOMAIN s = 1..Len(s)
    BY <2>3, LenProperties
  <2>5. Len(s) = 0
    BY <2>3, <2>4
  <2>6. s = <<>>
    BY <2>3, <2>5, EmptySeq
  <2> QED BY <2>6 DEF s
<1>5. Inventory(items, missing)
  BY DEF YardInv
<1>6. missing \o StagedMissing(r) = missing
  BY <1>4, <1>5, ConcatEmptySeq DEF Inventory
<1>7. /\ Inventory(items', missing') /\ DOMAIN items' = DOMAIN items \cup {i}
      /\ \A j \in DOMAIN items : items'[j] = items[j]
      /\ items'[i].hold = NoDraft
  <2>1. DOMAIN r.parent \cap DOMAIN items = {}
    BY <1>1, <1>2
  <2>2. NoItem \in DOMAIN items \cup {NoItem}
    OBVIOUS
  <2> DEFINE new == WithArrived(items, StagedItems(r, NoItem))
  <2>3. Joined(items, missing, r, new, missing \o StagedMissing(r))
    BY <1>2, <1>5, <2>1, <2>2, ArrivedInventory
  <2>4. items' = new
    BY <1>1, <1>3
  <2> HIDE DEF new
  <2> QED BY <1>1, <1>2, <1>6, <2>3, <2>4 DEF Joined
<1>8. Catalogued(items', reviews', catalog')
  <2>1. Catalogued(items, reviews, catalog)
    BY DEF YardInv
  <2> QED BY <1>1, <1>7, <2>1, CatalogueStands
<1>9. \A j \in DOMAIN items' \ DOMAIN items : items'[j].hold = NoDraft
  BY <1>7
<1> QED BY <1>1, <1>7, <1>8, <1>9, TreeStep

\* A nested checklist joins as a tree of its own.
LEMMA RegisterAssemblyStep ==
    ASSUME YardInv, NEW r \in Receipts, RegisterAssembly(r)
    PROVE  YardInv'
<1>1. /\ DOMAIN r.parent \cap DOMAIN items = {} /\ items' = WithArrived(items, StagedItems(r, NoItem))
      /\ missing' = missing \o StagedMissing(r) /\ reviews' = reviews /\ catalog' = catalog
      /\ UNCHANGED <<orders, products, entered, invoices>>
  BY DEF RegisterAssembly, Stageable
<1>2. Inventory(items, missing) /\ IsNested(r)
  BY YardAssumption DEF YardInv
<1>3. /\ Inventory(items', missing') /\ DOMAIN items' = DOMAIN items \cup DOMAIN r.parent
      /\ \A j \in DOMAIN items : items'[j] = items[j]
      /\ \A j \in DOMAIN r.parent : items'[j].hold = NoDraft
  <2>1. NoItem \in DOMAIN items \cup {NoItem}
    OBVIOUS
  <2> DEFINE new == WithArrived(items, StagedItems(r, NoItem))
  <2>2. Joined(items, missing, r, new, missing \o StagedMissing(r))
    BY <1>1, <1>2, <2>1, ArrivedInventory
  <2> HIDE DEF new
  <2>3. items' = new
    BY <1>1 DEF new
  <2> QED BY <1>1, <2>2, <2>3 DEF Joined
<1>4. Catalogued(items', reviews', catalog')
  <2>1. Catalogued(items, reviews, catalog)
    BY DEF YardInv
  <2> QED BY <1>1, <1>3, <2>1, CatalogueStands
<1>5. \A j \in DOMAIN items' \ DOMAIN items : items'[j].hold = NoDraft
  BY <1>3
<1> QED BY <1>1, <1>3, <1>4, <1>5, TreeStep

\* A flag that nothing else depends on.
LEMMA SetNoDesarmarStep ==
    ASSUME YardInv, NEW i \in Items, SetNoDesarmar(i)
    PROVE  YardInv'
<1>1. /\ i \in DOMAIN items /\ items' = [items EXCEPT ![i].noDesarmar = ~@]
      /\ missing' = missing /\ reviews' = reviews /\ catalog' = catalog
      /\ UNCHANGED <<orders, products, entered, invoices>>
  BY DEF SetNoDesarmar
<1>2. Inventory(items, missing) /\ items \in [DOMAIN items -> ItemType]
  BY DEF YardInv, Inventory
<1> DEFINE x == [items[i] EXCEPT !.noDesarmar = ~@]
<1>3. items' = [items EXCEPT ![i] = x]
  BY <1>1
<1>4. /\ x \in ItemType /\ x.parent = items[i].parent /\ x.installed = items[i].installed
      /\ x.complete = items[i].complete /\ x.hold = items[i].hold
  <2>1. items[i] \in ItemType
    BY <1>1, <1>2
  <2> QED BY <2>1 DEF ItemType
<1> HIDE DEF x
<1>5. /\ DOMAIN items' = DOMAIN items /\ items' \in [DOMAIN items -> ItemType]
      /\ \A j \in DOMAIN items : /\ items'[j].parent = items[j].parent
                                 /\ items'[j].installed = items[j].installed
                                 /\ items'[j].complete = items[j].complete
                                 /\ items'[j].hold = items[j].hold
  BY <1>2, <1>3, <1>4
<1>6. Inventory(items', missing')
  BY <1>1, <1>2, <1>5, SideKeeps
<1>7. Catalogued(items', reviews', catalog')
  <2>1. Catalogued(items, reviews, catalog)
    BY DEF YardInv
  <2> QED BY <1>1, <1>5, <2>1, CatalogueStands
<1>8. \A j \in DOMAIN items' \ DOMAIN items : items'[j].hold = NoDraft
  BY <1>5
<1> QED BY <1>1, <1>5, <1>6, <1>7, <1>8, TreeStep

\* What is no longer missing no longer keeps its parent incomplete.
LEMMA CorrectReceiptBaselineStep ==
    ASSUME YardInv, NEW i \in Items, NEW names, CorrectReceiptBaseline(i, names)
    PROVE  YardInv'
<1> DEFINE left == Remaining(missing, [parent : {i}, name : names, origin : {"MISSING_AT_RECEIPT"}])
<1>1. /\ i \in DOMAIN items /\ missing' = left
      /\ items' = syncDirectParentCompleteness(items, left, {i})
      /\ reviews' = reviews /\ catalog' = catalog
      /\ UNCHANGED <<orders, products, entered, invoices>>
  BY DEF CorrectReceiptBaseline
<1>2. Inventory(items, missing) /\ items \in [DOMAIN items -> ItemType]
  BY DEF YardInv, Inventory
<1>3. Inventory(items', missing')
  BY <1>1, <1>2, CorrectedInventory
<1> HIDE DEF left
<1>4. /\ DOMAIN items' = DOMAIN items
      /\ \A j \in DOMAIN items : items'[j].hold = items[j].hold /\ items'[j].installed = items[j].installed
  BY <1>1, <1>2, Synced
<1>5. Catalogued(items', reviews', catalog')
  <2>1. Catalogued(items, reviews, catalog)
    BY DEF YardInv
  <2> QED BY <1>1, <1>4, <2>1, CatalogueStands
<1>6. \A j \in DOMAIN items' \ DOMAIN items : items'[j].hold = NoDraft
  BY <1>4
<1> QED BY <1>1, <1>3, <1>4, <1>5, <1>6, TreeStep

\* The pieces of the category get a review each; none is incomplete yet.
LEMMA GrowCategoryStep ==
    ASSUME YardInv, NEW g \in Growth, GrowCategory(g[1], g[2])
    PROVE  YardInv'
<1> DEFINE c == g[1]  name == g[2]
           more == backfillPendingExpectedComponents(c, name)
<1>1. c \in Categories /\ name \in STRING
  BY YardAssumption
<1>2. /\ catalog' = [catalog EXCEPT ![c].expected = @ \cup {name}]
      /\ reviews' = reviews \cup more
      /\ items' = items /\ missing' = missing
      /\ UNCHANGED <<orders, products, entered, invoices>>
  BY DEF GrowCategory, tree
<1>3. Inventory(items, missing) /\ Catalogued(items, reviews, catalog) /\ DOMAIN items \subseteq Items
  BY DEF YardInv, Inventory
<1>4. \A r \in more : r \in ReviewType /\ r.parent \in DOMAIN items
  <2> TAKE r \in more
  <2>1. PICK i \in DOMAIN items :
           r = [parent |-> i, name |-> name,
                kind |-> IF findMatchingPresentChild(i, name) THEN "ALREADY_PRESENT" ELSE "PENDING_NA"]
    BY DEF backfillPendingExpectedComponents
  <2> QED BY <1>1, <1>3, <2>1 DEF ReviewType
<1>5. more \subseteq ReviewType
  BY <1>4
<1> HIDE DEF c, name, more
<1>6. Catalogued(items, reviews', catalog')
  BY <1>1, <1>2, <1>3, <1>4, <1>5, CatalogueGrows
<1>7. Inventory(items', missing') /\ Catalogued(items', reviews', catalog')
  BY <1>2, <1>3, <1>6
<1> QED BY <1>2, <1>7, TreeStep

\* Entries keep their parents, so completeness stands.
LEMMA RenameCategoryStep ==
    ASSUME YardInv, NEW g \in Renames, RenameCategory(g[1], g[2])
    PROVE  YardInv'
<1> DEFINE c == g[1]  name == g[2]
           m(n) == migrateCategoryName(n, catalog[c].name, name)
           staged == [k \in Categories |->
                        [name |-> IF k = c THEN name ELSE catalog[k].name,
                         expected |-> {m(n) : n \in catalog[k].expected}]]
           stagedMissing == [k \in DOMAIN missing |-> [missing[k] EXCEPT !.name = m(@)]]
           stagedReviews == {[r EXCEPT !.name = m(@)] : r \in reviews}
<1>1. c \in Categories /\ name \in STRING
  BY YardAssumption
<1>2. /\ \A k \in Categories : catalog[k].name # name
      /\ catalog' = staged /\ missing' = stagedMissing /\ reviews' = stagedReviews /\ items' = items
      /\ UNCHANGED <<orders, products, entered, invoices>>
  BY DEF RenameCategory
<1>3. /\ Inventory(items, missing) /\ Catalogued(items, reviews, catalog)
      /\ missing \in Seq(MissingType) /\ reviews \subseteq ReviewType
      /\ catalog \in [Categories -> CategoryType]
  BY DEF YardInv, Inventory, Catalogued
<1>4. \A n \in STRING : m(n) \in STRING
  BY <1>1 DEF migrateCategoryName
<1>5. \A k \in Categories : /\ staged[k] \in CategoryType
                            /\ staged[k].name = IF k = c THEN name ELSE catalog[k].name
  <2> TAKE k \in Categories
  <2> DEFINE new == IF k = c THEN name ELSE catalog[k].name
             names == {m(n) : n \in catalog[k].expected}
  <2>1. catalog[k] \in CategoryType
    BY <1>3
  <2>2. new \in STRING
    BY <1>1, <2>1 DEF CategoryType
  <2>3. names \in SUBSET STRING
    BY <1>4, <2>1 DEF CategoryType
  <2>4. staged[k] = [name |-> new, expected |-> names]
    OBVIOUS
  <2> HIDE DEF new, names, staged
  <2>5. staged[k] \in CategoryType /\ staged[k].name = new
    BY <2>2, <2>3, <2>4 DEF CategoryType
  <2> QED BY <2>5 DEF new
<1>6. staged \in [Categories -> CategoryType]
  <2>1. staged = [k \in Categories |-> staged[k]]
    OBVIOUS
  <2> HIDE DEF staged
  <2> QED BY <1>5, <2>1
<1>7. \A k \in DOMAIN missing :
         stagedMissing[k] \in MissingType /\ stagedMissing[k].parent = missing[k].parent
  <2> TAKE k \in DOMAIN missing
  <2>1. missing[k] \in MissingType
    BY <1>3, ElementOfSeq, LenProperties
  <2>2. m(missing[k].name) \in STRING
    BY <1>4, <2>1 DEF MissingType
  <2>3. stagedMissing[k] = [missing[k] EXCEPT !.name = m(missing[k].name)]
    OBVIOUS
  <2> HIDE DEF m, stagedMissing
  <2> QED BY <2>1, <2>2, <2>3 DEF MissingType
<1>8. DOMAIN stagedMissing = DOMAIN missing /\ stagedMissing \in Seq(MissingType)
  <2>1. stagedMissing = [k \in DOMAIN missing |-> stagedMissing[k]]
    OBVIOUS
  <2>2. DOMAIN missing = 1..Len(missing) /\ Len(missing) \in Nat
    BY <1>3, LenProperties
  <2> HIDE DEF stagedMissing
  <2> QED BY <1>7, <2>1, <2>2
<1>9. \A s \in stagedReviews : s \in ReviewType /\ \E r \in reviews : s.parent = r.parent
  <2> TAKE s \in stagedReviews
  <2>1. PICK r \in reviews : s = [r EXCEPT !.name = m(r.name)]
    OBVIOUS
  <2>2. r \in ReviewType
    BY <1>3
  <2>3. m(r.name) \in STRING
    BY <1>4, <2>2 DEF ReviewType
  <2> HIDE DEF m, stagedReviews
  <2>4. s \in ReviewType /\ s.parent = r.parent
    BY <2>1, <2>2, <2>3 DEF ReviewType
  <2> QED BY <2>4
<1> HIDE DEF c, name, staged, stagedMissing, stagedReviews
<1>10. Catalogued(items, stagedReviews, staged)
  <2>1. stagedReviews \subseteq ReviewType
    BY <1>9
  <2>2. staged[c].name = name /\ \A k \in Categories \ {c} : staged[k].name = catalog[k].name
    BY <1>1, <1>5
  <2>3. \A s \in stagedReviews : \E q \in reviews : s.parent = q.parent
    BY <1>9
  <2> QED BY <1>1, <1>2, <1>3, <1>6, <2>1, <2>2, <2>3, CatalogueRenames
<1>11. Inventory(items, stagedMissing)
  BY <1>3, <1>7, <1>8, RenamedInventory
<1>12. Inventory(items', missing') /\ Catalogued(items', reviews', catalog')
  BY <1>2, <1>10, <1>11
<1> QED BY <1>2, <1>12, TreeStep

\* A component not applicable, missing, present with its own checklist, or seen before.
LEMMA ResolveCatalogReviewStep ==
    ASSUME YardInv, NEW r \in reviews, NEW decision \in Decisions, NEW receipt \in Receipts,
           ResolveCatalogReview(r, decision, receipt)
    PROVE  YardInv'
<1> DEFINE base == IF decision = "PRESENT" THEN WithArrived(items, StagedItems(receipt, r.parent)) ELSE items
           left == CASE decision = "MISSING" -> Append(missing,
                          [parent |-> r.parent, name |-> r.name, origin |-> "MISSING_AT_RECEIPT"])
                     [] decision = "PRESENT" -> missing \o StagedMissing(receipt)
                     [] OTHER -> missing
           new == syncDirectParentCompleteness(base, left, {r.parent})
<1>1. /\ missing' = left /\ items' = new /\ reviews' = reviews \ {r} /\ catalog' = catalog
      /\ UNCHANGED <<orders, products, entered, invoices>>
      /\ decision = "PRESENT" => DOMAIN receipt.parent \cap DOMAIN items = {}
  BY DEF ResolveCatalogReview, PresentChild, Stageable
<1>2. /\ Inventory(items, missing) /\ Catalogued(items, reviews, catalog)
      /\ r.parent \in DOMAIN items /\ r \in ReviewType /\ IsNested(receipt)
      /\ items \in [DOMAIN items -> ItemType]
  BY YardAssumption DEF YardInv, Catalogued, Inventory
<1> DEFINE Good == /\ Inventory(new, left) /\ DOMAIN items \subseteq DOMAIN new
                   /\ \A i \in DOMAIN items : /\ new[i].hold = items[i].hold
                                              /\ new[i].installed = items[i].installed
                   /\ \A i \in DOMAIN new \ DOMAIN items : new[i].hold = NoDraft
<1>3. ASSUME decision = "PRESENT" PROVE Good
  <2>1. left = missing \o StagedMissing(receipt)
        /\ base = WithArrived(items, StagedItems(receipt, r.parent))
    BY <1>3
  <2>2. r.parent \in DOMAIN items \cup {NoItem}
    BY <1>2
  <2>3. Joined(items, missing, receipt, WithArrived(items, StagedItems(receipt, r.parent)),
               missing \o StagedMissing(receipt))
    BY <1>1, <1>2, <1>3, <2>2, ArrivedInventory
  <2> HIDE DEF base, left
  <2>4. Joined(items, missing, receipt, base, left)
    BY <2>1, <2>3
  <2>5. Inventory(base, left) /\ base \in [DOMAIN base -> ItemType]
    BY <2>4 DEF Joined, Inventory
  <2>6. Inventory(new, left)
    BY <2>5, Resynced
  <2>7. /\ DOMAIN new = DOMAIN base
        /\ \A i \in DOMAIN base : new[i].hold = base[i].hold /\ new[i].installed = base[i].installed
    BY <2>5, Synced
  <2> HIDE DEF new
  <2> QED BY <2>4, <2>6, <2>7 DEF Joined
<1>4. ASSUME decision # "PRESENT" PROVE Good
  <2>1. base = items
    BY <1>4
  <2>2. /\ DOMAIN new = DOMAIN base
        /\ \A i \in DOMAIN base : new[i].hold = base[i].hold /\ new[i].installed = base[i].installed
    <3> HIDE DEF base, left
    <3> QED BY <1>2, <2>1, Synced
  <2>3. CASE decision = "MISSING"
    <3> DEFINE e == [parent |-> r.parent, name |-> r.name, origin |-> "MISSING_AT_RECEIPT"]
    <3>1. left = Append(missing, e)
      BY <2>3
    <3>2. e \in MissingType /\ e.parent = r.parent
      BY <1>2 DEF MissingType, ReviewType
    <3> HIDE DEF e, base, left
    <3>3. Inventory(new, left)
      BY <1>2, <2>1, <3>1, <3>2, ListedInventory
    <3> HIDE DEF new
    <3> QED BY <2>1, <2>2, <3>3
  <2>4. CASE decision # "MISSING"
    <3>1. left = missing
      BY <1>4, <2>4
    <3> HIDE DEF base, left
    <3>2. Inventory(new, left)
      BY <1>2, <2>1, <3>1, Resynced
    <3> HIDE DEF new
    <3> QED BY <2>1, <2>2, <3>2
  <2> QED BY <2>3, <2>4
<1>5. Good
  BY <1>3, <1>4
<1> HIDE DEF new, left, base
<1>6. Catalogued(items', reviews', catalog')
  <2>1. reviews \ {r} \in SUBSET reviews
    OBVIOUS
  <2> QED BY <1>1, <1>2, <1>5, <2>1, CatalogueStands
<1> QED BY <1>1, <1>5, <1>6, TreeStep

---------------------------------------------------------------------------
(* The steps of the work orders                                            *)

\* A step that changes the orders only.
LEMMA OrderStep ==
    ASSUME YardInv, UNCHANGED <<tree, reviews, catalog, products, entered, invoices>>,
           Ordered(items, orders')
    PROVE  YardInv'
<1>1. /\ items' = items /\ missing' = missing /\ reviews' = reviews /\ catalog' = catalog
      /\ products' = products /\ entered' = entered /\ invoices' = invoices
  BY DEF tree
<1>2. /\ Inventory(items, missing) /\ Catalogued(items, reviews, catalog)
      /\ Documented(items, invoices) /\ Stocked(invoices, products, entered)
  BY DEF YardInv
<1>3. /\ Inventory(items', missing') /\ Catalogued(items', reviews', catalog')
      /\ Ordered(items', orders') /\ Documented(items', invoices')
      /\ Stocked(invoices', products', entered')
  BY <1>1, <1>2
<1> QED BY <1>3, YardAfter

\* The command looks for an active order; a piece to be put on is loose.
LEMMA CreateManualWorkOrderStep ==
    ASSUME YardInv, NEW o \in ManualOrders, CreateManualWorkOrder(o[1], o[2], o[3])
    PROVE  YardInv'
<1> DEFINE type == o[1]  i == o[2]  dest == o[3]  new == NewOrder(type, i, dest, {})
<1>1. type \in {"DISMANTLING", "INSTALLATION"} /\ i \in Items /\ dest \in Items \cup {NoItem}
  BY YardAssumption
<1>2. /\ i \in DOMAIN items
      /\ type = "INSTALLATION" => ~items[i].installed
      /\ ~activeOrder(i) /\ orders' = Append(orders, new)
      /\ UNCHANGED <<tree, reviews, catalog, products, entered, invoices>>
  BY DEF CreateManualWorkOrder, MayInstall
<1> HIDE DEF type, i, dest
<1>3. items[i].parent \in Items \cup {NoItem}
  <2>1. items[i] \in ItemType
    BY <1>2 DEF YardInv, Inventory
  <2> QED BY <2>1 DEF ItemType
<1>4. new \in OrderType /\ new.piece = i /\ new.type = type
  BY <1>1, <1>3 DEF NewOrder, OrderType, Active
<1> HIDE DEF new
<1>5. Ordered(items, orders)
  BY DEF YardInv
<1>6. \A k \in DOMAIN orders : orders[k].piece = new.piece => ~isActiveStatus(orders[k])
  BY <1>2, <1>4 DEF activeOrder
<1>7. new.type = "INSTALLATION" => ~items[new.piece].installed
  BY <1>2, <1>4
<1>8. Ordered(items, Append(orders, new))
  BY <1>2, <1>4, <1>5, <1>6, <1>7, OrderOpens
<1> QED BY <1>2, <1>8, OrderStep

\* An order of the list.
LEMMA OrderOfThem ==
    ASSUME YardInv, NEW k \in DOMAIN orders
    PROVE  orders[k] \in OrderType
<1>1. orders \in Seq(OrderType)
  BY DEF YardInv, Ordered
<1> QED BY <1>1, ElementOfSeq, LenProperties

\* An order that is rewritten does not come back to life.
LEMMA SetOrderStep ==
    ASSUME YardInv, NEW k \in DOMAIN orders, NEW o \in OrderType, SetOrder(k, o),
           o.piece = orders[k].piece, o.type = orders[k].type,
           isActiveStatus(o) => isActiveStatus(orders[k])
    PROVE  YardInv'
<1>1. /\ orders' = [orders EXCEPT ![k] = o]
      /\ UNCHANGED <<tree, reviews, catalog, products, entered, invoices>>
  BY DEF SetOrder
<1>2. Ordered(items, orders)
  BY DEF YardInv
<1>3. Ordered(items, orders')
  BY <1>1, <1>2, OneOrderFades
<1> QED BY <1>1, <1>3, OrderStep

\* To take and to reassign put the order in progress.
LEMMA TakeOrderStep ==
    ASSUME YardInv, NEW k \in DOMAIN orders, NEW m \in Mechanics,
           TakeOrder(k, m) \/ ReassignOrder(k, m)
    PROVE  YardInv'
<1> DEFINE o == [orders[k] EXCEPT !.by = m, !.status = "IN_PROGRESS"]
<1>1. orders[k] \in OrderType
  BY OrderOfThem
<1>2. isActiveStatus(orders[k]) /\ SetOrder(k, o)
  BY DEF TakeOrder, ReassignOrder, isActiveStatus, Active
<1>3. o \in OrderType /\ o.piece = orders[k].piece /\ o.type = orders[k].type
  BY <1>1 DEF OrderType, Active
<1> HIDE DEF o
<1> QED BY <1>2, <1>3, SetOrderStep

\* A cancelled order is not active.
LEMMA CancelOrderStep ==
    ASSUME YardInv, NEW k \in DOMAIN orders, NEW verified, CancelOrder(k, verified)
    PROVE  YardInv'
<1> DEFINE o == [orders[k] EXCEPT !.status = "CANCELLED"]
<1>1. orders[k] \in OrderType
  BY OrderOfThem
<1>2. isActiveStatus(orders[k]) /\ SetOrder(k, o)
  BY DEF CancelOrder
<1>3. o \in OrderType /\ o.piece = orders[k].piece /\ o.type = orders[k].type
  BY <1>1 DEF OrderType, Active
<1> HIDE DEF o
<1> QED BY <1>2, <1>3, SetOrderStep

\* A photo changes neither piece nor status.
LEMMA AddPhotoStep ==
    ASSUME YardInv, NEW k \in DOMAIN orders, NEW m \in Mechanics, AddPhoto(k, m)
    PROVE  YardInv'
<1>1. orders[k] \in OrderType
  BY OrderOfThem
<1>2. PICK o \in {[orders[k] EXCEPT !.before = TRUE], [orders[k] EXCEPT !.after = TRUE]} : SetOrder(k, o)
  BY DEF AddPhoto
<1>3. /\ o \in OrderType /\ o.piece = orders[k].piece /\ o.type = orders[k].type
      /\ o.status = orders[k].status
  BY <1>1 DEF OrderType
<1>4. isActiveStatus(o) => isActiveStatus(orders[k])
  BY <1>3 DEF isActiveStatus
<1> QED BY <1>2, <1>3, <1>4, SetOrderStep

\* The name of the category of a piece.
LEMMA LabelIsAName ==
    ASSUME YardInv, NEW i \in Items
    PROVE  categoryLabel(i) \in STRING
<1>1. catalog[CatOf[i]] \in CategoryType
  BY YardAssumption DEF YardInv, Catalogued
<1> QED BY <1>1 DEF categoryLabel, CategoryType

\* The piece is off, its entry is listed, its order ends: all three in one command.
LEMMA CompleteDesarmeStep ==
    ASSUME YardInv, NEW k \in DOMAIN orders, NEW m \in Mechanics, CompleteDesarme(k, m)
    PROVE  YardInv'
<1> DEFINE i == orders[k].piece
           was == items[i].parent
           name == categoryLabel(i)
           left == Append(missing, [parent |-> was, name |-> name, origin |-> "REMOVED_AFTER_BASELINE"])
           off == [items EXCEPT ![i].parent = NoItem, ![i].installed = FALSE]
           o == [orders[k] EXCEPT !.status = "COMPLETED"]
<1>1. /\ was # NoItem /\ missing' = left /\ items' = syncDirectParentCompleteness(off, left, {was})
      /\ orders' = [orders EXCEPT ![k] = o]
      /\ reviews' = reviews /\ catalog' = catalog
      /\ products' = products /\ entered' = entered /\ invoices' = invoices
  BY DEF CompleteDesarme
<1>2. /\ Inventory(items, missing) /\ Catalogued(items, reviews, catalog) /\ Ordered(items, orders)
      /\ Documented(items, invoices) /\ Stocked(invoices, products, entered)
      /\ items \in [DOMAIN items -> ItemType] /\ DOMAIN items \subseteq Items
  BY DEF YardInv, Inventory
<1>3. i \in DOMAIN items
  BY <1>2 DEF Ordered
<1>4. name \in STRING
  BY <1>2, <1>3, LabelIsAName
<1>5. orders[k] \in OrderType
  BY OrderOfThem
<1>6. /\ o \in OrderType /\ o.piece = orders[k].piece /\ o.type = orders[k].type
      /\ ~isActiveStatus(o)
  BY <1>5 DEF OrderType, isActiveStatus, Active
<1> HIDE DEF name, o, i
<1>7. Inventory(items', missing')
  BY <1>1, <1>2, <1>3, <1>4, DismantledInventory
<1>8. /\ off \in [DOMAIN items -> ItemType] /\ DOMAIN off = DOMAIN items
      /\ \A j \in DOMAIN items : /\ off[j].hold = items[j].hold
                                 /\ off[j].installed => items[j].installed
  <2> DEFINE x == [items[i] EXCEPT !.parent = NoItem, !.installed = FALSE]
  <2>1. off = [items EXCEPT ![i] = x]
    OBVIOUS
  <2>2. x \in ItemType /\ x.hold = items[i].hold /\ ~x.installed
    <3>1. items[i] \in ItemType
      BY <1>2, <1>3
    <3> QED BY <3>1 DEF ItemType
  <2> HIDE DEF x, off
  <2> QED BY <1>2, <1>3, <2>1, <2>2
<1> HIDE DEF left, off, was
<1>9. /\ DOMAIN items' = DOMAIN items
      /\ \A j \in DOMAIN items : /\ items'[j].hold = items[j].hold
                                 /\ items'[j].installed => items[j].installed
  BY <1>1, <1>8, Synced
<1>10. Ordered(items', orders')
  <2>1. Ordered(items, orders')
    BY <1>1, <1>2, <1>6, OneOrderFades
  <2> QED BY <1>9, <2>1, OrdersStand
<1>11. Documented(items', invoices')
  BY <1>1, <1>2, <1>9, DocumentedStands
<1>12. Catalogued(items', reviews', catalog')
  BY <1>1, <1>2, <1>9, CatalogueStands
<1>13. Stocked(invoices', products', entered')
  BY <1>1, <1>2
<1> QED BY <1>7, <1>10, <1>11, <1>12, <1>13, YardAfter

\* The piece is on below no piece of its own, and the order that ends was its only one.
LEMMA CompleteInstalacionStep ==
    ASSUME YardInv, NEW k \in DOMAIN orders, NEW m \in Mechanics, CompleteInstalacion(k, m)
    PROVE  YardInv'
<1> DEFINE i == orders[k].piece
           dest == orders[k].dest
           found == matchingKnownMissing(dest, i)
           left == IF found = {} THEN missing ELSE RemoveAt(missing, Min(found))
           on == [items EXCEPT ![i].parent = dest, ![i].installed = TRUE]
<1>1. /\ items[i].parent = NoItem /\ dest \in DOMAIN items /\ dest \notin Unit(items, i)
      /\ missing' = left /\ items' = syncDirectParentCompleteness(on, left, {dest})
      /\ isActiveStatus(orders[k])
      /\ orders' = [orders EXCEPT ![k].status = "COMPLETED"]
      /\ reviews' = reviews /\ catalog' = catalog
      /\ products' = products /\ entered' = entered /\ invoices' = invoices
  BY DEF CompleteInstalacion, MayInstall, requireAssignedInProgress, isActiveStatus, Active
<1>2. /\ Inventory(items, missing) /\ Catalogued(items, reviews, catalog) /\ Ordered(items, orders)
      /\ Documented(items, invoices) /\ Stocked(invoices, products, entered)
      /\ items \in [DOMAIN items -> ItemType] /\ DOMAIN items \subseteq Items
      /\ missing \in Seq(MissingType)
  BY DEF YardInv, Inventory
<1>3. i \in DOMAIN items
  BY <1>2 DEF Ordered
<1>4. /\ left \in Seq(MissingType) /\ \A x \in Range(left) : x \in Range(missing)
      /\ \A x \in Range(missing) : x.parent # dest => x \in Range(left)
  <2>1. CASE found = {}
    BY <1>2, <2>1
  <2>2. CASE found # {}
    <3> DEFINE f == Min(found)
    <3>1. DOMAIN missing = 1..Len(missing) /\ Len(missing) \in Nat
      BY <1>2, LenProperties
    <3>2. found \subseteq Nat /\ IsFiniteSet(found)
      <4>1. found \subseteq 1..Len(missing)
        BY <3>1 DEF matchingKnownMissing
      <4>2. IsFiniteSet(1..Len(missing)) /\ 1..Len(missing) \subseteq Nat
        BY <3>1, FS_Interval
      <4> HIDE DEF found
      <4> QED BY <4>1, <4>2, FS_Subset
    <3>3. f \in found
      BY <2>2, <3>2, LeastIs
    <3>4. f \in DOMAIN missing /\ missing[f].parent = dest
      BY <3>3 DEF matchingKnownMissing
    <3>5. left = RemoveAt(missing, f)
      BY <2>2
    <3> HIDE DEF f, found, left
    <3>6. left \in Seq(MissingType) /\ Range(left) = {missing[j] : j \in DOMAIN missing \ {f}}
      BY <1>2, <3>4, <3>5, OneRemoved
    <3> QED BY <3>4, <3>6 DEF Range
  <2> QED BY <2>1, <2>2
<1> HIDE DEF left
<1>5. Inventory(items', missing')
  BY <1>1, <1>2, <1>3, <1>4, InstalledInventory
<1>6. /\ on \in [DOMAIN items -> ItemType] /\ DOMAIN on = DOMAIN items
      /\ \A j \in DOMAIN items : on[j].hold = items[j].hold
      /\ \A j \in DOMAIN items \ {i} : on[j] = items[j]
  <2> DEFINE x == [items[i] EXCEPT !.parent = dest, !.installed = TRUE]
  <2>1. on = [items EXCEPT ![i] = x]
    OBVIOUS
  <2>2. x \in ItemType /\ x.hold = items[i].hold
    <3>1. items[i] \in ItemType /\ dest \in Items
      BY <1>1, <1>2, <1>3
    <3> QED BY <3>1 DEF ItemType
  <2> HIDE DEF x, on, dest, i
  <2> QED BY <1>2, <1>3, <2>1, <2>2
<1> HIDE DEF on
<1>7. /\ DOMAIN items' = DOMAIN items
      /\ \A j \in DOMAIN items : items'[j].hold = items[j].hold
      /\ \A j \in DOMAIN items \ {i} : items'[j].installed => items[j].installed
  <2>1. /\ DOMAIN items' = DOMAIN on
        /\ \A j \in DOMAIN on : items'[j].hold = on[j].hold /\ items'[j].installed = on[j].installed
    BY <1>1, <1>6, Synced
  <2> QED BY <1>6, <2>1
<1>8. Ordered(items', orders')
  BY <1>1, <1>2, <1>7, OrderInstalls
<1>9. Documented(items', invoices')
  BY <1>1, <1>2, <1>7, DocumentedStands
<1>10. Catalogued(items', reviews', catalog')
  BY <1>1, <1>2, <1>7, CatalogueStands
<1>11. Stocked(invoices', products', entered')
  BY <1>1, <1>2
<1> QED BY <1>5, <1>8, <1>9, <1>10, <1>11, YardAfter

---------------------------------------------------------------------------
(* The steps of the counter                                                *)

\* Nothing but holds, sales and flags changed.
AsideOf(its, new) ==
    /\ new \in [DOMAIN its -> ItemType]
    /\ \A i \in DOMAIN its : /\ new[i].parent = its[i].parent
                             /\ new[i].installed = its[i].installed
                             /\ new[i].complete = its[i].complete

\* One document changes, with the holds of its lines, the orders and the stock.
LEMMA CounterStep ==
    ASSUME YardInv, UNCHANGED <<missing, reviews, catalog, entered>>, Ordered(items, orders'),
           NEW v \in Ids, NEW inv \in DocType, invoices' = [invoices EXCEPT ![v] = inv],
           inv.status = "NONE" => inv = Blank, ItemsOn(inv) \subseteq DOMAIN items,
           AsideOf(items, items'),
           \A i \in DOMAIN items : items'[i].hold \in {items[i].hold, NoDraft, v},
           \A i \in DOMAIN items : items'[i].hold = v => inv.status = "DRAFT" /\ inv.lines[i] > 0,
           Stocked([invoices EXCEPT ![v] = inv], products', entered)
    PROVE  YardInv'
<1>1. /\ Inventory(items, missing) /\ Catalogued(items, reviews, catalog)
      /\ Documented(items, invoices) /\ items \in [DOMAIN items -> ItemType]
  BY DEF YardInv, Inventory
<1>2. /\ items' \in [DOMAIN items -> ItemType] /\ DOMAIN items' = DOMAIN items
      /\ \A i \in DOMAIN items : /\ items'[i].parent = items[i].parent
                                 /\ items'[i].installed = items[i].installed
                                 /\ items'[i].complete = items[i].complete
  BY DEF AsideOf
<1>3. missing' = missing /\ reviews' = reviews /\ catalog' = catalog /\ entered' = entered
  OBVIOUS
<1>4. Inventory(items', missing')
  BY <1>1, <1>2, <1>3, SideKeeps
<1>5. Catalogued(items', reviews', catalog')
  BY <1>1, <1>2, <1>3, CatalogueStands
<1>6. Ordered(items', orders')
  BY <1>2, OrdersStand
<1>7. Documented(items', invoices')
  <2>1. \A i \in DOMAIN items : items[i].hold \in {NoDraft} \cup Ids
    <3> TAKE i \in DOMAIN items
    <3>1. items[i] \in ItemType
      BY <1>1
    <3> QED BY <3>1 DEF ItemType
  <2> QED BY <1>1, <1>2, <2>1, OneDocument
<1>8. Stocked(invoices', products', entered')
  BY <1>3
<1> QED BY <1>4, <1>5, <1>6, <1>7, <1>8, YardAfter

\* The same when the inventory stands.
LEMMA DocumentStep ==
    ASSUME YardInv, UNCHANGED <<tree, reviews, catalog, orders, entered>>,
           NEW v \in Ids, NEW inv \in DocType, invoices' = [invoices EXCEPT ![v] = inv],
           inv.status = "NONE" => inv = Blank, ItemsOn(inv) \subseteq DOMAIN items,
           \A i \in DOMAIN items : items[i].hold = v => inv.status = "DRAFT" /\ inv.lines[i] > 0,
           Stocked([invoices EXCEPT ![v] = inv], products', entered)
    PROVE  YardInv'
<1>1. items' = items /\ UNCHANGED <<missing, reviews, catalog, entered>> /\ orders' = orders
  BY DEF tree
<1>2. Ordered(items, orders') /\ AsideOf(items, items')
  BY <1>1 DEF YardInv, Inventory, AsideOf
<1>3. \A i \in DOMAIN items : items'[i].hold \in {items[i].hold, NoDraft, v}
  BY <1>1
<1>4. \A i \in DOMAIN items : items'[i].hold = v => inv.status = "DRAFT" /\ inv.lines[i] > 0
  BY <1>1
<1> QED BY <1>1, <1>2, <1>3, <1>4, CounterStep

\* What there is to know of one document.
LEMMA OneOfThem ==
    ASSUME YardInv, NEW v \in Ids
    PROVE  /\ invoices[v] \in DocType /\ invoices \in [Ids -> DocType]
           /\ invoices[v].status \in DocStatus
           /\ invoices[v].lines \in [Items -> Nat] /\ invoices[v].units \in [Products -> Nat]
           /\ invoices[v].status = "NONE" => invoices[v] = Blank
           /\ ItemsOn(invoices[v]) \subseteq DOMAIN items
           /\ \A i \in DOMAIN items :
                items[i].hold = v => invoices[v].status = "DRAFT" /\ invoices[v].lines[i] > 0
           /\ Stocked(invoices, products, entered) /\ Ordered(items, orders)
           /\ v # NoDraft
<1>1. invoices \in [Ids -> DocType] /\ Stocked(invoices, products, entered) /\ Ordered(items, orders)
  BY DEF YardInv, Documented
<1>2. v # NoDraft
  BY DEF Ids, NoDraft
<1>3. invoices[v] \in DocType
  BY <1>1
<1> QED BY <1>1, <1>2, <1>3 DEF YardInv, Documented, DocType

\* A document there is not.
LEMMA BlankIs ==
    /\ Blank \in DocType /\ Blank.status = "NONE" /\ Blank.lines = [i \in Items |-> 0]
    /\ Blank.units = [p \in Products |-> 0] /\ ItemsOn(Blank) = {}
BY DEF Blank, DocType, DocStatus, ItemsOn

\* The next number is of a blank document, which no hold names.
LEMMA CreateEmptyInvoiceStep ==
    ASSUME YardInv, NEW status \in {"DRAFT", "QUOTE_DRAFT"}, CreateEmptyInvoice(status)
    PROVE  YardInv'
<1> DEFINE v == NextId  inv == [Blank EXCEPT !.status = status]
<1>1. v \in Ids /\ UNCHANGED <<tree, reviews, catalog, orders, products, entered>>
  BY DEF CreateEmptyInvoice
<1>2. invoices[v] = Blank
  BY <1>1, NextIdIsFree DEF YardInv
<1>3. invoices' = [invoices EXCEPT ![v] = inv]
  BY <1>2 DEF CreateEmptyInvoice
<1>4. /\ inv \in DocType /\ inv.status = status /\ inv.status # "NONE" /\ ItemsOn(inv) = {}
      /\ inv.units = [p \in Products |-> 0]
  BY BlankIs DEF DocType, DocStatus, ItemsOn
<1> HIDE DEF v, inv
<1>5. \A i \in DOMAIN items : items[i].hold # v
  BY <1>1, <1>2, OneOfThem, BlankIs
<1>6. Stocked([invoices EXCEPT ![v] = inv], products, entered)
  <2>1. \A p \in Products : /\ UnitsIn(inv, p, {"DRAFT"}) = UnitsIn(invoices[v], p, {"DRAFT"})
                            /\ UnitsIn(inv, p, Standing) = UnitsIn(invoices[v], p, Standing)
    BY <1>2, <1>4, BlankIs DEF UnitsIn
  <2> QED BY <1>1, <1>4, <2>1, OneOfThem, StockStands
<1>7. products' = products
  BY <1>1
<1> QED BY <1>1, <1>3, <1>4, <1>5, <1>6, <1>7, DocumentStep

\* The draft the inventory screens add to is open or new.
LEMMA OpenDraftIs ==
    ASSUME YardInv, openDraft \in Ids
    PROVE  invoices[openDraft].status = "DRAFT" \/ invoices[openDraft] = Blank
<1>1. CASE Drafts = {}
  BY <1>1, NextIdIsFree DEF openDraft, YardInv
<1>2. CASE Drafts # {}
  <2>1. Drafts \subseteq Nat /\ IsFiniteSet(Drafts)
    BY IdsAreFinite, FS_Subset DEF Drafts
  <2>2. Min(Drafts) \in Drafts
    BY <1>2, <2>1, LeastIs
  <2> QED BY <1>2, <2>2 DEF openDraft, Drafts
<1> QED BY <1>1, <1>2

\* A hold is set.
LEMMA HoldSet ==
    ASSUME YardInv, NEW i \in DOMAIN items, NEW d \in {NoDraft} \cup Ids
    PROVE  /\ AsideOf(items, [items EXCEPT ![i].hold = d])
           /\ [items EXCEPT ![i].hold = d][i].hold = d
           /\ \A j \in DOMAIN items \ {i} : [items EXCEPT ![i].hold = d][j] = items[j]
<1> DEFINE x == [items[i] EXCEPT !.hold = d]  new == [items EXCEPT ![i].hold = d]
<1>1. items \in [DOMAIN items -> ItemType] /\ items[i] \in ItemType
  BY DEF YardInv, Inventory
<1>2. new = [items EXCEPT ![i] = x]
  OBVIOUS
<1>3. /\ x \in ItemType /\ x.hold = d /\ x.parent = items[i].parent
      /\ x.installed = items[i].installed /\ x.complete = items[i].complete
  BY <1>1 DEF ItemType
<1> HIDE DEF x, new
<1>4. new \in [DOMAIN items -> ItemType] /\ new[i] = x /\ \A j \in DOMAIN items \ {i} : new[j] = items[j]
  BY <1>1, <1>2, <1>3
<1>5. AsideOf(items, new)
  BY <1>3, <1>4 DEF AsideOf
<1> QED BY <1>3, <1>4, <1>5 DEF new

\* Holds are released.
LEMMA HoldsReleased ==
    ASSUME YardInv, NEW gone
    PROVE  /\ AsideOf(items, releaseLineReservation(items, gone))
           /\ \A i \in DOMAIN items : releaseLineReservation(items, gone)[i].hold
                                        = IF i \in gone THEN NoDraft ELSE items[i].hold
<1> DEFINE new == releaseLineReservation(items, gone)
<1>1. items \in [DOMAIN items -> ItemType]
  BY DEF YardInv, Inventory
<1>2. new = [i \in DOMAIN items |-> new[i]]
  BY DEF releaseLineReservation
<1>3. ASSUME NEW i \in DOMAIN items
      PROVE  /\ new[i] \in ItemType /\ new[i].parent = items[i].parent
             /\ new[i].installed = items[i].installed /\ new[i].complete = items[i].complete
             /\ new[i].hold = IF i \in gone THEN NoDraft ELSE items[i].hold
  <2>1. items[i] \in ItemType
    BY <1>1
  <2>2. CASE i \in gone
    <3>1. new[i] = [items[i] EXCEPT !.hold = NoDraft]
      BY <2>2 DEF releaseLineReservation
    <3> HIDE DEF new
    <3> QED BY <2>1, <2>2, <3>1 DEF ItemType
  <2>3. CASE i \notin gone
    <3>1. new[i] = items[i]
      BY <2>3 DEF releaseLineReservation
    <3> HIDE DEF new
    <3> QED BY <2>1, <2>3, <3>1
  <2> QED BY <2>2, <2>3
<1> HIDE DEF new
<1>4. AsideOf(items, new)
  BY <1>2, <1>3 DEF AsideOf
<1> QED BY <1>3, <1>4 DEF new

\* The hold and the line come together.
LEMMA AddInventoryToDraftStep ==
    ASSUME YardInv, NEW i \in Items, AddInventoryToDraft(i)
    PROVE  YardInv'
<1> DEFINE d == openDraft
           lines == [invoices[d].lines EXCEPT ![i] = @ + 1]
           inv == [invoices[d] EXCEPT !.status = "DRAFT", !.lines = lines]
<1>1. /\ i \in DOMAIN items /\ d \in Ids /\ items' = [items EXCEPT ![i].hold = d]
      /\ UNCHANGED <<missing, reviews, catalog, orders, products, entered>>
      /\ invoices' = [invoices EXCEPT ![d].status = "DRAFT", ![d].lines[i] = @ + 1]
  BY DEF AddInventoryToDraft
<1>2. invoices[d].status = "DRAFT" \/ invoices[d] = Blank
  BY <1>1, OpenDraftIs
<1> HIDE DEF d
<1>3. /\ invoices[d] \in DocType /\ invoices \in [Ids -> DocType]
      /\ invoices[d].lines \in [Items -> Nat]
      /\ ItemsOn(invoices[d]) \subseteq DOMAIN items
      /\ \A j \in DOMAIN items : items[j].hold = d => invoices[d].lines[j] > 0
      /\ Stocked(invoices, products, entered) /\ Ordered(items, orders)
  BY <1>1, OneOfThem
<1>4. invoices' = [invoices EXCEPT ![d] = inv]
  <2>1. invoices'[d] = [[invoices[d] EXCEPT !.status = "DRAFT"] EXCEPT !.lines[i] = @ + 1]
    BY <1>1, <1>3
  <2>2. invoices'[d] = inv
    BY <1>3, <2>1 DEF DocType
  <2> HIDE DEF inv
  <2>3. \A u \in Ids \ {d} : invoices'[u] = invoices[u]
    BY <1>1, <1>3
  <2>4. invoices' = [u \in Ids |-> invoices'[u]]
    BY <1>1, <1>3
  <2> QED BY <1>1, <1>3, <2>2, <2>3, <2>4, ZenonT(60)
<1>5. /\ inv \in DocType /\ inv.status = "DRAFT" /\ inv.units = invoices[d].units
      /\ inv.lines = [invoices[d].lines EXCEPT ![i] = @ + 1]
  <2>1. lines \in [Items -> Nat]
    BY <1>3
  <2> HIDE DEF lines
  <2>2. inv \in DocType /\ inv.status = "DRAFT" /\ inv.units = invoices[d].units /\ inv.lines = lines
    BY <1>3, <2>1 DEF DocType, DocStatus
  <2> QED BY <2>2 DEF lines
<1> HIDE DEF inv, lines
<1>6. inv.lines[i] > 0 /\ \A j \in Items \ {i} : inv.lines[j] = invoices[d].lines[j]
  BY <1>3, <1>5
<1>7. ItemsOn(inv) \subseteq DOMAIN items
  BY <1>1, <1>3, <1>6 DEF ItemsOn
<1>8. /\ AsideOf(items, items') /\ items'[i].hold = d
      /\ \A j \in DOMAIN items \ {i} : items'[j] = items[j]
  BY <1>1, HoldSet
<1>9. \A j \in DOMAIN items : items'[j].hold \in {items[j].hold, NoDraft, d}
  BY <1>8
<1>10. DOMAIN items \subseteq Items
  BY DEF YardInv, Inventory
<1>11. \A j \in DOMAIN items : items'[j].hold = d => inv.status = "DRAFT" /\ inv.lines[j] > 0
  BY <1>3, <1>5, <1>6, <1>8, <1>10
<1>12. Stocked([invoices EXCEPT ![d] = inv], products, entered)
  <2>1. \A p \in Products : /\ UnitsIn(inv, p, {"DRAFT"}) = UnitsIn(invoices[d], p, {"DRAFT"})
                            /\ UnitsIn(inv, p, Standing) = UnitsIn(invoices[d], p, Standing)
    BY <1>2, <1>5, BlankIs DEF UnitsIn, Standing
  <2> QED BY <1>1, <1>3, <1>5, <2>1, StockStands
<1>13. products' = products /\ orders' = orders /\ UNCHANGED <<missing, reviews, catalog, entered>>
  BY <1>1
<1>14. Ordered(items, orders') /\ Stocked([invoices EXCEPT ![d] = inv], products', entered)
  BY <1>3, <1>12, <1>13
<1>15. inv.status = "NONE" => inv = Blank
  BY <1>5
<1> QED BY <1>1, <1>4, <1>5, <1>7, <1>8, <1>9, <1>11, <1>13, <1>14, <1>15, CounterStep

\* A line, or the units of a product, on a document.
WithLine(inv, i, n) == [inv EXCEPT !.lines = [inv.lines EXCEPT ![i] = n]]
WithUnits(inv, p, n) == [inv EXCEPT !.units = [inv.units EXCEPT ![p] = n]]

LineChanged(docs, new, v, i, n) == new = [docs EXCEPT ![v].lines[i] = n]
LineChangedTo(docs, new, v, i, n, inv) ==
    /\ new = [docs EXCEPT ![v] = inv] /\ inv \in DocType
    /\ inv.status = docs[v].status /\ inv.units = docs[v].units /\ inv.lines[i] = n
    /\ \A j \in Items \ {i} : inv.lines[j] = docs[v].lines[j]

\* The nested update of a line is one of the document.
LEMMA LineSet ==
    ASSUME NEW docs \in [Ids -> DocType], NEW v \in Ids, NEW i \in Items, NEW n \in Nat,
           NEW new, LineChanged(docs, new, v, i, n)
    PROVE  LineChangedTo(docs, new, v, i, n, WithLine(docs[v], i, n))
<1> DEFINE lines == [docs[v].lines EXCEPT ![i] = n]
           inv == WithLine(docs[v], i, n)
<1>1. docs[v] \in DocType /\ docs[v].lines \in [Items -> Nat]
  <2>1. docs[v] \in DocType
    OBVIOUS
  <2> QED BY <2>1 DEF DocType
<1>2. lines \in [Items -> Nat] /\ lines[i] = n /\ \A j \in Items \ {i} : lines[j] = docs[v].lines[j]
  BY <1>1
<1>3. inv = [docs[v] EXCEPT !.lines = lines]
  BY DEF WithLine
<1>4. new[v] = [docs[v] EXCEPT !.lines = lines]
  BY DEF LineChanged
<1>5. new = [u \in Ids |-> new[u]] /\ \A u \in Ids \ {v} : new[u] = docs[u]
  BY DEF LineChanged
<1> HIDE DEF lines, inv
<1>6. inv \in DocType /\ inv.status = docs[v].status /\ inv.units = docs[v].units /\ inv.lines = lines
  BY <1>1, <1>2, <1>3 DEF DocType
<1>7. new = [docs EXCEPT ![v] = inv]
  BY <1>3, <1>4, <1>5
<1> QED BY <1>2, <1>6, <1>7 DEF LineChangedTo, inv

UnitsChanged(docs, new, v, p, n) == new = [docs EXCEPT ![v].units[p] = n]
UnitsChangedTo(docs, new, v, p, n, inv) ==
    /\ new = [docs EXCEPT ![v] = inv] /\ inv \in DocType
    /\ inv.status = docs[v].status /\ inv.lines = docs[v].lines /\ inv.units[p] = n
    /\ \A j \in Products \ {p} : inv.units[j] = docs[v].units[j]

\* So is that of units.
LEMMA UnitsSet ==
    ASSUME NEW docs \in [Ids -> DocType], NEW v \in Ids, NEW p \in Products, NEW n \in Nat,
           NEW new, UnitsChanged(docs, new, v, p, n)
    PROVE  UnitsChangedTo(docs, new, v, p, n, WithUnits(docs[v], p, n))
<1> DEFINE units == [docs[v].units EXCEPT ![p] = n]
           inv == WithUnits(docs[v], p, n)
<1>1. docs[v] \in DocType /\ docs[v].units \in [Products -> Nat]
  <2>1. docs[v] \in DocType
    OBVIOUS
  <2> QED BY <2>1 DEF DocType
<1>2. units \in [Products -> Nat] /\ units[p] = n /\ \A q \in Products \ {p} : units[q] = docs[v].units[q]
  BY <1>1
<1>3. inv = [docs[v] EXCEPT !.units = units]
  BY DEF WithUnits
<1>4. new[v] = [docs[v] EXCEPT !.units = units]
  BY DEF UnitsChanged
<1>5. new = [u \in Ids |-> new[u]] /\ \A u \in Ids \ {v} : new[u] = docs[u]
  BY DEF UnitsChanged
<1> HIDE DEF units, inv
<1>6. inv \in DocType /\ inv.status = docs[v].status /\ inv.lines = docs[v].lines /\ inv.units = units
  BY <1>1, <1>2, <1>3 DEF DocType
<1>7. new = [docs EXCEPT ![v] = inv]
  BY <1>3, <1>4, <1>5
<1> QED BY <1>2, <1>6, <1>7 DEF UnitsChangedTo, inv

\* A draft takes the hold with the line; a quote takes the line alone.
LEMMA AddDraftLineStep ==
    ASSUME YardInv, NEW v \in Ids, NEW i \in Items, AddDraftLine(v, i)
    PROVE  YardInv'
<1> DEFINE inv == WithLine(invoices[v], i, 1)
<1>1. /\ i \in DOMAIN items /\ requireDraft(v)
      /\ invoices[v].status = "DRAFT" => items' = [items EXCEPT ![i].hold = v]
      /\ invoices[v].status # "DRAFT" => items' = items
      /\ invoices' = [invoices EXCEPT ![v].lines[i] = 1]
      /\ UNCHANGED <<missing, reviews, catalog, orders, products, entered>>
  BY DEF AddDraftLine
<1>2. /\ invoices[v] \in DocType /\ invoices \in [Ids -> DocType]
      /\ ItemsOn(invoices[v]) \subseteq DOMAIN items
      /\ \A j \in DOMAIN items :
           items[j].hold = v => invoices[v].status = "DRAFT" /\ invoices[v].lines[j] > 0
      /\ Stocked(invoices, products, entered) /\ Ordered(items, orders)
  BY OneOfThem
<1>3. 1 \in Nat
  OBVIOUS
<1>4. /\ invoices' = [invoices EXCEPT ![v] = inv] /\ inv \in DocType
      /\ inv.status = invoices[v].status /\ inv.units = invoices[v].units /\ inv.lines[i] = 1
      /\ \A j \in Items \ {i} : inv.lines[j] = invoices[v].lines[j]
  <2>1. LineChanged(invoices, invoices', v, i, 1)
    BY <1>1 DEF LineChanged
  <2>2. LineChangedTo(invoices, invoices', v, i, 1, inv)
    BY <1>2, <1>3, <2>1, LineSet
  <2> HIDE DEF inv
  <2> QED BY <2>2 DEF LineChangedTo
<1> HIDE DEF inv
<1>5. DOMAIN items \subseteq Items /\ items \in [DOMAIN items -> ItemType]
  BY DEF YardInv, Inventory
<1>6. ItemsOn(inv) \subseteq DOMAIN items
  BY <1>1, <1>2, <1>4 DEF ItemsOn
<1>7. inv.status = "NONE" => inv = Blank
  BY <1>1, <1>4 DEF requireDraft
<1>8. Stocked([invoices EXCEPT ![v] = inv], products', entered)
  <2>1. \A p \in Products : /\ UnitsIn(inv, p, {"DRAFT"}) = UnitsIn(invoices[v], p, {"DRAFT"})
                            /\ UnitsIn(inv, p, Standing) = UnitsIn(invoices[v], p, Standing)
    BY <1>4 DEF UnitsIn
  <2>2. products' = products
    BY <1>1
  <2> QED BY <1>2, <1>4, <2>1, <2>2, StockStands
<1>9. /\ AsideOf(items, items')
      /\ \A j \in DOMAIN items : items'[j].hold \in {items[j].hold, NoDraft, v}
      /\ \A j \in DOMAIN items : items'[j].hold = v => inv.status = "DRAFT" /\ inv.lines[j] > 0
  <2>1. CASE invoices[v].status = "DRAFT"
    <3>1. /\ AsideOf(items, items') /\ items'[i].hold = v
          /\ \A j \in DOMAIN items \ {i} : items'[j] = items[j]
      BY <1>1, <2>1, HoldSet
    <3> QED BY <1>2, <1>4, <1>5, <2>1, <3>1
  <2>2. CASE invoices[v].status # "DRAFT"
    <3>1. items' = items /\ \A j \in DOMAIN items : items[j].hold # v
      BY <1>1, <1>2, <2>2
    <3> QED BY <1>5, <3>1 DEF AsideOf
  <2> QED BY <2>1, <2>2
<1>10. Ordered(items, orders')
  BY <1>1, <1>2
<1>11. UNCHANGED <<missing, reviews, catalog, entered>>
  BY <1>1
<1> QED BY <1>4, <1>6, <1>7, <1>8, <1>9, <1>10, <1>11, CounterStep

\* A draft lets the piece go with a line of it; the holds on its other lines stay.
LEMMA RemoveItemLineStep ==
    ASSUME YardInv, NEW v \in Ids, NEW i \in Items, RemoveItemLine(v, i)
    PROVE  YardInv'
<1> DEFINE n == invoices[v].lines[i] - 1  inv == WithLine(invoices[v], i, n)
<1>1. /\ requireDraft(v) /\ invoices[v].lines[i] > 0
      /\ invoices[v].status = "DRAFT" => items' = releaseLineReservation(items, {i})
      /\ invoices[v].status # "DRAFT" => items' = items
      /\ invoices' = [invoices EXCEPT ![v].lines[i] = n]
      /\ UNCHANGED <<missing, reviews, catalog, orders, products, entered>>
  BY DEF RemoveItemLine
<1>2. /\ invoices[v] \in DocType /\ invoices \in [Ids -> DocType]
      /\ invoices[v].lines \in [Items -> Nat]
      /\ ItemsOn(invoices[v]) \subseteq DOMAIN items
      /\ \A j \in DOMAIN items :
           items[j].hold = v => invoices[v].status = "DRAFT" /\ invoices[v].lines[j] > 0
      /\ Stocked(invoices, products, entered) /\ Ordered(items, orders) /\ v # NoDraft
  BY OneOfThem
<1>3. n \in Nat
  BY <1>1, <1>2
<1> HIDE DEF n
<1>4. /\ invoices' = [invoices EXCEPT ![v] = inv] /\ inv \in DocType
      /\ inv.status = invoices[v].status /\ inv.units = invoices[v].units /\ inv.lines[i] = n
      /\ \A j \in Items \ {i} : inv.lines[j] = invoices[v].lines[j]
  <2>1. LineChanged(invoices, invoices', v, i, n)
    BY <1>1 DEF LineChanged
  <2>2. LineChangedTo(invoices, invoices', v, i, n, inv)
    BY <1>2, <1>3, <2>1, LineSet
  <2> HIDE DEF inv
  <2> QED BY <2>2 DEF LineChangedTo
<1> HIDE DEF inv
<1>5. DOMAIN items \subseteq Items /\ items \in [DOMAIN items -> ItemType]
  BY DEF YardInv, Inventory
<1>6. ItemsOn(inv) \subseteq DOMAIN items
  <2>1. \A j \in Items : inv.lines[j] > 0 => invoices[v].lines[j] > 0
    BY <1>1, <1>4
  <2> QED BY <1>2, <2>1 DEF ItemsOn
<1>7. inv.status = "NONE" => inv = Blank
  BY <1>1, <1>4 DEF requireDraft
<1>8. Stocked([invoices EXCEPT ![v] = inv], products', entered)
  <2>1. \A p \in Products : /\ UnitsIn(inv, p, {"DRAFT"}) = UnitsIn(invoices[v], p, {"DRAFT"})
                            /\ UnitsIn(inv, p, Standing) = UnitsIn(invoices[v], p, Standing)
    BY <1>4 DEF UnitsIn
  <2>2. products' = products
    BY <1>1
  <2> QED BY <1>2, <1>4, <2>1, <2>2, StockStands
<1>9. /\ AsideOf(items, items')
      /\ \A j \in DOMAIN items : items'[j].hold \in {items[j].hold, NoDraft, v}
      /\ \A j \in DOMAIN items : items'[j].hold = v => inv.status = "DRAFT" /\ inv.lines[j] > 0
  <2>1. CASE invoices[v].status = "DRAFT"
    <3>1. /\ AsideOf(items, items')
          /\ \A j \in DOMAIN items : items'[j].hold = IF j \in {i} THEN NoDraft ELSE items[j].hold
      BY <1>1, <2>1, HoldsReleased
    <3> QED BY <1>2, <1>4, <1>5, <2>1, <3>1
  <2>2. CASE invoices[v].status # "DRAFT"
    <3>1. items' = items /\ \A j \in DOMAIN items : items[j].hold # v
      BY <1>1, <1>2, <2>2
    <3> QED BY <1>5, <3>1 DEF AsideOf
  <2> QED BY <2>1, <2>2
<1>10. Ordered(items, orders')
  BY <1>1, <1>2
<1>11. UNCHANGED <<missing, reviews, catalog, entered>>
  BY <1>1
<1> QED BY <1>4, <1>6, <1>7, <1>8, <1>9, <1>10, <1>11, CounterStep

\* The units of one product on an open document change, with what a draft reserves.
LEMMA UnitsStep ==
    ASSUME YardInv, UNCHANGED <<tree, reviews, catalog, orders, entered>>,
           NEW v \in Ids, requireDraft(v), NEW p \in Products, NEW n \in Nat,
           invoices' = [invoices EXCEPT ![v].units[p] = n],
           NEW r \in Nat,
           invoices[v].status = "DRAFT" =>
              /\ products' = [products EXCEPT ![p].reserved = r] /\ r <= products[p].onHand
              /\ r + invoices[v].units[p] = products[p].reserved + n,
           invoices[v].status # "DRAFT" => products' = products
    PROVE  YardInv'
<1> DEFINE inv == WithUnits(invoices[v], p, n)
<1>1. /\ invoices[v] \in DocType /\ invoices \in [Ids -> DocType]
      /\ invoices[v].units \in [Products -> Nat]
      /\ ItemsOn(invoices[v]) \subseteq DOMAIN items
      /\ \A j \in DOMAIN items :
           items[j].hold = v => invoices[v].status = "DRAFT" /\ invoices[v].lines[j] > 0
      /\ Stocked(invoices, products, entered)
  BY OneOfThem
<1>2. /\ invoices' = [invoices EXCEPT ![v] = inv] /\ inv \in DocType
      /\ inv.status = invoices[v].status /\ inv.lines = invoices[v].lines /\ inv.units[p] = n
      /\ \A q \in Products \ {p} : inv.units[q] = invoices[v].units[q]
  <2>1. UnitsChanged(invoices, invoices', v, p, n)
    BY DEF UnitsChanged
  <2>2. UnitsChangedTo(invoices, invoices', v, p, n, inv)
    BY <1>1, <2>1, UnitsSet
  <2> HIDE DEF inv
  <2> QED BY <2>2 DEF UnitsChangedTo
<1> HIDE DEF inv
<1>3. ItemsOn(inv) \subseteq DOMAIN items
  BY <1>1, <1>2 DEF ItemsOn
<1>4. inv.status # "NONE" /\ inv.status \notin Standing /\ invoices[v].status \notin Standing
  BY <1>2 DEF requireDraft, Standing
<1>5. products \in [Products -> [onHand : Nat, reserved : Nat]]
      /\ \A q \in Products : products[q].reserved <= products[q].onHand
  BY <1>1 DEF Stocked
<1>6. Stocked([invoices EXCEPT ![v] = inv], products', entered)
  <2>1. CASE invoices[v].status = "DRAFT"
    <3> DEFINE x == [products[p] EXCEPT !.reserved = r]
    <3>1. products' = [products EXCEPT ![p] = x]
      BY <2>1
    <3>2. x \in [onHand : Nat, reserved : Nat] /\ x.reserved = r /\ x.onHand = products[p].onHand
      <4>1. products[p] \in [onHand : Nat, reserved : Nat]
        BY <1>5
      <4> QED BY <4>1
    <3> HIDE DEF x
    <3>3. /\ products' \in [Products -> [onHand : Nat, reserved : Nat]] /\ products'[p] = x
          /\ \A q \in Products \ {p} : products'[q] = products[q]
      BY <1>5, <3>1, <3>2
    <3>4. \A q \in Products :
            /\ products'[q].reserved + UnitsIn(invoices[v], q, {"DRAFT"})
                 = products[q].reserved + UnitsIn(inv, q, {"DRAFT"})
            /\ products'[q].reserved <= products'[q].onHand
            /\ products'[q].onHand + UnitsIn(inv, q, Standing)
                 = products[q].onHand + UnitsIn(invoices[v], q, Standing)
      <4> TAKE q \in Products
      <4>1. UnitsIn(inv, q, Standing) = 0 /\ UnitsIn(invoices[v], q, Standing) = 0
        BY <1>4 DEF UnitsIn
      <4>2. UnitsIn(inv, q, {"DRAFT"}) = inv.units[q] /\ UnitsIn(invoices[v], q, {"DRAFT"}) = invoices[v].units[q]
        BY <1>2, <2>1 DEF UnitsIn
      <4>3. CASE q = p
        BY <1>2, <2>1, <3>2, <3>3, <4>1, <4>2, <4>3
      <4>4. CASE q # p
        <5>1. inv.units[q] = invoices[v].units[q] /\ products'[q] = products[q]
          BY <1>2, <3>3, <4>4
        <5> QED BY <1>5, <4>1, <4>2, <5>1
      <4> QED BY <4>3, <4>4
    <3> QED BY <1>1, <1>2, <3>3, <3>4, StockMoves
  <2>2. CASE invoices[v].status # "DRAFT"
    <3>1. \A q \in Products : /\ UnitsIn(inv, q, {"DRAFT"}) = UnitsIn(invoices[v], q, {"DRAFT"})
                              /\ UnitsIn(inv, q, Standing) = UnitsIn(invoices[v], q, Standing)
      BY <1>2, <1>4, <2>2 DEF UnitsIn
    <3>2. products' = products
      BY <2>2
    <3> QED BY <1>1, <1>2, <3>1, <3>2, StockStands
  <2> QED BY <2>1, <2>2
<1>7. \A j \in DOMAIN items : items[j].hold = v => inv.status = "DRAFT" /\ inv.lines[j] > 0
  BY <1>1, <1>2
<1> QED BY <1>2, <1>3, <1>4, <1>6, <1>7, DocumentStep

\* A draft never asks for more units than are reserved.
LEMMA StockFacts ==
    ASSUME YardInv, NEW p \in Products, NEW v \in Ids
    PROVE  /\ products[p] \in [onHand : Nat, reserved : Nat]
           /\ products[p].onHand \in Nat /\ products[p].reserved \in Nat
           /\ products[p].reserved <= products[p].onHand
           /\ invoices[v].units[p] \in Nat
           /\ invoices[v].status = "DRAFT" => invoices[v].units[p] <= products[p].reserved
<1>1. Stocked(invoices, products, entered) /\ invoices \in [Ids -> DocType]
  BY DEF YardInv, Documented
<1>2. products[p] \in [onHand : Nat, reserved : Nat]
  BY <1>1 DEF Stocked
<1>3. products[p].reserved = OnLines(invoices, p, {"DRAFT"}) /\ products[p].reserved <= products[p].onHand
  BY <1>1 DEF Stocked
<1>4. invoices[v].units[p] \in Nat
  BY OneOfThem
<1>5. ASSUME invoices[v].status = "DRAFT" PROVE invoices[v].units[p] <= products[p].reserved
  <2>1. UnitsIn(invoices[v], p, {"DRAFT"}) = invoices[v].units[p]
    BY <1>5 DEF UnitsIn
  <2>2. OnLines(invoices, p, {"DRAFT"}) >= UnitsIn(invoices[v], p, {"DRAFT"})
    BY <1>1, AllButOne
  <2> QED BY <1>2, <1>3, <1>4, <2>1, <2>2
<1> QED BY <1>2, <1>3, <1>4, <1>5

\* The code's Math.max(0, n) of a natural number is that number.
LEMMA MaxOfTwo == ASSUME NEW n \in Nat PROVE Max({0, n}) = n
<1> DEFINE S == {0, n}
<1>1. S \subseteq Nat /\ S # {} /\ IsFiniteSet(S) /\ n \in S
  <2>1. S = {0} \cup {n}
    OBVIOUS
  <2>2. IsFiniteSet({0})
    BY FS_Singleton
  <2>3. IsFiniteSet({0} \cup {n})
    BY <2>2, FS_AddElement
  <2> QED BY <2>1, <2>3
<1> HIDE DEF S
<1>2. Max(S) \in S /\ Max(S) >= n
  BY <1>1, LargestIs
<1>3. Max(S) = n
  BY <1>2 DEF S
<1> QED BY <1>3 DEF S

\* So what is released is never cut off at zero.
LEMMA UnitsReleased ==
    ASSUME YardInv, NEW units \in [Products -> Nat],
           \A p \in Products : units[p] <= products[p].reserved
    PROVE  /\ releaseUnits(units) \in [Products -> [onHand : Nat, reserved : Nat]]
           /\ \A p \in Products :
                releaseUnits(units)[p] = [products[p] EXCEPT !.reserved = products[p].reserved - units[p]]
<1> DEFINE new == releaseUnits(units)
<1>1. products \in [Products -> [onHand : Nat, reserved : Nat]]
  BY DEF YardInv, Stocked
<1>2. ASSUME NEW p \in Products
      PROVE  /\ new[p] = [products[p] EXCEPT !.reserved = products[p].reserved - units[p]]
             /\ new[p] \in [onHand : Nat, reserved : Nat]
  <2> DEFINE r == products[p].reserved  n == r - units[p]
  <2>1. new[p] = [products[p] EXCEPT !.reserved = Max({0, r - units[p]})]
    BY DEF releaseUnits
  <2>2. products[p] \in [onHand : Nat, reserved : Nat]
    BY <1>1
  <2>3. n \in Nat
    BY <2>2
  <2>4. Max({0, r - units[p]}) = n
    BY <2>3, MaxOfTwo
  <2> HIDE DEF new, n
  <2>5. new[p] = [products[p] EXCEPT !.reserved = n]
    BY <2>1, <2>4
  <2>6. new[p] \in [onHand : Nat, reserved : Nat]
    BY <2>2, <2>3, <2>5
  <2> QED BY <2>5, <2>6 DEF n
<1>3. new = [p \in Products |-> new[p]]
  BY DEF releaseUnits
<1> HIDE DEF new
<1>4. new \in [Products -> [onHand : Nat, reserved : Nat]]
  BY <1>2, <1>3
<1> QED BY <1>2, <1>4 DEF new

\* Units free of reservations are reserved with the line.
LEMMA AddQtyLineStep ==
    ASSUME YardInv, NEW v \in Ids, NEW p \in Products, NEW n \in 1..MaxUnits, AddQtyLine(v, p, n)
    PROVE  YardInv'
<1> DEFINE u == invoices[v].units[p] + n  r == products[p].reserved + n
<1>1. /\ products[p].onHand \in Nat /\ products[p].reserved \in Nat /\ invoices[v].units[p] \in Nat
      /\ n \in Nat
  BY YardAssumption, StockFacts
<1>2. /\ requireDraft(v) /\ n <= products[p].onHand - products[p].reserved
      /\ invoices' = [invoices EXCEPT ![v].units[p] = u]
      /\ invoices[v].status = "DRAFT" => products' = [products EXCEPT ![p].reserved = r]
      /\ invoices[v].status # "DRAFT" => products' = products
      /\ UNCHANGED <<tree, reviews, catalog, orders, entered>>
  BY DEF AddQtyLine, availableToReserve
<1>3. u \in Nat /\ r \in Nat /\ r <= products[p].onHand
      /\ r + invoices[v].units[p] = products[p].reserved + u
  BY <1>1, <1>2
<1> HIDE DEF u, r
<1> QED BY <1>2, <1>3, UnitsStep, ZenonT(60)

\* The reservation moves by as much as the line, and is not cut off at zero.
LEMMA SetDraftLineQuantityStep ==
    ASSUME YardInv, NEW v \in Ids, NEW p \in Products, NEW n \in 1..MaxUnits,
           SetDraftLineQuantity(v, p, n)
    PROVE  YardInv'
<1> DEFINE was == invoices[v].units[p]  r == products[p].reserved + n - was
           r2 == IF invoices[v].status = "DRAFT" THEN r ELSE 0
<1>1. /\ products[p].onHand \in Nat /\ products[p].reserved \in Nat /\ was \in Nat /\ n \in Nat
      /\ products[p].reserved <= products[p].onHand
      /\ invoices[v].status = "DRAFT" => was <= products[p].reserved
  BY YardAssumption, StockFacts
<1>2. /\ requireDraft(v)
      /\ invoices[v].status = "DRAFT" => n <= was + (products[p].onHand - products[p].reserved)
      /\ invoices' = [invoices EXCEPT ![v].units[p] = n]
      /\ invoices[v].status = "DRAFT" =>
           products' = [products EXCEPT ![p].reserved =
                          IF products[p].reserved + n >= was THEN products[p].reserved + n - was ELSE 0]
      /\ invoices[v].status # "DRAFT" => products' = products
      /\ UNCHANGED <<tree, reviews, catalog, orders, entered>>
  BY DEF SetDraftLineQuantity, adjustQtyReservation, availableToReserve
<1>3. invoices[v].status = "DRAFT" =>
        /\ r \in Nat /\ r <= products[p].onHand /\ r + was = products[p].reserved + n
        /\ products' = [products EXCEPT ![p].reserved = r]
  BY <1>1, <1>2
<1>4. /\ r2 \in Nat
      /\ invoices[v].status = "DRAFT" =>
           /\ products' = [products EXCEPT ![p].reserved = r2] /\ r2 <= products[p].onHand
           /\ r2 + invoices[v].units[p] = products[p].reserved + n
  BY <1>3
<1> HIDE DEF r2
<1> QED BY <1>1, <1>2, <1>4, UnitsStep, ZenonT(60)

\* All the units of the line are released.
LEMMA RemoveQtyLineStep ==
    ASSUME YardInv, NEW v \in Ids, NEW p \in Products, RemoveQtyLine(v, p)
    PROVE  YardInv'
<1> DEFINE was == invoices[v].units[p]
           units == [q \in Products |-> IF q = p THEN was ELSE 0]
           r == IF invoices[v].status = "DRAFT" THEN products[p].reserved - was ELSE 0
<1>1. /\ products[p].onHand \in Nat /\ products[p].reserved \in Nat /\ was \in Nat
      /\ products[p].reserved <= products[p].onHand
      /\ invoices[v].status = "DRAFT" => was <= products[p].reserved
  BY StockFacts
<1>2. /\ requireDraft(v)
      /\ invoices' = [invoices EXCEPT ![v].units[p] = 0]
      /\ invoices[v].status = "DRAFT" => products' = releaseUnits(units)
      /\ invoices[v].status # "DRAFT" => products' = products
      /\ UNCHANGED <<tree, reviews, catalog, orders, entered>>
  BY DEF RemoveQtyLine
<1>3. r \in Nat
  BY <1>1
<1>4. ASSUME invoices[v].status = "DRAFT"
      PROVE  /\ products' = [products EXCEPT ![p].reserved = r] /\ r <= products[p].onHand
             /\ r + was = products[p].reserved + 0
  <2>1. units \in [Products -> Nat] /\ units[p] = was /\ \A q \in Products \ {p} : units[q] = 0
    BY <1>1
  <2>2. products \in [Products -> [onHand : Nat, reserved : Nat]]
    BY DEF YardInv, Stocked
  <2> HIDE DEF units
  <2>3. \A q \in Products : units[q] <= products[q].reserved
    <3> TAKE q \in Products
    <3>1. products[q].reserved \in Nat
      BY <2>2
    <3> QED BY <1>1, <1>4, <2>1, <3>1
  <2>4. /\ products' \in [Products -> [onHand : Nat, reserved : Nat]]
        /\ \A q \in Products :
             products'[q] = [products[q] EXCEPT !.reserved = products[q].reserved - units[q]]
    BY <1>2, <1>4, <2>1, <2>3, UnitsReleased
  <2>5. r = products[p].reserved - was
    BY <1>4
  <2> HIDE DEF r
  <2>6. \A q \in Products \ {p} : products'[q] = products[q]
    <3> TAKE q \in Products \ {p}
    <3>1. products[q] \in [onHand : Nat, reserved : Nat]
      BY <2>2
    <3>2. products[q].reserved - units[q] = products[q].reserved
      BY <2>1, <3>1
    <3>3. products'[q] = [products[q] EXCEPT !.reserved = products[q].reserved]
      BY <2>4, <3>2
    <3> QED BY <3>1, <3>3
  <2>7. products'[p] = [products[p] EXCEPT !.reserved = r]
    BY <2>1, <2>4, <2>5
  <2>8. products' = [products EXCEPT ![p] = [products[p] EXCEPT !.reserved = r]]
    BY <2>2, <2>4, <2>6, <2>7
  <2> QED BY <1>1, <2>5, <2>8
<1> HIDE DEF r
<1>5. 0 \in Nat
  OBVIOUS
<1> QED BY <1>2, <1>3, <1>4, <1>5, UnitsStep, ZenonT(60)

\* The holds and units of a draft go with it; the number may be given again.
LEMMA DiscardDraftStep ==
    ASSUME YardInv, NEW v \in Ids, DiscardDraft(v)
    PROVE  YardInv'
<1>1. /\ requireDraft(v) /\ invoices' = [invoices EXCEPT ![v] = Blank]
      /\ invoices[v].status = "DRAFT" =>
           /\ items' = releaseLineReservation(items, ItemsOn(invoices[v]))
           /\ products' = releaseUnits(invoices[v].units)
      /\ invoices[v].status # "DRAFT" => items' = items /\ products' = products
      /\ UNCHANGED <<missing, reviews, catalog, orders, entered>>
  BY DEF DiscardDraft
<1>2. /\ invoices[v] \in DocType /\ invoices \in [Ids -> DocType]
      /\ invoices[v].units \in [Products -> Nat]
      /\ \A j \in DOMAIN items :
           items[j].hold = v => invoices[v].status = "DRAFT" /\ invoices[v].lines[j] > 0
      /\ Stocked(invoices, products, entered) /\ Ordered(items, orders) /\ v # NoDraft
  BY OneOfThem
<1>3. DOMAIN items \subseteq Items /\ items \in [DOMAIN items -> ItemType]
  BY DEF YardInv, Inventory
<1>4. invoices[v].status \notin Standing
  BY <1>1 DEF requireDraft, Standing
<1>5. \A p \in Products : UnitsIn(Blank, p, {"DRAFT"}) = 0 /\ UnitsIn(Blank, p, Standing) = 0
  BY BlankIs DEF UnitsIn, Standing
<1>6. /\ AsideOf(items, items')
      /\ \A j \in DOMAIN items : items'[j].hold \in {items[j].hold, NoDraft}
      /\ \A j \in DOMAIN items : items'[j].hold # v
  <2>1. CASE invoices[v].status = "DRAFT"
    <3>1. /\ AsideOf(items, items')
          /\ \A j \in DOMAIN items :
               items'[j].hold = IF j \in ItemsOn(invoices[v]) THEN NoDraft ELSE items[j].hold
      BY <1>1, <2>1, HoldsReleased
    <3>2. \A j \in DOMAIN items : items[j].hold = v => j \in ItemsOn(invoices[v])
      BY <1>2, <1>3 DEF ItemsOn
    <3> QED BY <1>2, <3>1, <3>2
  <2>2. CASE invoices[v].status # "DRAFT"
    <3>1. items' = items /\ \A j \in DOMAIN items : items[j].hold # v
      BY <1>1, <1>2, <2>2
    <3> QED BY <1>3, <3>1 DEF AsideOf
  <2> QED BY <2>1, <2>2
<1>7. Stocked([invoices EXCEPT ![v] = Blank], products', entered)
  <2>1. CASE invoices[v].status = "DRAFT"
    <3> DEFINE units == invoices[v].units
    <3>1. \A p \in Products : units[p] <= products[p].reserved
      BY <2>1, StockFacts
    <3>2. units \in [Products -> Nat] /\ products' = releaseUnits(units)
      BY <1>1, <1>2, <2>1
    <3> HIDE DEF units
    <3>3. /\ products' \in [Products -> [onHand : Nat, reserved : Nat]]
          /\ \A p \in Products :
               products'[p] = [products[p] EXCEPT !.reserved = products[p].reserved - units[p]]
      BY <3>1, <3>2, UnitsReleased
    <3>4. \A p \in Products :
            /\ products'[p].reserved + UnitsIn(invoices[v], p, {"DRAFT"})
                 = products[p].reserved + UnitsIn(Blank, p, {"DRAFT"})
            /\ products'[p].reserved <= products'[p].onHand
            /\ products'[p].onHand + UnitsIn(Blank, p, Standing)
                 = products[p].onHand + UnitsIn(invoices[v], p, Standing)
      <4> TAKE p \in Products
      <4>1. /\ UnitsIn(invoices[v], p, {"DRAFT"}) = units[p]
            /\ UnitsIn(invoices[v], p, Standing) = 0
        BY <1>4, <2>1 DEF UnitsIn, units
      <4>2. /\ products[p] \in [onHand : Nat, reserved : Nat]
            /\ products[p].reserved <= products[p].onHand
        BY StockFacts
      <4>3. units[p] \in Nat /\ units[p] <= products[p].reserved
        BY <3>1, <3>2
      <4>4. products'[p].reserved = products[p].reserved - units[p] /\ products'[p].onHand = products[p].onHand
        BY <3>3, <4>2
      <4> QED BY <1>5, <4>1, <4>2, <4>3, <4>4
    <3> QED BY <1>2, <3>3, <3>4, BlankIs, StockMoves
  <2>2. CASE invoices[v].status # "DRAFT"
    <3>1. \A p \in Products : /\ UnitsIn(Blank, p, {"DRAFT"}) = UnitsIn(invoices[v], p, {"DRAFT"})
                              /\ UnitsIn(Blank, p, Standing) = UnitsIn(invoices[v], p, Standing)
      BY <1>4, <1>5, <2>2 DEF UnitsIn
    <3>2. products' = products
      BY <1>1, <2>2
    <3> QED BY <1>2, <3>1, <3>2, BlankIs, StockStands
  <2> QED BY <2>1, <2>2
<1>8. Ordered(items, orders')
  BY <1>1, <1>2
<1>9. UNCHANGED <<missing, reviews, catalog, entered>>
  BY <1>1
<1>10. ItemsOn(Blank) \subseteq DOMAIN items
  BY BlankIs
<1>11. \A j \in DOMAIN items : items'[j].hold \in {items[j].hold, NoDraft, v}
  BY <1>6
<1>12. \A j \in DOMAIN items : items'[j].hold = v => Blank.status = "DRAFT" /\ Blank.lines[j] > 0
  BY <1>6
<1> QED BY <1>1, <1>6, <1>7, <1>8, <1>9, <1>10, <1>11, <1>12, BlankIs, CounterStep

\* Age is nobody's hold.
LEMMA SixHoursPassStep ==
    ASSUME YardInv, SixHoursPass
    PROVE  YardInv'
<1>1. /\ invoices' = [v \in Ids |-> [invoices[v] EXCEPT !.old = invoices[v].status = "DRAFT"]]
      /\ items' = items /\ missing' = missing /\ reviews' = reviews /\ catalog' = catalog
      /\ orders' = orders /\ products' = products /\ entered' = entered
  BY DEF SixHoursPass, tree
<1>2. /\ Inventory(items, missing) /\ Catalogued(items, reviews, catalog) /\ Ordered(items, orders)
      /\ Documented(items, invoices) /\ Stocked(invoices, products, entered)
  BY DEF YardInv
<1>3. \A v \in Ids : /\ invoices'[v] \in DocType
                     /\ invoices'[v].status = invoices[v].status
                     /\ invoices'[v].lines = invoices[v].lines
                     /\ invoices'[v].units = invoices[v].units
                     /\ invoices[v] = Blank => invoices'[v] = Blank
  <2> TAKE v \in Ids
  <2>1. invoices'[v] = [invoices[v] EXCEPT !.old = invoices[v].status = "DRAFT"]
    BY <1>1
  <2>2. invoices[v] \in DocType
    BY OneOfThem
  <2> DEFINE old == invoices[v].status = "DRAFT"
  <2>3. old \in BOOLEAN /\ invoices'[v] = [invoices[v] EXCEPT !.old = old]
    BY <2>1
  <2>4. invoices[v] = Blank => old = FALSE
    BY BlankIs
  <2> HIDE DEF old
  <2>5. /\ invoices'[v] \in DocType
        /\ invoices'[v].status = invoices[v].status
        /\ invoices'[v].lines = invoices[v].lines
        /\ invoices'[v].units = invoices[v].units
    BY <2>2, <2>3 DEF DocType
  <2>6. ASSUME invoices[v] = Blank PROVE invoices'[v] = Blank
    <3>1. invoices'[v] = [Blank EXCEPT !.old = FALSE]
      BY <2>3, <2>4, <2>6
    <3>2. [Blank EXCEPT !.old = FALSE] = Blank
      <4>1. Blank.old = FALSE
        BY DEF Blank
      <4> QED BY <4>1, BlankIs DEF DocType
    <3> QED BY <3>1, <3>2
  <2> QED BY <2>5, <2>6
<1>4. invoices' \in [Ids -> DocType]
  BY <1>1, <1>3
<1>5. Documented(items, invoices')
  <2>1. \A v \in Ids : invoices'[v].status = "NONE" => invoices'[v] = Blank
    BY <1>2, <1>3 DEF Documented
  <2>2. \A v \in Ids : ItemsOn(invoices'[v]) \subseteq DOMAIN items
    <3> TAKE v \in Ids
    <3>1. ItemsOn(invoices[v]) \subseteq DOMAIN items
      BY OneOfThem
    <3> QED BY <1>3, <3>1 DEF ItemsOn
  <2>3. ASSUME NEW i \in DOMAIN items, items[i].hold # NoDraft
        PROVE  invoices'[items[i].hold].status = "DRAFT" /\ invoices'[items[i].hold].lines[i] > 0
    <3>1. items[i].hold \in Ids
      <4>1. items[i] \in ItemType
        BY <1>2 DEF Inventory
      <4> QED BY <2>3, <4>1 DEF ItemType
    <3>2. invoices[items[i].hold].status = "DRAFT" /\ invoices[items[i].hold].lines[i] > 0
      BY <1>2, <2>3 DEF Documented
    <3> QED BY <1>3, <3>1, <3>2
  <2> QED BY <1>4, <2>1, <2>2, <2>3 DEF Documented
<1>6. Stocked(invoices', products, entered)
  <2>1. \A p \in Products, T \in {{"DRAFT"}, Standing} :
           OnLines(invoices', p, T) = OnLines(invoices, p, T)
    BY <1>3, SameUnits
  <2>2. \A p \in Products : OnLines(invoices', p, {"DRAFT"}) = OnLines(invoices, p, {"DRAFT"})
                            /\ OnLines(invoices', p, Standing) = OnLines(invoices, p, Standing)
    BY <2>1
  <2> QED BY <1>2, <2>2 DEF Stocked
<1>7. /\ Inventory(items', missing') /\ Catalogued(items', reviews', catalog')
      /\ Ordered(items', orders') /\ Documented(items', invoices')
      /\ Stocked(invoices', products', entered')
  BY <1>1, <1>2, <1>5, <1>6
<1> QED BY <1>7, YardAfter

\* A quote holds nothing, before and after.
LEMMA IssueQuoteStep ==
    ASSUME YardInv, NEW v \in Ids, IssueQuote(v)
    PROVE  YardInv'
<1> DEFINE inv == [invoices[v] EXCEPT !.status = "QUOTE_ISSUED"]
<1>1. /\ invoices[v].status = "QUOTE_DRAFT" /\ invoices' = [invoices EXCEPT ![v] = inv]
      /\ UNCHANGED <<tree, reviews, catalog, orders, products, entered>>
  BY DEF IssueQuote
<1>2. /\ invoices[v] \in DocType /\ invoices \in [Ids -> DocType]
      /\ ItemsOn(invoices[v]) \subseteq DOMAIN items
      /\ \A j \in DOMAIN items : items[j].hold = v => invoices[v].status = "DRAFT"
      /\ Stocked(invoices, products, entered)
  BY OneOfThem
<1>3. /\ inv \in DocType /\ inv.status = "QUOTE_ISSUED" /\ inv.units = invoices[v].units
      /\ inv.lines = invoices[v].lines
  BY <1>2 DEF DocType, DocStatus
<1> HIDE DEF inv
<1>4. ItemsOn(inv) \subseteq DOMAIN items
  BY <1>2, <1>3 DEF ItemsOn
<1>5. Stocked([invoices EXCEPT ![v] = inv], products', entered)
  <2>1. \A p \in Products : /\ UnitsIn(inv, p, {"DRAFT"}) = UnitsIn(invoices[v], p, {"DRAFT"})
                            /\ UnitsIn(inv, p, Standing) = UnitsIn(invoices[v], p, Standing)
    BY <1>1, <1>3 DEF UnitsIn, Standing
  <2>2. products' = products
    BY <1>1
  <2> QED BY <1>2, <1>3, <2>1, <2>2, StockStands
<1>6. \A j \in DOMAIN items : items[j].hold # v
  BY <1>1, <1>2
<1>7. inv.status = "NONE" => inv = Blank
  BY <1>3
<1> QED BY <1>1, <1>3, <1>4, <1>5, <1>6, <1>7, DocumentStep

\* Nor does its copy.
LEMMA DuplicateQuoteStep ==
    ASSUME YardInv, NEW v \in Ids, DuplicateQuote(v)
    PROVE  YardInv'
<1> DEFINE u == NextId  inv == [invoices[v] EXCEPT !.status = "QUOTE_DRAFT"]
<1>1. /\ u \in Ids /\ invoices' = [invoices EXCEPT ![u] = inv]
      /\ UNCHANGED <<tree, reviews, catalog, orders, products, entered>>
  BY DEF DuplicateQuote
<1>2. invoices[u] = Blank
  BY <1>1, NextIdIsFree DEF YardInv
<1> HIDE DEF u
<1>3. /\ invoices[v] \in DocType /\ invoices \in [Ids -> DocType]
      /\ ItemsOn(invoices[v]) \subseteq DOMAIN items
      /\ Stocked(invoices, products, entered)
  BY OneOfThem
<1>4. /\ inv \in DocType /\ inv.status = "QUOTE_DRAFT" /\ inv.lines = invoices[v].lines
  BY <1>3 DEF DocType, DocStatus
<1> HIDE DEF inv
<1>5. ItemsOn(inv) \subseteq DOMAIN items
  BY <1>3, <1>4 DEF ItemsOn
<1>6. Stocked([invoices EXCEPT ![u] = inv], products', entered)
  <2>1. \A p \in Products : /\ UnitsIn(inv, p, {"DRAFT"}) = UnitsIn(invoices[u], p, {"DRAFT"})
                            /\ UnitsIn(inv, p, Standing) = UnitsIn(invoices[u], p, Standing)
    BY <1>2, <1>4, BlankIs DEF UnitsIn, Standing
  <2>2. products' = products
    BY <1>1
  <2> QED BY <1>1, <1>3, <1>4, <2>1, <2>2, StockStands
<1>7. \A j \in DOMAIN items : items[j].hold # u
  BY <1>1, <1>2, OneOfThem, BlankIs
<1>8. inv.status = "NONE" => inv = Blank
  BY <1>4
<1> QED BY <1>1, <1>4, <1>5, <1>6, <1>7, <1>8, DocumentStep

---------------------------------------------------------------------------
(* The steps of a sale                                                     *)

\* Pieces are sold: nothing of the tree changes and their holds go.
LEMMA SoldAside ==
    ASSUME YardInv, NEW its, AsideOf(items, its), NEW gone
    PROVE  /\ AsideOf(items, markItemSold(its, gone))
           /\ \A i \in DOMAIN items :
                markItemSold(its, gone)[i].hold = IF i \in gone THEN NoDraft ELSE its[i].hold
<1> DEFINE new == markItemSold(its, gone)
<1>1. /\ its \in [DOMAIN items -> ItemType] /\ DOMAIN its = DOMAIN items
      /\ \A i \in DOMAIN items : /\ its[i].parent = items[i].parent
                                 /\ its[i].installed = items[i].installed
                                 /\ its[i].complete = items[i].complete
  BY DEF AsideOf
<1>2. new = [i \in DOMAIN items |-> new[i]]
  BY <1>1 DEF markItemSold
<1>3. ASSUME NEW i \in DOMAIN items
      PROVE  /\ new[i] \in ItemType /\ new[i].parent = its[i].parent
             /\ new[i].installed = its[i].installed /\ new[i].complete = its[i].complete
             /\ new[i].hold = IF i \in gone THEN NoDraft ELSE its[i].hold
  <2>1. its[i] \in ItemType
    BY <1>1
  <2>2. CASE i \in gone
    <3>1. new[i] = [its[i] EXCEPT !.sold = TRUE, !.hold = NoDraft]
      BY <1>1, <2>2 DEF markItemSold
    <3> HIDE DEF new
    <3> QED BY <2>1, <2>2, <3>1 DEF ItemType
  <2>3. CASE i \notin gone
    <3>1. new[i] = its[i]
      BY <1>1, <2>3 DEF markItemSold
    <3> HIDE DEF new
    <3> QED BY <2>1, <2>3, <3>1
  <2> QED BY <2>2, <2>3
<1> HIDE DEF new
<1>4. AsideOf(items, new)
  BY <1>1, <1>2, <1>3 DEF AsideOf
<1> QED BY <1>3, <1>4 DEF new

\* What a document delivers has the pieces of its lines.
LEMMA DeliveredIs ==
    ASSUME YardInv, NEW its, DOMAIN its = DOMAIN items, NEW v \in Ids
    PROVE  /\ snapshotDeliveredAssembly(v, its) \subseteq Items
           /\ ItemsOn(invoices[v]) \subseteq DeliveredBy(v, its)
<1>1. DOMAIN items \subseteq Items
  BY DEF YardInv, Inventory
<1>2. \A i \in ItemsOn(invoices[v]) : i \in Items /\ i \in Unit(its, i) /\ Unit(its, i) \subseteq Items
  BY <1>1 DEF ItemsOn, Unit, collectSubtree
<1>3. ASSUME NEW x \in snapshotDeliveredAssembly(v, its) PROVE x \in Items
  <2>1. PICK i \in ItemsOn(invoices[v]) : x \in (IF isAssemblyItem(i) THEN Unit(its, i) ELSE {})
    BY DEF snapshotDeliveredAssembly
  <2>2. x \in Unit(its, i)
    BY <2>1
  <2> QED BY <1>2, <2>2
<1>4. ASSUME NEW x \in ItemsOn(invoices[v]) PROVE x \in DeliveredBy(v, its)
  <2>1. x \in (IF isAssemblyItem(x) THEN Unit(its, x) ELSE {x})
    BY <1>2
  <2> QED BY <2>1 DEF DeliveredBy
<1> QED BY <1>3, <1>4

\* A sale is recognised, with the holds and the reservations it stands on.
LEMMA FreezeStep ==
    ASSUME YardInv, NEW v \in Ids, NEW status \in Standing, NEW its, NEW prods,
           invoices[v].status \in {"DRAFT", "QUOTE_ISSUED"},
           AsideOf(items, its),
           \A i \in DOMAIN items : \/ its[i].hold = items[i].hold
                                   \/ i \in ItemsOn(invoices[v]) /\ its[i].hold = v,
           prods \in [Products -> [onHand : Nat, reserved : Nat]],
           \A p \in Products :
              /\ prods[p].onHand = products[p].onHand /\ prods[p].reserved <= prods[p].onHand
              /\ prods[p].reserved >= invoices[v].units[p]
              /\ prods[p].reserved + UnitsIn(invoices[v], p, {"DRAFT"})
                   = products[p].reserved + invoices[v].units[p],
           freezeCostsAndApplyRecognitionInventory(v, status, its, prods)
    PROVE  YardInv'
<1> DEFINE snap == snapshotDeliveredAssembly(v, its)
           inv == [invoices[v] EXCEPT !.status = status, !.old = FALSE, !.delivered = snap]
           gone == DeliveredBy(v, its)
           pieces == {i \in ItemsOn(invoices[v]) : its[i].installed}
<1>1. /\ items' = markItemSold(its, gone) /\ orders' = ensureDismantlingOrder(v, pieces)
      /\ products' = [p \in Products |-> [onHand |-> prods[p].onHand - invoices[v].units[p],
                                          reserved |-> prods[p].reserved - invoices[v].units[p]]]
      /\ invoices' = [invoices EXCEPT ![v].status = status, ![v].old = FALSE, ![v].delivered = snap]
      /\ UNCHANGED <<missing, reviews, catalog, entered>>
  BY DEF freezeCostsAndApplyRecognitionInventory
<1>2. /\ invoices[v] \in DocType /\ invoices \in [Ids -> DocType]
      /\ invoices[v].units \in [Products -> Nat]
      /\ ItemsOn(invoices[v]) \subseteq DOMAIN items
      /\ \A j \in DOMAIN items : items[j].hold = v => invoices[v].lines[j] > 0
      /\ Stocked(invoices, products, entered) /\ Ordered(items, orders) /\ v # NoDraft
  BY OneOfThem
<1>3. /\ DOMAIN its = DOMAIN items /\ Inventory(items, missing) /\ DOMAIN items \subseteq Items
      /\ \A i \in DOMAIN items : its[i].installed = items[i].installed
  BY DEF AsideOf, YardInv, Inventory
<1>4. snap \subseteq Items /\ ItemsOn(invoices[v]) \subseteq gone
  BY <1>3, DeliveredIs
<1> HIDE DEF snap, gone
<1>5. /\ inv \in DocType /\ inv.status = status /\ inv.lines = invoices[v].lines
      /\ inv.units = invoices[v].units
  BY <1>2, <1>4 DEF DocType, DocStatus, Standing
<1>6. invoices' = [invoices EXCEPT ![v] = inv]
  <2>1. invoices'[v] = [[[invoices[v] EXCEPT !.status = status] EXCEPT !.old = FALSE] EXCEPT !.delivered = snap]
    BY <1>1, <1>2
  <2>2. invoices'[v] = inv
    BY <1>2, <2>1 DEF DocType
  <2> HIDE DEF inv
  <2>3. \A u \in Ids \ {v} : invoices'[u] = invoices[u]
    BY <1>1, <1>2
  <2>4. invoices' = [u \in Ids |-> invoices'[u]]
    BY <1>1, <1>2
  <2> QED BY <1>2, <2>2, <2>3, <2>4
<1> HIDE DEF inv
<1>7. /\ AsideOf(items, items')
      /\ \A i \in DOMAIN items : items'[i].hold = IF i \in gone THEN NoDraft ELSE its[i].hold
  BY <1>1, SoldAside
<1>8. \A i \in DOMAIN items : items'[i].hold \in {items[i].hold, NoDraft} /\ items'[i].hold # v
  <2> TAKE i \in DOMAIN items
  <2>1. CASE i \in gone
    BY <1>2, <1>7, <2>1
  <2>2. CASE i \notin gone
    <3>1. i \notin ItemsOn(invoices[v]) /\ items'[i].hold = its[i].hold
      BY <1>4, <1>7, <2>2
    <3>2. its[i].hold = items[i].hold
      BY <3>1
    <3>3. items[i].hold # v
      BY <1>2, <1>3, <3>1 DEF ItemsOn
    <3> QED BY <3>1, <3>2, <3>3
  <2> QED BY <2>1, <2>2
<1>9. Ordered(items, orders')
  <2>1. pieces \in SUBSET DOMAIN items /\ \A i \in pieces : items[i].installed
    BY <1>2, <1>3
  <2> HIDE DEF pieces
  <2> QED BY <1>1, <1>2, <1>3, <2>1, SaleOrders
<1> HIDE DEF pieces
<1>10. ItemsOn(inv) \subseteq DOMAIN items
  BY <1>2, <1>5 DEF ItemsOn
<1>11. inv.status = "NONE" => inv = Blank
  BY <1>5 DEF Standing
<1>12. ASSUME NEW p \in Products
       PROVE  /\ products'[p].reserved = prods[p].reserved - invoices[v].units[p]
              /\ products'[p].onHand = prods[p].onHand - invoices[v].units[p]
              /\ products'[p] \in [onHand : Nat, reserved : Nat]
              /\ prods[p].reserved \in Nat /\ prods[p].onHand \in Nat /\ invoices[v].units[p] \in Nat
  <2>1. prods[p] \in [onHand : Nat, reserved : Nat] /\ invoices[v].units[p] \in Nat
    BY <1>2
  <2> DEFINE h == prods[p].onHand - invoices[v].units[p]  r == prods[p].reserved - invoices[v].units[p]
  <2>2. products'[p] = [onHand |-> h, reserved |-> r]
    BY <1>1
  <2>3. h \in Nat /\ r \in Nat
    BY <2>1
  <2> HIDE DEF h, r
  <2>4. products'[p] \in [onHand : Nat, reserved : Nat] /\ products'[p].onHand = h /\ products'[p].reserved = r
    BY <2>2, <2>3
  <2> QED BY <2>1, <2>4 DEF h, r
<1>13. Stocked([invoices EXCEPT ![v] = inv], products', entered)
  <2>1. products' \in [Products -> [onHand : Nat, reserved : Nat]]
    BY <1>1, <1>12
  <2>2. \A p \in Products :
          /\ products'[p].reserved + UnitsIn(invoices[v], p, {"DRAFT"})
               = products[p].reserved + UnitsIn(inv, p, {"DRAFT"})
          /\ products'[p].reserved <= products'[p].onHand
          /\ products'[p].onHand + UnitsIn(inv, p, Standing)
               = products[p].onHand + UnitsIn(invoices[v], p, Standing)
    <3> TAKE p \in Products
    <3>1. /\ UnitsIn(inv, p, {"DRAFT"}) = 0 /\ UnitsIn(inv, p, Standing) = invoices[v].units[p]
          /\ UnitsIn(invoices[v], p, Standing) = 0
      BY <1>5 DEF UnitsIn, Standing
    <3>2. UnitsIn(invoices[v], p, {"DRAFT"}) \in Nat
      BY <1>2 DEF UnitsIn
    <3>3. products[p].reserved \in Nat
      BY StockFacts
    <3>4. /\ prods[p].onHand = products[p].onHand /\ prods[p].reserved <= prods[p].onHand
          /\ prods[p].reserved >= invoices[v].units[p]
          /\ prods[p].reserved + UnitsIn(invoices[v], p, {"DRAFT"})
               = products[p].reserved + invoices[v].units[p]
      OBVIOUS
    <3>5. products[p].onHand = prods[p].onHand
      BY <3>4
    <3> DEFINE pr == prods[p].reserved  ph == prods[p].onHand  u == invoices[v].units[p]
               w == UnitsIn(invoices[v], p, {"DRAFT"})  r == products[p].reserved
    <3>6. pr \in Nat /\ ph \in Nat /\ u \in Nat /\ w \in Nat /\ r \in Nat
      BY <1>12, <3>2, <3>3
    <3>7. products'[p].reserved = pr - u /\ products'[p].onHand = ph - u
      BY <1>12
    <3>8. pr <= ph /\ pr >= u /\ pr + w = r + u
      BY <3>4
    <3>9. /\ products'[p].reserved + w = r + UnitsIn(inv, p, {"DRAFT"})
          /\ products'[p].reserved <= products'[p].onHand
          /\ products'[p].onHand + UnitsIn(inv, p, Standing) = products[p].onHand + UnitsIn(invoices[v], p, Standing)
      <4> HIDE DEF pr, ph, u, w, r
      <4>1. (pr - u) + w = r + 0 /\ (pr - u) <= (ph - u) /\ (ph - u) + u = ph + 0
        BY <3>6, <3>8
      <4>2. u = invoices[v].units[p] /\ ph = products[p].onHand
        BY <3>5 DEF u, ph
      <4> QED BY <3>1, <3>7, <4>1, <4>2
    <3> QED BY <3>9
  <2> QED BY <1>2, <1>5, <2>1, <2>2, StockMoves
<1>14. \A i \in DOMAIN items : items'[i].hold \in {items[i].hold, NoDraft, v}
  BY <1>8
<1>15. \A i \in DOMAIN items : items'[i].hold = v => inv.status = "DRAFT" /\ inv.lines[i] > 0
  BY <1>8
<1>16. UNCHANGED <<missing, reviews, catalog, entered>>
  BY <1>1
<1> QED BY <1>5, <1>6, <1>7, <1>9, <1>10, <1>11, <1>13, <1>14, <1>15, <1>16, CounterStep

\* A draft is recognised over its own holds and reservations.
LEMMA RecognisedStep ==
    ASSUME YardInv, NEW v \in Ids, ConfirmInvoice(v) \/ IssueConduce(v)
    PROVE  YardInv'
<1>1. PICK status \in Standing :
         freezeCostsAndApplyRecognitionInventory(v, status, items, products)
  BY DEF ConfirmInvoice, IssueConduce, Standing
<1>2. invoices[v].status = "DRAFT"
  BY DEF ConfirmInvoice, IssueConduce
<1>3. AsideOf(items, items)
  BY DEF AsideOf, YardInv, Inventory
<1>4. products \in [Products -> [onHand : Nat, reserved : Nat]]
  BY DEF YardInv, Stocked
<1>5. \A p \in Products :
         /\ products[p].onHand = products[p].onHand /\ products[p].reserved <= products[p].onHand
         /\ products[p].reserved >= invoices[v].units[p]
         /\ products[p].reserved + UnitsIn(invoices[v], p, {"DRAFT"})
              = products[p].reserved + invoices[v].units[p]
  <2> TAKE p \in Products
  <2>1. UnitsIn(invoices[v], p, {"DRAFT"}) = invoices[v].units[p]
    BY <1>2 DEF UnitsIn
  <2> QED BY <1>2, <2>1, StockFacts
<1>6. \A i \in DOMAIN items : \/ items[i].hold = items[i].hold
                              \/ i \in ItemsOn(invoices[v]) /\ items[i].hold = v
  OBVIOUS
<1> QED BY <1>1, <1>2, <1>3, <1>4, <1>5, <1>6, FreezeStep

\* What a quote holds for the time of its conversion.
Prepared(v, held) ==
    /\ AsideOf(items, held.items)
    /\ \A i \in DOMAIN items :
         /\ held.items[i] = IF i \in ItemsOn(invoices[v]) /\ items[i].hold = NoDraft
                            THEN [items[i] EXCEPT !.hold = v] ELSE items[i]
         /\ \/ held.items[i].hold = items[i].hold
            \/ i \in ItemsOn(invoices[v]) /\ held.items[i].hold = v
    /\ held.products \in [Products -> [onHand : Nat, reserved : Nat]]
    /\ \A p \in Products :
         /\ held.products[p] = [products[p] EXCEPT !.reserved = products[p].reserved + invoices[v].units[p]]
         /\ held.products[p].onHand = products[p].onHand
         /\ held.products[p].reserved <= held.products[p].onHand
         /\ held.products[p].reserved >= invoices[v].units[p]
         /\ held.products[p].reserved + UnitsIn(invoices[v], p, {"DRAFT"})
              = products[p].reserved + invoices[v].units[p]

\* It leaves room for what drafts reserve, and takes no hold away.
LEMMA PreparedIs ==
    ASSUME YardInv, NEW v \in Ids, invoices[v].status = "QUOTE_ISSUED",
           \A p \in Products : availableToReserve(p) >= invoices[v].units[p],
           NEW held, held = prepareIssuedQuoteForConversion(v)
    PROVE  Prepared(v, held)
<1>1. /\ held.items = [i \in DOMAIN items |-> IF i \in ItemsOn(invoices[v]) /\ items[i].hold = NoDraft
                                              THEN [items[i] EXCEPT !.hold = v] ELSE items[i]]
      /\ held.products = [p \in Products |-> [products[p] EXCEPT !.reserved = products[p].reserved + invoices[v].units[p]]]
  BY DEF prepareIssuedQuoteForConversion
<1>2. items \in [DOMAIN items -> ItemType]
  BY DEF YardInv, Inventory
<1> DEFINE hi == held.items  hp == held.products
<1>3. hi = [i \in DOMAIN items |-> hi[i]] /\ hp = [p \in Products |-> hp[p]]
  BY <1>1
<1>4. ASSUME NEW i \in DOMAIN items
      PROVE  /\ hi[i] \in ItemType /\ hi[i].parent = items[i].parent
             /\ hi[i].installed = items[i].installed /\ hi[i].complete = items[i].complete
             /\ hi[i] = IF i \in ItemsOn(invoices[v]) /\ items[i].hold = NoDraft
                        THEN [items[i] EXCEPT !.hold = v] ELSE items[i]
             /\ \/ hi[i].hold = items[i].hold
                \/ i \in ItemsOn(invoices[v]) /\ hi[i].hold = v
  <2>1. items[i] \in ItemType
    BY <1>2
  <2>2. hi[i] = IF i \in ItemsOn(invoices[v]) /\ items[i].hold = NoDraft
                THEN [items[i] EXCEPT !.hold = v] ELSE items[i]
    BY <1>1
  <2> HIDE DEF hi
  <2>3. CASE i \in ItemsOn(invoices[v]) /\ items[i].hold = NoDraft
    <3>1. hi[i] = [items[i] EXCEPT !.hold = v]
      BY <2>2, <2>3
    <3> QED BY <2>1, <2>2, <2>3, <3>1 DEF ItemType
  <2>4. CASE ~(i \in ItemsOn(invoices[v]) /\ items[i].hold = NoDraft)
    <3>1. hi[i] = items[i]
      BY <2>2, <2>4
    <3> QED BY <2>1, <2>2, <3>1
  <2> QED BY <2>3, <2>4
<1>5. ASSUME NEW p \in Products
      PROVE  /\ hp[p] \in [onHand : Nat, reserved : Nat]
             /\ hp[p] = [products[p] EXCEPT !.reserved = products[p].reserved + invoices[v].units[p]]
             /\ hp[p].onHand = products[p].onHand /\ hp[p].reserved <= hp[p].onHand
             /\ hp[p].reserved >= invoices[v].units[p]
             /\ hp[p].reserved + UnitsIn(invoices[v], p, {"DRAFT"}) = products[p].reserved + invoices[v].units[p]
  <2>1. /\ products[p] \in [onHand : Nat, reserved : Nat]
        /\ products[p].onHand \in Nat /\ products[p].reserved \in Nat
        /\ products[p].reserved <= products[p].onHand /\ invoices[v].units[p] \in Nat
    BY StockFacts
  <2> DEFINE r == products[p].reserved  u == invoices[v].units[p]  h == products[p].onHand
  <2>2. h - r >= u
    BY DEF availableToReserve
  <2>3. hp[p] = [products[p] EXCEPT !.reserved = r + u]
    BY <1>1
  <2> HIDE DEF hp
  <2>4. r \in Nat /\ u \in Nat /\ h \in Nat /\ r <= h
    BY <2>1
  <2>5. r + u \in Nat /\ r + u <= h /\ r + u >= u /\ (r + u) + 0 = r + u
    <3> HIDE DEF r, u, h
    <3> QED BY <2>2, <2>4
  <2>6. hp[p] \in [onHand : Nat, reserved : Nat] /\ hp[p].onHand = h /\ hp[p].reserved = r + u
    <3> DEFINE n == r + u
    <3>1. n \in Nat /\ hp[p] = [products[p] EXCEPT !.reserved = n]
      BY <2>3, <2>5
    <3> HIDE DEF n
    <3>2. hp[p] \in [onHand : Nat, reserved : Nat] /\ hp[p].onHand = products[p].onHand /\ hp[p].reserved = n
      BY <2>1, <3>1
    <3> QED BY <3>2 DEF n
  <2>7. UnitsIn(invoices[v], p, {"DRAFT"}) = 0
    BY DEF UnitsIn
  <2> QED BY <2>3, <2>5, <2>6, <2>7
<1>6. AsideOf(items, hi)
  <2> HIDE DEF hi
  <2> QED BY <1>3, <1>4 DEF AsideOf
<1>7. hp \in [Products -> [onHand : Nat, reserved : Nat]]
  <2> HIDE DEF hp
  <2> QED BY <1>3, <1>5
<1> HIDE DEF hi, hp
<1>8. hi = held.items /\ hp = held.products
  BY DEF hi, hp
<1> QED BY <1>4, <1>5, <1>6, <1>7, <1>8 DEF Prepared

\* A conversion that is refused leaves the holds and the reservations as they were.
LEMMA RolledBack ==
    ASSUME YardInv, NEW v \in Ids, invoices[v].status = "QUOTE_ISSUED",
           \A p \in Products : availableToReserve(p) >= invoices[v].units[p],
           NEW held, held = prepareIssuedQuoteForConversion(v), rollbackQuoteConversion(v, held)
    PROVE  UNCHANGED vars
<1>1. /\ items' = [i \in DOMAIN held.items |-> IF i \in ItemsOn(invoices[v])
                     THEN [held.items[i] EXCEPT !.hold = items[i].hold] ELSE held.items[i]]
      /\ products' = [p \in Products |-> IF invoices[v].units[p] > 0
                        THEN [held.products[p] EXCEPT !.reserved = products[p].reserved]
                        ELSE held.products[p]]
      /\ UNCHANGED <<missing, reviews, catalog, orders, entered, invoices>>
  BY DEF rollbackQuoteConversion
<1>2. /\ DOMAIN held.items = DOMAIN items
      /\ \A i \in DOMAIN items :
           held.items[i] = IF i \in ItemsOn(invoices[v]) /\ items[i].hold = NoDraft
                           THEN [items[i] EXCEPT !.hold = v] ELSE items[i]
      /\ \A p \in Products :
           held.products[p] = [products[p] EXCEPT !.reserved = products[p].reserved + invoices[v].units[p]]
  <2>1. Prepared(v, held)
    BY PreparedIs
  <2> QED BY <2>1 DEF Prepared, AsideOf
<1>3. items \in [DOMAIN items -> ItemType] /\ products \in [Products -> [onHand : Nat, reserved : Nat]]
  BY DEF YardInv, Inventory, Stocked
<1>4. ASSUME NEW i \in DOMAIN items PROVE items'[i] = items[i]
  <2>1. items[i] \in ItemType
    BY <1>3
  <2>2. [[items[i] EXCEPT !.hold = v] EXCEPT !.hold = items[i].hold] = items[i]
    BY <2>1 DEF ItemType
  <2>3. [items[i] EXCEPT !.hold = items[i].hold] = items[i]
    BY <2>1 DEF ItemType
  <2>4. items'[i] = IF i \in ItemsOn(invoices[v]) THEN [held.items[i] EXCEPT !.hold = items[i].hold]
                    ELSE held.items[i]
    BY <1>1, <1>2
  <2>5. CASE i \notin ItemsOn(invoices[v])
    BY <1>2, <2>4, <2>5
  <2>6. CASE i \in ItemsOn(invoices[v]) /\ items[i].hold = NoDraft
    <3>1. held.items[i] = [items[i] EXCEPT !.hold = v]
      BY <1>2, <2>6
    <3> QED BY <2>2, <2>4, <2>6, <3>1
  <2>7. CASE i \in ItemsOn(invoices[v]) /\ items[i].hold # NoDraft
    <3>1. held.items[i] = items[i]
      BY <1>2, <2>7
    <3> QED BY <2>3, <2>4, <2>7, <3>1
  <2> QED BY <2>5, <2>6, <2>7
<1>5. ASSUME NEW p \in Products PROVE products'[p] = products[p]
  <2>1. products[p] \in [onHand : Nat, reserved : Nat] /\ products[p].reserved \in Nat
        /\ invoices[v].units[p] \in Nat
    BY StockFacts
  <2> DEFINE n == products[p].reserved + invoices[v].units[p]
  <2>2. held.products[p] = [products[p] EXCEPT !.reserved = n]
    BY <1>2
  <2>3. n = IF invoices[v].units[p] > 0 THEN n ELSE products[p].reserved
    BY <2>1
  <2> HIDE DEF n
  <2>4. [[products[p] EXCEPT !.reserved = n] EXCEPT !.reserved = products[p].reserved] = products[p]
    BY <2>1
  <2>5. [products[p] EXCEPT !.reserved = products[p].reserved] = products[p]
    BY <2>1
  <2>6. products'[p] = IF invoices[v].units[p] > 0
                       THEN [held.products[p] EXCEPT !.reserved = products[p].reserved] ELSE held.products[p]
    BY <1>1
  <2>7. CASE invoices[v].units[p] > 0
    BY <2>2, <2>4, <2>6, <2>7
  <2>8. CASE ~(invoices[v].units[p] > 0)
    <3>1. n = products[p].reserved
      BY <2>3, <2>8
    <3> QED BY <2>2, <2>5, <2>6, <2>8, <3>1
  <2> QED BY <2>7, <2>8
<1>6. items' = items
  <2>1. items' = [i \in DOMAIN items |-> items'[i]]
    BY <1>1, <1>2
  <2> QED BY <1>3, <1>4, <2>1
<1>7. products' = products
  <2>1. products' = [p \in Products |-> products'[p]]
    BY <1>1
  <2> QED BY <1>3, <1>5, <2>1
<1> QED BY <1>1, <1>6, <1>7 DEF vars

\* A quote is recognised over the holds of its conversion, or they are put back.
LEMMA ConvertStep ==
    ASSUME YardInv, NEW v \in Ids, NEW status \in Standing, NEW accepted, Convert(v, status, accepted)
    PROVE  YardInv'
<1> DEFINE held == prepareIssuedQuoteForConversion(v)
<1>1. /\ invoices[v].status = "QUOTE_ISSUED"
      /\ \A p \in Products : availableToReserve(p) >= invoices[v].units[p]
      /\ \/ freezeCostsAndApplyRecognitionInventory(v, status, held.items, held.products)
         \/ rollbackQuoteConversion(v, held)
  BY DEF Convert
<1>2. held = prepareIssuedQuoteForConversion(v)
  OBVIOUS
<1> HIDE DEF held
<1>3. CASE freezeCostsAndApplyRecognitionInventory(v, status, held.items, held.products)
  <2>1. Prepared(v, held)
    BY <1>1, <1>2, PreparedIs
  <2>2. AsideOf(items, held.items) /\ held.products \in [Products -> [onHand : Nat, reserved : Nat]]
    BY <2>1 DEF Prepared
  <2>3. \A i \in DOMAIN items : \/ held.items[i].hold = items[i].hold
                                \/ i \in ItemsOn(invoices[v]) /\ held.items[i].hold = v
    BY <2>1 DEF Prepared
  <2>4. \A p \in Products :
           /\ held.products[p].onHand = products[p].onHand
           /\ held.products[p].reserved <= held.products[p].onHand
           /\ held.products[p].reserved >= invoices[v].units[p]
           /\ held.products[p].reserved + UnitsIn(invoices[v], p, {"DRAFT"})
                = products[p].reserved + invoices[v].units[p]
    BY <2>1 DEF Prepared
  <2>5. invoices[v].status \in {"DRAFT", "QUOTE_ISSUED"}
    BY <1>1
  <2> QED BY <1>3, <2>2, <2>3, <2>4, <2>5, FreezeStep
<1>4. CASE rollbackQuoteConversion(v, held)
  <2>1. UNCHANGED vars
    BY <1>1, <1>2, <1>4, RolledBack
  <2>2. Ordered(items, orders') /\ UNCHANGED <<tree, reviews, catalog, products, entered, invoices>>
    BY <2>1 DEF vars, tree, YardInv
  <2> QED BY <2>2, OrderStep
<1> QED BY <1>1, <1>3, <1>4

\* Both documents stand, so the stock does.
LEMMA ConvertConduceToInvoiceStep ==
    ASSUME YardInv, NEW v \in Ids, ConvertConduceToInvoice(v)
    PROVE  YardInv'
<1> DEFINE inv == [invoices[v] EXCEPT !.status = "COMPLETED"]
<1>1. /\ invoices[v].status = "CONDUCE" /\ invoices' = [invoices EXCEPT ![v].status = "COMPLETED"]
      /\ UNCHANGED <<tree, reviews, catalog, orders, products, entered>>
  BY DEF ConvertConduceToInvoice
<1>2. /\ invoices[v] \in DocType /\ invoices \in [Ids -> DocType]
      /\ ItemsOn(invoices[v]) \subseteq DOMAIN items
      /\ \A j \in DOMAIN items : items[j].hold = v => invoices[v].status = "DRAFT"
      /\ Stocked(invoices, products, entered)
  BY OneOfThem
<1>3. invoices' = [invoices EXCEPT ![v] = inv]
  BY <1>1, <1>2
<1>4. /\ inv \in DocType /\ inv.status = "COMPLETED" /\ inv.lines = invoices[v].lines
      /\ inv.units = invoices[v].units
  BY <1>2 DEF DocType, DocStatus
<1> HIDE DEF inv
<1>5. ItemsOn(inv) \subseteq DOMAIN items
  BY <1>2, <1>4 DEF ItemsOn
<1>6. \A p \in Products : /\ UnitsIn(inv, p, {"DRAFT"}) = UnitsIn(invoices[v], p, {"DRAFT"})
                          /\ UnitsIn(inv, p, Standing) = UnitsIn(invoices[v], p, Standing)
  BY <1>1, <1>4 DEF UnitsIn, Standing
<1>7. Stocked([invoices EXCEPT ![v] = inv], products, entered)
  BY <1>2, <1>4, <1>6, StockStands
<1>8. Stocked([invoices EXCEPT ![v] = inv], products', entered)
  BY <1>1, <1>7
<1>9. \A i \in DOMAIN items : items[i].hold = v => inv.status = "DRAFT" /\ inv.lines[i] > 0
  BY <1>1, <1>2
<1>10. inv.status = "NONE" => inv = Blank
  BY <1>4
<1>11. UNCHANGED <<tree, reviews, catalog, orders, entered>>
  BY <1>1
<1> QED BY <1>3, <1>4, <1>5, <1>8, <1>9, <1>10, <1>11, DocumentStep

\* A cancellation takes pieces off, and off their parents only.
Restored(its, gone, new) ==
    /\ Inventory(new, gone) /\ DOMAIN new = DOMAIN its
    /\ \A i \in DOMAIN its : new[i].hold = its[i].hold /\ (new[i].installed => its[i].installed)

\* The pieces come back where they are by now, and their former parents are synchronised.
LEMMA RestoredInventory ==
    ASSUME Inventory(items, missing), NEW back, NEW done,
           NEW new, new = restoreSoldItem(items, back, done)
    PROVE  Restored(items, missing, new)
<1> DEFINE freed == {i \in back \cap done : items[i].sold}
           mid == [i \in DOMAIN items |->
                     IF i \notin back THEN items[i]
                     ELSE IF i \in freed
                          THEN [items[i] EXCEPT !.sold = FALSE, !.installed = FALSE, !.parent = NoItem]
                          ELSE [items[i] EXCEPT !.sold = FALSE]]
           parents == {items[i].parent : i \in freed}
<1>1. new = syncDirectParentCompleteness(mid, missing, parents)
  BY DEF restoreSoldItem
<1>2. /\ DOMAIN items \subseteq Items /\ items \in [DOMAIN items -> ItemType]
      /\ missing \in Seq(MissingType) /\ \A k \in DOMAIN missing : missing[k].parent \in DOMAIN items
      /\ Rooted(items) /\ NoLoop(items)
      /\ \A i \in DOMAIN items : items[i].installed <=> items[i].parent # NoItem
      /\ \A i \in DOMAIN items : isAssemblyItem(i) => (items[i].complete <=> isComplete(missing, i))
  BY DEF Inventory
<1>3. DOMAIN mid = DOMAIN items /\ mid = [i \in DOMAIN items |-> mid[i]]
  OBVIOUS
<1>4. ASSUME NEW i \in DOMAIN items
      PROVE  /\ mid[i] \in ItemType /\ mid[i].hold = items[i].hold /\ mid[i].complete = items[i].complete
             /\ \/ mid[i].parent = items[i].parent /\ mid[i].installed = items[i].installed
                \/ mid[i].parent = NoItem /\ mid[i].installed = FALSE
  <2>1. items[i] \in ItemType
    BY <1>2
  <2>2. CASE i \notin back
    <3>1. mid[i] = items[i]
      BY <2>2
    <3> HIDE DEF mid
    <3> QED BY <2>1, <3>1
  <2>3. CASE i \in back /\ i \in freed
    <3>1. mid[i] = [items[i] EXCEPT !.sold = FALSE, !.installed = FALSE, !.parent = NoItem]
      BY <2>3
    <3> HIDE DEF mid
    <3> QED BY <2>1, <3>1 DEF ItemType
  <2>4. CASE i \in back /\ i \notin freed
    <3>1. mid[i] = [items[i] EXCEPT !.sold = FALSE]
      BY <2>4
    <3> HIDE DEF mid
    <3> QED BY <2>1, <3>1 DEF ItemType
  <2> QED BY <2>2, <2>3, <2>4
<1> HIDE DEF mid, parents, freed
<1>5. mid \in [DOMAIN mid -> ItemType]
  BY <1>3, <1>4
<1>6. Rooted(mid) /\ NoLoop(mid)
  <2>1. \A i \in DOMAIN items : mid[i].parent \in {items[i].parent, NoItem}
    BY <1>4
  <2> QED BY <1>2, <1>3, <2>1, CutKeeps
<1>7. \A i \in DOMAIN mid : mid[i].installed <=> mid[i].parent # NoItem
  BY <1>2, <1>3, <1>4
<1>8. \A k \in DOMAIN missing : missing[k].parent \in DOMAIN mid
  BY <1>2, <1>3
<1>9. \A i \in DOMAIN mid \ parents : isAssemblyItem(i) => (mid[i].complete <=> isComplete(missing, i))
  BY <1>2, <1>3, <1>4
<1>10. DOMAIN mid \subseteq Items
  BY <1>2, <1>3
<1>11. Inventory(syncDirectParentCompleteness(mid, missing, parents), missing)
  BY <1>2, <1>5, <1>6, <1>7, <1>8, <1>9, <1>10, SyncedInventory
<1>12. /\ DOMAIN new = DOMAIN mid
       /\ \A i \in DOMAIN mid : new[i].hold = mid[i].hold /\ new[i].installed = mid[i].installed
  BY <1>1, <1>5, Synced
<1>13. Inventory(new, missing)
  BY <1>1, <1>11
<1>14. \A i \in DOMAIN items : new[i].hold = items[i].hold /\ (new[i].installed => items[i].installed)
  BY <1>3, <1>4, <1>12
<1> QED BY <1>3, <1>12, <1>13, <1>14 DEF Restored

\* The orders of a cancelled sale end or go on.
LEMMA OrdersStop ==
    ASSUME YardInv, NEW linked, NEW decision, NEW after, DOMAIN after = DOMAIN items,
           \A i \in DOMAIN items : after[i].installed => items[i].installed,
           NEW new, new = [k \in DOMAIN orders |-> IF k \in linked
                             THEN applyWorkOrderBranch(orders[k], decision) ELSE orders[k]]
    PROVE  Ordered(after, new)
<1>1. Ordered(items, orders) /\ orders \in Seq(OrderType)
  BY DEF YardInv, Ordered
<1>2. DOMAIN new = DOMAIN orders
  OBVIOUS
<1>3. ASSUME NEW k \in DOMAIN orders
      PROVE  /\ new[k] \in OrderType
             /\ new[k].piece = orders[k].piece /\ new[k].type = orders[k].type
             /\ isActiveStatus(new[k]) => isActiveStatus(orders[k])
  <2>1. orders[k] \in OrderType
    BY <1>1
  <2>2. new[k] = orders[k] \/ new[k] = [orders[k] EXCEPT !.status = "CANCELLED"]
    BY DEF applyWorkOrderBranch
  <2> HIDE DEF isActiveStatus
  <2>3. CASE new[k] = orders[k]
    BY <2>1, <2>3
  <2>4. CASE new[k] = [orders[k] EXCEPT !.status = "CANCELLED"]
    <3>1. /\ new[k] \in OrderType /\ new[k].piece = orders[k].piece /\ new[k].type = orders[k].type
          /\ new[k].status = "CANCELLED"
      BY <2>1, <2>4 DEF OrderType
    <3> QED BY <3>1 DEF isActiveStatus, Active
  <2> QED BY <2>2, <2>3, <2>4
<1>4. new \in Seq(OrderType)
  <2>1. DOMAIN orders = 1..Len(orders) /\ Len(orders) \in Nat
    BY <1>1
  <2>2. new = [k \in 1..Len(orders) |-> new[k]]
    BY <2>1
  <2> HIDE <1>2
  <2>3. new \in [1..Len(orders) -> OrderType]
    BY <1>3, <2>1, <2>2
  <2> QED BY <2>1, <2>3, SeqDef
<1>5. DOMAIN items \subseteq DOMAIN after
  OBVIOUS
<1> QED BY <1>1, <1>2, <1>3, <1>4, <1>5, OrdersFade

\* Units come back to the yard as the document stops standing.
LEMMA CancelInvoiceStep ==
    ASSUME YardInv, NEW v \in Ids, NEW decision, CancelInvoice(v, decision)
    PROVE  YardInv'
<1> DEFINE inv == [invoices[v] EXCEPT !.status = "CANCELLED"]
<1>1. PICK linked, done :
        /\ invoices[v].status \in Standing
        /\ orders' = [k \in DOMAIN orders |-> IF k \in linked
                        THEN applyWorkOrderBranch(orders[k], decision) ELSE orders[k]]
        /\ items' = restoreSoldItem(items, DeliveredBy(v, items), done)
        /\ products' = [p \in Products |-> [products[p] EXCEPT !.onHand = products[p].onHand + invoices[v].units[p]]]
        /\ invoices' = [invoices EXCEPT ![v].status = "CANCELLED"]
        /\ UNCHANGED <<missing, reviews, catalog, entered>>
  BY DEF CancelInvoice, restoreInventoryForInvoice
<1>2. /\ invoices[v] \in DocType /\ invoices \in [Ids -> DocType]
      /\ ItemsOn(invoices[v]) \subseteq DOMAIN items
      /\ \A j \in DOMAIN items : items[j].hold = v => invoices[v].status = "DRAFT"
      /\ Stocked(invoices, products, entered)
  BY OneOfThem
<1>3. /\ Inventory(items, missing) /\ Catalogued(items, reviews, catalog) /\ Documented(items, invoices)
      /\ items \in [DOMAIN items -> ItemType]
  BY DEF YardInv, Inventory
<1>4. Restored(items, missing, items')
  <2> DEFINE new == items'
  <2>1. new = restoreSoldItem(items, DeliveredBy(v, items), done)
    BY <1>1
  <2> HIDE DEF new
  <2>2. Restored(items, missing, new)
    BY <1>3, <2>1, RestoredInventory
  <2> QED BY <2>2 DEF new
<1>5. /\ Inventory(items', missing) /\ DOMAIN items' = DOMAIN items
      /\ \A i \in DOMAIN items : items'[i].hold = items[i].hold /\ (items'[i].installed => items[i].installed)
  BY <1>4 DEF Restored
<1>6. Inventory(items', missing')
  BY <1>1, <1>5
<1>7. Catalogued(items', reviews', catalog')
  <2>1. Catalogued(items', reviews, catalog)
    BY <1>3, <1>5, CatalogueStands
  <2> QED BY <1>1, <2>1
<1>8. Ordered(items', orders')
  <2> DEFINE new == orders'  after == items'
  <2>1. new = [k \in DOMAIN orders |-> IF k \in linked
                 THEN applyWorkOrderBranch(orders[k], decision) ELSE orders[k]]
    BY <1>1
  <2>2. DOMAIN after = DOMAIN items /\ \A i \in DOMAIN items : after[i].installed => items[i].installed
    BY <1>5
  <2> HIDE DEF new, after
  <2>3. Ordered(after, new)
    BY <2>1, <2>2, OrdersStop
  <2> QED BY <2>3 DEF new, after
<1>9. invoices' = [invoices EXCEPT ![v] = inv]
  BY <1>1, <1>2
<1>10. /\ inv \in DocType /\ inv.status = "CANCELLED" /\ inv.lines = invoices[v].lines
       /\ inv.units = invoices[v].units
  BY <1>2 DEF DocType, DocStatus
<1> HIDE DEF inv
<1>11. Documented(items', invoices')
  <2>1. ItemsOn(inv) \subseteq DOMAIN items
    BY <1>2, <1>10 DEF ItemsOn
  <2>2. \A i \in DOMAIN items : items[i].hold \in {NoDraft} \cup Ids
    BY <1>3 DEF ItemType
  <2>3. \A i \in DOMAIN items : items'[i].hold \in {items[i].hold, NoDraft, v}
    BY <1>5
  <2>4. \A i \in DOMAIN items : items'[i].hold = v => inv.status = "DRAFT" /\ inv.lines[i] > 0
    BY <1>1, <1>2, <1>5 DEF Standing
  <2>5. inv.status = "NONE" => inv = Blank
    BY <1>10
  <2>6. Documented(items', [invoices EXCEPT ![v] = inv])
    BY <1>3, <1>5, <1>10, <2>1, <2>2, <2>3, <2>4, <2>5, OneDocument
  <2> QED BY <1>9, <2>6
<1>12. ASSUME NEW p \in Products
       PROVE  /\ products'[p] \in [onHand : Nat, reserved : Nat]
              /\ products'[p].reserved + UnitsIn(invoices[v], p, {"DRAFT"})
                   = products[p].reserved + UnitsIn(inv, p, {"DRAFT"})
              /\ products'[p].reserved <= products'[p].onHand
              /\ products'[p].onHand + UnitsIn(inv, p, Standing)
                   = products[p].onHand + UnitsIn(invoices[v], p, Standing)
  <2>1. /\ products[p] \in [onHand : Nat, reserved : Nat] /\ products[p].onHand \in Nat
        /\ products[p].reserved \in Nat /\ products[p].reserved <= products[p].onHand
        /\ invoices[v].units[p] \in Nat
    BY StockFacts
  <2> DEFINE n == products[p].onHand + invoices[v].units[p]
  <2>2. n \in Nat /\ products[p].reserved <= n /\ products'[p] = [products[p] EXCEPT !.onHand = n]
    BY <1>1, <2>1
  <2>3. n + 0 = products[p].onHand + invoices[v].units[p]
    BY <2>2
  <2> HIDE DEF n
  <2>4. /\ products'[p] \in [onHand : Nat, reserved : Nat]
        /\ products'[p].reserved = products[p].reserved /\ products'[p].onHand = n
    BY <2>1, <2>2
  <2>5. /\ UnitsIn(inv, p, {"DRAFT"}) = 0 /\ UnitsIn(invoices[v], p, {"DRAFT"}) = 0
        /\ UnitsIn(inv, p, Standing) = 0 /\ UnitsIn(invoices[v], p, Standing) = invoices[v].units[p]
    BY <1>1, <1>10 DEF UnitsIn, Standing
  <2> QED BY <2>2, <2>3, <2>4, <2>5
<1>13. Stocked(invoices', products', entered')
  <2>1. products' \in [Products -> [onHand : Nat, reserved : Nat]]
    BY <1>1, <1>12
  <2>2. \A p \in Products :
          /\ products'[p].reserved + UnitsIn(invoices[v], p, {"DRAFT"})
               = products[p].reserved + UnitsIn(inv, p, {"DRAFT"})
          /\ products'[p].reserved <= products'[p].onHand
          /\ products'[p].onHand + UnitsIn(inv, p, Standing)
               = products[p].onHand + UnitsIn(invoices[v], p, Standing)
    BY <1>12
  <2>3. Stocked([invoices EXCEPT ![v] = inv], products', entered)
    BY <1>2, <1>10, <2>1, <2>2, StockMoves
  <2> QED BY <1>1, <1>9, <2>3
<1> QED BY <1>6, <1>7, <1>8, <1>11, <1>13, YardAfter

\* Units of one product enter the yard, or are written off.
LEMMA StockStep ==
    ASSUME YardInv, NEW p \in Products, NEW n \in Nat, NEW e \in Int,
           products' = [products EXCEPT ![p].onHand = n], entered' = [entered EXCEPT ![p] = e],
           products[p].reserved <= n, n + entered[p] = products[p].onHand + e,
           UNCHANGED <<tree, reviews, catalog, orders, invoices>>
    PROVE  YardInv'
<1>1. /\ products \in [Products -> [onHand : Nat, reserved : Nat]] /\ entered \in [Products -> Int]
      /\ \A q \in Products :
           /\ products[q].reserved = OnLines(invoices, q, {"DRAFT"})
           /\ products[q].reserved <= products[q].onHand
           /\ products[q].onHand + OnLines(invoices, q, Standing) = entered[q]
  BY DEF YardInv, Stocked
<1>2. ASSUME NEW q \in Products
      PROVE  /\ products'[q] \in [onHand : Nat, reserved : Nat] /\ entered'[q] \in Int
             /\ products'[q].reserved = OnLines(invoices, q, {"DRAFT"})
             /\ products'[q].reserved <= products'[q].onHand
             /\ products'[q].onHand + OnLines(invoices, q, Standing) = entered'[q]
  <2>1. CASE q # p
    <3>1. products'[q] = products[q] /\ entered'[q] = entered[q]
      BY <1>1, <2>1
    <3> QED BY <1>1, <3>1
  <2>2. CASE q = p
    <3>1. products[p] \in [onHand : Nat, reserved : Nat] /\ products[p].onHand \in Nat
      BY <1>1
    <3>2. products'[p] = [products[p] EXCEPT !.onHand = n] /\ entered'[p] = e
      BY <1>1
    <3>3. /\ products'[p] \in [onHand : Nat, reserved : Nat] /\ products'[p].onHand = n
          /\ products'[p].reserved = products[p].reserved
      BY <3>1, <3>2
    <3>4. OnLines(invoices, p, Standing) \in Nat
      <4>1. invoices \in [Ids -> DocType]
        BY DEF YardInv, Documented
      <4> QED BY <4>1, WeightsAreNatural
    <3> DEFINE h == products[p].onHand  x == entered[p]  s == OnLines(invoices, p, Standing)
    <3>5. n + s = e
      <4>1. h \in Nat /\ s \in Nat /\ h + s = x /\ n + x = h + e
        BY <1>1, <3>1, <3>4
      <4>2. x \in Int
        BY <1>1
      <4> HIDE DEF h, x, s
      <4> QED BY <4>1, <4>2
    <3> QED BY <1>1, <2>2, <3>2, <3>3, <3>5
  <2> QED BY <2>1, <2>2
<1>3. Stocked(invoices, products', entered')
  <2>1. products' = [q \in Products |-> products'[q]] /\ entered' = [q \in Products |-> entered'[q]]
    BY <1>1
  <2>2. products' \in [Products -> [onHand : Nat, reserved : Nat]] /\ entered' \in [Products -> Int]
    BY <1>2, <2>1
  <2> QED BY <1>2, <2>2 DEF Stocked
<1>4. /\ Inventory(items', missing') /\ Catalogued(items', reviews', catalog')
      /\ Ordered(items', orders') /\ Documented(items', invoices') /\ Stocked(invoices', products', entered')
  BY <1>3 DEF YardInv, tree
<1> QED BY <1>4, YardAfter

\* A unit in the yard is a unit entered.
LEMMA ReceiveQtyStockStep ==
    ASSUME YardInv, NEW p \in Products, ReceiveQtyStock(p)
    PROVE  YardInv'
<1>1. /\ products[p] \in [onHand : Nat, reserved : Nat] /\ products[p].onHand \in Nat
      /\ products[p].reserved <= products[p].onHand /\ products[p].reserved \in Nat /\ entered[p] \in Int
  BY DEF YardInv, Stocked
<1> DEFINE n == products[p].onHand + 1  e == entered[p] + 1
<1>2. /\ products' = [products EXCEPT ![p].onHand = n] /\ entered' = [entered EXCEPT ![p] = e]
      /\ UNCHANGED <<tree, reviews, catalog, orders, invoices>>
  BY DEF ReceiveQtyStock
<1>3. n \in Nat /\ e \in Int /\ products[p].reserved <= n /\ n + entered[p] = products[p].onHand + e
  BY <1>1
<1> HIDE DEF n, e
<1> QED BY <1>2, <1>3, StockStep

\* A unit that is written off is not reserved.
LEMMA AdjustQtyStockStep ==
    ASSUME YardInv, NEW p \in Products, AdjustQtyStock(p)
    PROVE  YardInv'
<1>1. /\ products[p] \in [onHand : Nat, reserved : Nat] /\ products[p].onHand \in Nat
      /\ products[p].reserved <= products[p].onHand /\ products[p].reserved \in Nat /\ entered[p] \in Int
  BY DEF YardInv, Stocked
<1> DEFINE n == products[p].onHand - 1  e == entered[p] - 1
<1>2. /\ products' = [products EXCEPT ![p].onHand = n] /\ entered' = [entered EXCEPT ![p] = e]
      /\ UNCHANGED <<tree, reviews, catalog, orders, invoices>>
      /\ products[p].onHand > 0 /\ n >= products[p].reserved
  BY DEF AdjustQtyStock
<1>3. n \in Nat /\ e \in Int /\ products[p].reserved <= n /\ n + entered[p] = products[p].onHand + e
  BY <1>1, <1>2
<1> HIDE DEF n, e
<1> QED BY <1>2, <1>3, StockStep

---------------------------------------------------------------------------
(* The invariant is inductive                                              *)

\* An empty yard.
LEMMA YardInit == Init => YardInv
<1> SUFFICES ASSUME Init PROVE YardInv
  OBVIOUS
<1>1. /\ items = <<>> /\ missing = <<>> /\ reviews = {} /\ catalog \in FirstCatalogs /\ orders = <<>>
      /\ products = [p \in Products |-> [onHand |-> 0, reserved |-> 0]]
      /\ entered = [p \in Products |-> 0] /\ invoices = [v \in Ids |-> Blank]
  BY DEF Init
<1>2. DOMAIN items = {} /\ items = [i \in {} |-> items[i]]
  BY <1>1
<1>3. DOMAIN missing = {} /\ missing \in Seq(MissingType) /\ DOMAIN orders = {} /\ orders \in Seq(OrderType)
  <2>1. <<>> \in Seq(MissingType) /\ <<>> \in Seq(OrderType) /\ DOMAIN <<>> = {}
    BY EmptySeq
  <2> QED BY <1>1, <2>1
<1>4. Inventory(items, missing)
  <2>1. IsFiniteSet(DOMAIN items)
    BY <1>2, FS_EmptySet
  <2>2. Rooted(items)
    BY <1>2, <2>1 DEF Rooted
  <2>3. NoLoop(items)
    BY <1>2 DEF NoLoop
  <2>4. items \in [DOMAIN items -> ItemType]
    BY <1>2
  <2> QED BY <1>2, <1>3, <2>2, <2>3, <2>4 DEF Inventory
<1>5. Catalogued(items, reviews, catalog)
  BY <1>1, YardAssumption DEF Catalogued, CategoryType
<1>6. Ordered(items, orders)
  BY <1>3 DEF Ordered
<1>7. invoices \in [Ids -> DocType] /\ \A v \in Ids : invoices[v] = Blank
  BY <1>1, BlankIs
<1>8. Documented(items, invoices)
  <2>1. \A v \in Ids : ItemsOn(invoices[v]) \subseteq DOMAIN items
    BY <1>7, BlankIs
  <2> QED BY <1>2, <1>7, <2>1 DEF Documented
<1>9. ASSUME NEW p \in Products, NEW T, "NONE" \notin T
      PROVE  OnLines(invoices, p, T) = 0
  <2>1. \A v \in Ids : Weights(invoices, p, T)[v] = 0
    BY <1>7, <1>9, BlankIs DEF Weights, UnitsIn
  <2> QED BY <2>1, IdsAreFinite, CountOfZeros DEF OnLines
<1>10. Stocked(invoices, products, entered)
  <2>1. products \in [Products -> [onHand : Nat, reserved : Nat]] /\ entered \in [Products -> Int]
    BY <1>1
  <2>2. \A p \in Products : products[p].onHand = 0 /\ products[p].reserved = 0 /\ entered[p] = 0
    BY <1>1
  <2>3. \A p \in Products : OnLines(invoices, p, {"DRAFT"}) = 0 /\ OnLines(invoices, p, Standing) = 0
    BY <1>9 DEF Standing
  <2> QED BY <2>1, <2>2, <2>3 DEF Stocked
<1> QED BY <1>4, <1>5, <1>6, <1>8, <1>10 DEF YardInv

\* Every command of the reception.
LEMMA ReceptionStep ==
    ASSUME YardInv, Reception(Receipts)
    PROVE  YardInv'
<1>1. CASE \E i \in Items : RegisterItem(i) \/ SetNoDesarmar(i)
  BY <1>1, RegisterItemStep, SetNoDesarmarStep
<1>2. CASE \E r \in Receipts : RegisterAssembly(r)
  BY <1>2, RegisterAssemblyStep
<1>3. CASE \E p \in Products : ReceiveQtyStock(p) \/ AdjustQtyStock(p)
  BY <1>3, ReceiveQtyStockStep, AdjustQtyStockStep
<1>4. CASE \E i \in Items : \E n \in UNION {catalog[c].expected : c \in Categories} :
             CorrectReceiptBaseline(i, {n})
  BY <1>4, CorrectReceiptBaselineStep
<1> QED BY <1>1, <1>2, <1>3, <1>4 DEF Reception

\* Every command of the catalog.
LEMMA CatalogEditStep ==
    ASSUME YardInv, CatalogEdit(Receipts)
    PROVE  YardInv'
<1>1. CASE \E g \in Growth : GrowCategory(g[1], g[2])
  BY <1>1, GrowCategoryStep
<1>2. CASE \E r \in Renames : RenameCategory(r[1], r[2])
  BY <1>2, RenameCategoryStep
<1>3. CASE \E r \in reviews, d \in Decisions, receipt \in Receipts : ResolveCatalogReview(r, d, receipt)
  BY <1>3, ResolveCatalogReviewStep
<1> QED BY <1>1, <1>2, <1>3 DEF CatalogEdit

\* Every command of the work orders.
LEMMA WorkStep ==
    ASSUME YardInv, Work(ManualOrders, Mechanics)
    PROVE  YardInv'
<1>1. CASE \E o \in ManualOrders : CreateManualWorkOrder(o[1], o[2], o[3])
  BY <1>1, CreateManualWorkOrderStep
<1>2. ASSUME NEW k \in DOMAIN orders, NEW verified \in BOOLEAN, CancelOrder(k, verified)
      PROVE  YardInv'
  BY <1>2, CancelOrderStep
<1>3. ASSUME NEW k \in DOMAIN orders, NEW m \in Mechanics,
             \/ TakeOrder(k, m) \/ ReassignOrder(k, m) \/ AddPhoto(k, m)
             \/ CompleteDesarme(k, m) \/ CompleteInstalacion(k, m)
      PROVE  YardInv'
  BY <1>3, TakeOrderStep, AddPhotoStep, CompleteDesarmeStep, CompleteInstalacionStep
<1> QED BY <1>1, <1>2, <1>3 DEF Work

\* Every command of the counter.
LEMMA CounterSteps ==
    ASSUME YardInv, Counter
    PROVE  YardInv'
<1>1. CASE \E s \in {"DRAFT", "QUOTE_DRAFT"} : CreateEmptyInvoice(s)
  BY <1>1, CreateEmptyInvoiceStep
<1>2. CASE \E i \in Items : AddInventoryToDraft(i)
  BY <1>2, AddInventoryToDraftStep
<1>3. CASE SixHoursPass
  BY <1>3, SixHoursPassStep
<1>4. ASSUME NEW v \in Ids,
             DiscardDraft(v) \/ ReleaseAbandonedReservation(v) \/ IssueQuote(v) \/ DuplicateQuote(v)
      PROVE  YardInv'
  BY <1>4, DiscardDraftStep, IssueQuoteStep, DuplicateQuoteStep DEF ReleaseAbandonedReservation
<1>5. ASSUME NEW v \in Ids, NEW i \in Items, AddDraftLine(v, i) \/ RemoveItemLine(v, i)
      PROVE  YardInv'
  BY <1>5, AddDraftLineStep, RemoveItemLineStep
<1>6. ASSUME NEW v \in Ids, NEW p \in Products, NEW n \in 1..MaxUnits,
             AddQtyLine(v, p, n) \/ SetDraftLineQuantity(v, p, n)
      PROVE  YardInv'
  BY <1>6, AddQtyLineStep, SetDraftLineQuantityStep
<1>7. ASSUME NEW v \in Ids, NEW p \in Products, RemoveQtyLine(v, p)
      PROVE  YardInv'
  BY <1>7, RemoveQtyLineStep
<1> QED BY <1>1, <1>2, <1>3, <1>4, <1>5, <1>6, <1>7 DEF Counter

\* Every recognition, conversion and cancellation.
LEMMA SaleStep ==
    ASSUME YardInv, Sale
    PROVE  YardInv'
<1>1. ASSUME NEW v \in Ids, ConfirmInvoice(v) \/ IssueConduce(v)
      PROVE  YardInv'
  BY <1>1, RecognisedStep
<1>2. ASSUME NEW v \in Ids, ConvertConduceToInvoice(v)
      PROVE  YardInv'
  BY <1>2, ConvertConduceToInvoiceStep
<1>3. ASSUME NEW v \in Ids, NEW accepted \in BOOLEAN,
             ConvertQuote(v, accepted) \/ ConvertQuoteToConduce(v, accepted)
      PROVE  YardInv'
  <2>1. PICK status \in Standing : Convert(v, status, accepted)
    BY <1>3 DEF ConvertQuote, ConvertQuoteToConduce, Standing
  <2> QED BY <2>1, ConvertStep
<1>4. ASSUME NEW v \in Ids, NEW d \in {"STOP", "CONTINUE"}, CancelInvoice(v, d)
      PROVE  YardInv'
  BY <1>4, CancelInvoiceStep
<1> QED BY <1>1, <1>2, <1>3, <1>4 DEF Sale

\* The invariant is inductive.
LEMMA StepKeepsYardInv ==
    ASSUME YardInv, [Next]_vars
    PROVE  YardInv'
<1>1. CASE Reception(Receipts)
  BY <1>1, ReceptionStep
<1>2. CASE CatalogEdit(Receipts)
  BY <1>2, CatalogEditStep
<1>3. CASE Work(ManualOrders, Mechanics)
  BY <1>3, WorkStep
<1>4. CASE Counter
  BY <1>4, CounterSteps
<1>5. CASE Sale
  BY <1>5, SaleStep
<1>6. CASE UNCHANGED vars
  <2>1. /\ Inventory(items', missing') /\ Catalogued(items', reviews', catalog')
        /\ Ordered(items', orders') /\ Documented(items', invoices') /\ Stocked(invoices', products', entered')
    BY <1>6 DEF YardInv, vars
  <2> QED BY <2>1, YardAfter
<1> QED BY <1>1, <1>2, <1>3, <1>4, <1>5, <1>6 DEF Next

---------------------------------------------------------------------------
(* What follows in every state                                             *)

\* The properties of the tree are parts of the invariant, and no loop is no piece above itself.
LEMMA TreeFollows ==
    ASSUME YardInv
    PROVE  TypeOK /\ OneTree /\ CompleteIsDerived /\ OneActiveOrderPerPiece
<1>1. /\ DOMAIN items \subseteq Items /\ items \in [DOMAIN items -> ItemType]
      /\ missing \in Seq(MissingType) /\ \A k \in DOMAIN missing : missing[k].parent \in DOMAIN items
      /\ Rooted(items) /\ NoLoop(items)
      /\ \A i \in DOMAIN items : items[i].installed <=> items[i].parent # NoItem
      /\ \A i \in DOMAIN items : isAssemblyItem(i) => (items[i].complete <=> isComplete(missing, i))
  BY DEF YardInv, Inventory
<1>2. OneTree
  BY <1>1, NobodyAboveItself DEF OneTree
<1>3. CompleteIsDerived
  BY <1>1 DEF CompleteIsDerived
<1>4. OneActiveOrderPerPiece
  BY DEF YardInv, Ordered, OneActiveOrderPerPiece
<1>5. TypeOK
  <2>1. \A i \in DOMAIN items : /\ items[i].parent \in {NoItem} \cup DOMAIN items
                                /\ items[i].hold \in {NoDraft} \cup Ids
    <3>1. \A i \in DOMAIN items : items[i] \in ItemType
      BY <1>1
    <3> QED BY <1>1, <3>1 DEF Rooted, ItemType
  <2>2. \A r \in reviews : r.parent \in DOMAIN items
    BY DEF YardInv, Catalogued
  <2>3. \A k \in DOMAIN orders : orders[k].status \in Active \cup {"COMPLETED", "CANCELLED"}
    BY OrderOfThem DEF OrderType
  <2>4. \A p \in Products : products[p].onHand \in Nat /\ products[p].reserved \in Nat
    BY DEF YardInv, Stocked
  <2>5. \A v \in Ids : invoices[v].lines \in [Items -> Nat]
    BY OneOfThem
  <2> QED BY <1>1, <2>1, <2>2, <2>3, <2>4, <2>5 DEF TypeOK
<1> QED BY <1>2, <1>3, <1>4, <1>5

\* The drafts are finitely many.
LEMMA DraftsAreIds == Drafts \subseteq Nat /\ IsFiniteSet(Drafts) /\ Drafts \subseteq Ids
BY IdsAreFinite, FS_Subset DEF Drafts

\* With no draft open nothing is held, so what the screen offers a new draft accepts.
LEMMA OffersFollow ==
    ASSUME YardInv
    PROVE  OffersAreAccepted
<1>1. Rooted(items) /\ \A i \in DOMAIN items : items[i] \in ItemType
  BY DEF YardInv, Inventory
<1>2. \A i \in DOMAIN items :
         items[i].hold # NoDraft => items[i].hold \in Ids /\ items[i].hold \in Drafts
  <2>1. \A i \in DOMAIN items : items[i].hold # NoDraft => items[i].hold \in Ids
    BY <1>1 DEF ItemType
  <2> QED BY <2>1 DEF YardInv, Documented, Drafts
<1>3. ASSUME NEW i \in DOMAIN items, itemDraftEligibility(i)
      PROVE  MayReserve(i, openDraft)
  <2>1. CASE Drafts # {}
    <3>1. Min(Drafts) \in Drafts
      BY <2>1, DraftsAreIds, LeastIs
    <3>2. openDraft = Min(Drafts) /\ Min(Drafts) # NoDraft
      <4> DEFINE m == Min(Drafts)
      <4>1. m \in Ids /\ openDraft = m
        BY <2>1, <3>1, DraftsAreIds DEF openDraft
      <4> HIDE DEF m
      <4>2. m # NoDraft
        BY <4>1 DEF Ids, NoDraft
      <4> QED BY <4>1, <4>2 DEF m
    <3> QED BY <1>3, <2>1, <3>2 DEF itemDraftEligibility, MayReserve
  <2>2. CASE Drafts = {}
    <3>1. \A j \in DOMAIN items : items[j].hold = NoDraft
      BY <1>2, <2>2
    <3>2. ~overlappingReservation(items, i, openDraft)
      <4>1. Unit(items, i) \cup ancestorChain(items, i) \subseteq DOMAIN items
        BY <1>1, ChainIs DEF Unit, collectSubtree
      <4> QED BY <3>1, <4>1 DEF overlappingReservation
    <3>3. ~items[i].sold /\ ~Restricted(items, i)
      BY <1>3 DEF itemDraftEligibility
    <3> QED BY <3>1, <3>2, <3>3 DEF MayReserve
  <2> QED BY <2>1, <2>2
<1>4. \A i \in buildWorkOrderCreateOptions.dismantling : MayDismantle(i) /\ ~activeOrder(i)
  BY DEF buildWorkOrderCreateOptions, MayDismantle
<1>5. ASSUME NEW i \in buildWorkOrderCreateOptions.installation,
             NEW d \in buildWorkOrderCreateOptions.destinations,
             i # d, i \notin ancestorChain(items, d)
      PROVE  MayInstall(i, d)
  <2>1. i \in DOMAIN items /\ ~items[i].installed /\ d \in DOMAIN items /\ isAssemblyItem(d)
    BY DEF buildWorkOrderCreateOptions
  <2> QED BY <1>5, <2>1 DEF MayInstall, Unit, collectSubtree
<1> QED BY <1>3, <1>4, <1>5 DEF OffersAreAccepted

\* The properties of the holds are parts of the invariant.
LEMMA HoldsFollow ==
    ASSUME YardInv
    PROVE  HoldsAgree
<1>1. HoldsAreLines
  BY DEF YardInv, Documented, HoldsAreLines
<1>2. invoices \in [Ids -> DocType] /\ Stocked(invoices, products, entered)
  BY DEF YardInv, Documented
<1>3. \A p \in Products : /\ UnitsOn(p, {"DRAFT"}) = OnLines(invoices, p, {"DRAFT"})
                          /\ UnitsOn(p, Standing) = OnLines(invoices, p, Standing)
  BY <1>2, UnitsOnCount
<1>4. StockAddsUp
  BY <1>2, <1>3 DEF Stocked, StockAddsUp
<1> QED BY <1>1, <1>4, OffersFollow DEF HoldsAgree

---------------------------------------------------------------------------
(* What follows of every step                                              *)

\* No order ends as completed; no category changes its name.
NoneCompletes == \A k \in DOMAIN orders : orders[k].status # "COMPLETED" => orders'[k].status # "COMPLETED"
NamesStand == \A c \in Categories : catalog'[c].name = catalog[c].name

\* Receptions touch neither orders nor the catalog.
LEMMA ReceptionIsPlain == ASSUME Reception(Receipts) PROVE UNCHANGED <<orders, catalog>>
<1>1. ASSUME NEW i, RegisterItem(i) PROVE UNCHANGED <<orders, catalog>>
  BY <1>1 DEF RegisterItem
<1>2. ASSUME NEW i, SetNoDesarmar(i) PROVE UNCHANGED <<orders, catalog>>
  BY <1>2 DEF SetNoDesarmar
<1>3. ASSUME NEW r, RegisterAssembly(r) PROVE UNCHANGED <<orders, catalog>>
  BY <1>3 DEF RegisterAssembly
<1>4. ASSUME NEW p, ReceiveQtyStock(p) PROVE UNCHANGED <<orders, catalog>>
  BY <1>4 DEF ReceiveQtyStock
<1>5. ASSUME NEW p, AdjustQtyStock(p) PROVE UNCHANGED <<orders, catalog>>
  BY <1>5 DEF AdjustQtyStock
<1>6. ASSUME NEW i, NEW n, CorrectReceiptBaseline(i, {n}) PROVE UNCHANGED <<orders, catalog>>
  BY <1>6 DEF CorrectReceiptBaseline
<1> QED BY <1>1, <1>2, <1>3, <1>4, <1>5, <1>6 DEF Reception

\* Nor does the counter.
LEMMA CounterIsPlain == ASSUME Counter PROVE UNCHANGED <<orders, catalog>>
<1>1. ASSUME NEW s, CreateEmptyInvoice(s) PROVE UNCHANGED <<orders, catalog>>
  BY <1>1 DEF CreateEmptyInvoice
<1>2. ASSUME NEW i, AddInventoryToDraft(i) PROVE UNCHANGED <<orders, catalog>>
  BY <1>2 DEF AddInventoryToDraft
<1>3. ASSUME NEW v, DiscardDraft(v) PROVE UNCHANGED <<orders, catalog>>
  BY <1>3 DEF DiscardDraft
<1>4. ASSUME NEW v, ReleaseAbandonedReservation(v) PROVE UNCHANGED <<orders, catalog>>
  BY <1>3, <1>4 DEF ReleaseAbandonedReservation
<1>5. ASSUME NEW v, IssueQuote(v) PROVE UNCHANGED <<orders, catalog>>
  BY <1>5 DEF IssueQuote
<1>6. ASSUME NEW v, DuplicateQuote(v) PROVE UNCHANGED <<orders, catalog>>
  BY <1>6 DEF DuplicateQuote
<1>7. ASSUME NEW v, NEW i, AddDraftLine(v, i) PROVE UNCHANGED <<orders, catalog>>
  BY <1>7 DEF AddDraftLine
<1>8. ASSUME NEW v, NEW i, RemoveItemLine(v, i) PROVE UNCHANGED <<orders, catalog>>
  BY <1>8 DEF RemoveItemLine
<1>9. ASSUME NEW v, NEW p, NEW n, AddQtyLine(v, p, n) PROVE UNCHANGED <<orders, catalog>>
  BY <1>9 DEF AddQtyLine
<1>10. ASSUME NEW v, NEW p, NEW n, SetDraftLineQuantity(v, p, n) PROVE UNCHANGED <<orders, catalog>>
  BY <1>10 DEF SetDraftLineQuantity
<1>11. ASSUME NEW v, NEW p, RemoveQtyLine(v, p) PROVE UNCHANGED <<orders, catalog>>
  BY <1>11 DEF RemoveQtyLine
<1>12. CASE SixHoursPass
  BY <1>12 DEF SixHoursPass
<1> QED BY <1>1, <1>2, <1>3, <1>4, <1>5, <1>6, <1>7, <1>8, <1>9, <1>10, <1>11, <1>12 DEF Counter

\* Sales open, link and cancel orders; none is completed.
LEMMA SaleIsPlain ==
    ASSUME YardInv, Sale
    PROVE  UNCHANGED catalog /\ NoneCompletes
<1>1. orders \in Seq(OrderType) /\ DOMAIN orders = 1..Len(orders) /\ Len(orders) \in Nat
  BY LenProperties DEF YardInv, Ordered
<1>2. ASSUME NEW v \in Ids, NEW status, NEW its, NEW prods,
             AsideOf(items, its), freezeCostsAndApplyRecognitionInventory(v, status, its, prods)
      PROVE  UNCHANGED catalog /\ NoneCompletes
  <2> DEFINE pieces == {i \in ItemsOn(invoices[v]) : its[i].installed}
             fresh == {i \in pieces : ~\E k \in DOMAIN orders : activeDismantling(orders[k], i)}
             opened == {NewOrder("DISMANTLING", i, NoItem, {v}) : i \in fresh}
             more == SetToSeq(opened)
             reused == [k \in DOMAIN orders |->
                          IF \E i \in pieces : activeDismantling(orders[k], i)
                          THEN [orders[k] EXCEPT !.links = @ \cup {v}] ELSE orders[k]]
  <2>1. orders' = reused \o more /\ UNCHANGED catalog
    BY <1>2 DEF freezeCostsAndApplyRecognitionInventory, ensureDismantlingOrder
  <2>2. \A k \in DOMAIN orders : reused[k].status = orders[k].status
    <3> TAKE k \in DOMAIN orders
    <3>1. orders[k] \in OrderType
      BY <1>1
    <3>2. reused[k] = [orders[k] EXCEPT !.links = @ \cup {v}] \/ reused[k] = orders[k]
      OBVIOUS
    <3> HIDE DEF reused
    <3> QED BY <3>1, <3>2 DEF OrderType
  <2>3. DOMAIN reused = 1..Len(orders) /\ reused = [k \in 1..Len(orders) |-> reused[k]]
    BY <1>1
  <2>4. IsFiniteSet(opened)
    <3>1. IsFiniteSet(fresh)
      <4>1. IsFiniteSet(DOMAIN items) /\ ItemsOn(invoices[v]) \subseteq DOMAIN items
        BY OneOfThem DEF YardInv, Inventory, Rooted
      <4> QED BY <4>1, FS_Subset
    <3> DEFINE f == [i \in fresh |-> NewOrder("DISMANTLING", i, NoItem, {v})]
    <3>2. opened = {f[i] : i \in fresh}
      OBVIOUS
    <3> HIDE DEF f, fresh
    <3> QED BY <3>1, <3>2, ImageIsFinite
  <2>5. more \in Seq(opened)
    <3> HIDE DEF opened
    <3> QED BY <2>4, SequenceOfSet
  <2> HIDE DEF reused, more, opened, pieces, fresh
  <2>6. reused \in Seq(Range(reused) \cup opened) /\ Len(reused) = Len(orders)
    <3> DEFINE R == Range(reused) \cup opened
    <3>1. \A k \in 1..Len(orders) : reused[k] \in R
      BY <2>3 DEF Range
    <3> HIDE DEF R
    <3>2. reused \in [1..Len(orders) -> R]
      BY <2>3, <3>1
    <3>3. reused \in Seq(R)
      BY <1>1, <3>2, SeqDef
    <3>4. Len(reused) = Len(orders)
      BY <1>1, <2>3, <3>3
    <3> QED BY <3>3, <3>4 DEF R
  <2>7. more \in Seq(Range(reused) \cup opened)
    BY <2>5, SeqDef
  <2>8. \A k \in 1..Len(orders) : (reused \o more)[k] = reused[k]
    <3> DEFINE R == Range(reused) \cup opened
    <3>1. reused \in Seq(R) /\ more \in Seq(R)
      BY <2>6, <2>7
    <3> HIDE DEF R
    <3>2. \A k \in 1..(Len(reused) + Len(more)) :
             (reused \o more)[k] = IF k <= Len(reused) THEN reused[k] ELSE more[k - Len(reused)]
      BY <3>1, ConcatProperties
    <3>3. Len(more) \in Nat
      BY <3>1, LenProperties
    <3> QED BY <1>1, <2>6, <3>2, <3>3
  <2> QED BY <1>1, <2>1, <2>2, <2>8 DEF NoneCompletes
<1>3. AsideOf(items, items)
  BY DEF AsideOf, YardInv, Inventory
<1>4. ASSUME NEW v \in Ids, ConfirmInvoice(v) \/ IssueConduce(v)
      PROVE  UNCHANGED catalog /\ NoneCompletes
  BY <1>2, <1>3, <1>4 DEF ConfirmInvoice, IssueConduce
<1>5. ASSUME NEW v \in Ids, ConvertConduceToInvoice(v)
      PROVE  UNCHANGED catalog /\ NoneCompletes
  BY <1>5 DEF ConvertConduceToInvoice, NoneCompletes
<1>6. ASSUME NEW v \in Ids, NEW accepted, ConvertQuote(v, accepted) \/ ConvertQuoteToConduce(v, accepted)
      PROVE  UNCHANGED catalog /\ NoneCompletes
  <2>1. PICK status : Convert(v, status, accepted)
    BY <1>6 DEF ConvertQuote, ConvertQuoteToConduce
  <2> DEFINE held == prepareIssuedQuoteForConversion(v)
  <2>2. /\ invoices[v].status = "QUOTE_ISSUED"
        /\ \A p \in Products : availableToReserve(p) >= invoices[v].units[p]
        /\ \/ freezeCostsAndApplyRecognitionInventory(v, status, held.items, held.products)
           \/ rollbackQuoteConversion(v, held)
    BY <2>1 DEF Convert
  <2>3. held = prepareIssuedQuoteForConversion(v)
    OBVIOUS
  <2> HIDE DEF held
  <2>4. Prepared(v, held)
    BY <2>2, <2>3, PreparedIs
  <2>5. AsideOf(items, held.items)
    BY <2>4 DEF Prepared
  <2>6. CASE rollbackQuoteConversion(v, held)
    BY <2>6 DEF rollbackQuoteConversion, NoneCompletes
  <2> QED BY <1>2, <2>2, <2>5, <2>6
<1>7. ASSUME NEW v \in Ids, NEW decision, CancelInvoice(v, decision)
      PROVE  UNCHANGED catalog /\ NoneCompletes
  <2>1. PICK linked : /\ UNCHANGED catalog
                      /\ orders' = [k \in DOMAIN orders |-> IF k \in linked
                           THEN applyWorkOrderBranch(orders[k], decision) ELSE orders[k]]
    BY <1>7 DEF CancelInvoice
  <2>2. ASSUME NEW k \in DOMAIN orders, orders[k].status # "COMPLETED"
        PROVE  orders'[k].status # "COMPLETED"
    <3>1. orders[k] \in OrderType
      BY <1>1
    <3>2. orders'[k] = orders[k] \/ orders'[k] = [orders[k] EXCEPT !.status = "CANCELLED"]
      BY <2>1 DEF applyWorkOrderBranch
    <3> QED BY <2>2, <3>1, <3>2 DEF OrderType
  <2> QED BY <2>1, <2>2 DEF NoneCompletes
<1> QED BY <1>4, <1>5, <1>6, <1>7 DEF Sale

\* An order that is taken, photographed or cancelled is not completed.
LEMMA OneOrderIsPlain ==
    ASSUME YardInv, NEW k \in DOMAIN orders, NEW o, SetOrder(k, o),
           orders[k].status # "COMPLETED" => o.status # "COMPLETED"
    PROVE  UNCHANGED catalog /\ NoneCompletes
<1>1. orders' = [orders EXCEPT ![k] = o] /\ UNCHANGED catalog
  BY DEF SetOrder
<1>2. ASSUME NEW j \in DOMAIN orders, orders[j].status # "COMPLETED"
      PROVE  orders'[j].status # "COMPLETED"
  <2>1. orders'[j] = IF j = k THEN o ELSE orders[j]
    BY <1>1
  <2> QED BY <1>2, <2>1
<1> QED BY <1>1, <1>2 DEF NoneCompletes

\* The order completed is the one the mechanic has, and the place its piece came from
\* misses a part of that name.
Leaves ==
    \A k \in DOMAIN orders :
       orders[k].type = "DISMANTLING" /\ orders[k].status # "COMPLETED" /\ orders'[k].status = "COMPLETED"
         => /\ items[orders[k].piece].parent = orders[k].source
            /\ \E e \in Range(missing') : e.parent = orders[k].source
                                        /\ e.name = categoryLabel(orders[k].piece)

\* The other orders stand.
LEMMA OnlyOne ==
    ASSUME YardInv, NEW k \in DOMAIN orders, orders' = [orders EXCEPT ![k].status = "COMPLETED"]
    PROVE  \A j \in DOMAIN orders \ {k} : orders'[j] = orders[j]
OBVIOUS

\* Only completeDesarme completes a dismantling, and it lists what has left.
LEMMA WorkLeaves ==
    ASSUME YardInv, Work(ManualOrders, Mechanics)
    PROVE  UNCHANGED catalog /\ Leaves
<1>1. orders \in Seq(OrderType) /\ DOMAIN orders = 1..Len(orders) /\ Len(orders) \in Nat
  BY LenProperties DEF YardInv, Ordered
<1>2. ASSUME UNCHANGED catalog /\ NoneCompletes
      PROVE  UNCHANGED catalog /\ Leaves
  BY <1>2 DEF NoneCompletes, Leaves
<1>3. ASSUME NEW o \in ManualOrders, CreateManualWorkOrder(o[1], o[2], o[3])
      PROVE  UNCHANGED catalog /\ Leaves
  <2> DEFINE new == NewOrder(o[1], o[2], o[3], {})
  <2>1. orders' = Append(orders, new) /\ UNCHANGED catalog
    BY <1>3 DEF CreateManualWorkOrder
  <2> HIDE DEF new
  <2>2. \A k \in DOMAIN orders : orders'[k] = orders[k]
    BY <1>1, <2>1
  <2>3. NoneCompletes
    BY <2>2 DEF NoneCompletes
  <2> QED BY <1>2, <2>1, <2>3
<1>4. ASSUME NEW k \in DOMAIN orders, NEW verified, CancelOrder(k, verified)
      PROVE  UNCHANGED catalog /\ Leaves
  <2>1. SetOrder(k, [orders[k] EXCEPT !.status = "CANCELLED"])
    BY <1>4 DEF CancelOrder
  <2>2. [orders[k] EXCEPT !.status = "CANCELLED"].status = "CANCELLED"
    BY <1>1 DEF OrderType
  <2>3. UNCHANGED catalog /\ NoneCompletes
    BY <2>1, <2>2, OneOrderIsPlain
  <2> QED BY <1>2, <2>3
<1>5. ASSUME NEW k \in DOMAIN orders, NEW m, TakeOrder(k, m) \/ ReassignOrder(k, m)
      PROVE  UNCHANGED catalog /\ Leaves
  <2>1. SetOrder(k, [orders[k] EXCEPT !.by = m, !.status = "IN_PROGRESS"])
    BY <1>5 DEF TakeOrder, ReassignOrder
  <2>2. [orders[k] EXCEPT !.by = m, !.status = "IN_PROGRESS"].status = "IN_PROGRESS"
    BY <1>1 DEF OrderType
  <2>3. UNCHANGED catalog /\ NoneCompletes
    BY <2>1, <2>2, OneOrderIsPlain
  <2> QED BY <1>2, <2>3
<1>6. ASSUME NEW k \in DOMAIN orders, NEW m, AddPhoto(k, m)
      PROVE  UNCHANGED catalog /\ Leaves
  <2>1. orders[k] \in OrderType
    BY <1>1
  <2>2. PICK o \in {[orders[k] EXCEPT !.before = TRUE], [orders[k] EXCEPT !.after = TRUE]} : SetOrder(k, o)
    BY <1>6 DEF AddPhoto
  <2>3. o.status = orders[k].status
    BY <2>1, <2>2 DEF OrderType
  <2>4. UNCHANGED catalog /\ NoneCompletes
    BY <2>2, <2>3, OneOrderIsPlain
  <2> QED BY <1>2, <2>4
<1>7. ASSUME NEW k \in DOMAIN orders, NEW m, CompleteInstalacion(k, m)
      PROVE  UNCHANGED catalog /\ Leaves
  <2>1. /\ orders[k].type = "INSTALLATION" /\ orders' = [orders EXCEPT ![k].status = "COMPLETED"]
        /\ UNCHANGED catalog
    BY <1>7 DEF CompleteInstalacion
  <2>2. \A j \in DOMAIN orders \ {k} : orders'[j] = orders[j]
    BY <2>1, OnlyOne
  <2> QED BY <2>1, <2>2 DEF Leaves
<1>8. ASSUME NEW k \in DOMAIN orders, NEW m, CompleteDesarme(k, m)
      PROVE  UNCHANGED catalog /\ Leaves
  <2> DEFINE i == orders[k].piece
             entry == [parent |-> items[i].parent, name |-> categoryLabel(i),
                       origin |-> "REMOVED_AFTER_BASELINE"]
  <2>1. /\ items[i].parent = orders[k].source /\ missing' = Append(missing, entry)
        /\ orders' = [orders EXCEPT ![k].status = "COMPLETED"] /\ UNCHANGED catalog
    BY <1>8 DEF CompleteDesarme
  <2>2. \A j \in DOMAIN orders \ {k} : orders'[j] = orders[j]
    BY <2>1, OnlyOne
  <2>3. entry.parent = items[i].parent /\ entry.name = categoryLabel(i)
    OBVIOUS
  <2>4. entry \in Range(missing')
    <3> DEFINE T == MissingType \cup {entry}
    <3> HIDE DEF entry
    <3>1. missing \in Seq(T) /\ entry \in T
      <4>1. missing \in Seq(MissingType)
        BY DEF YardInv, Inventory
      <4>2. MissingType \subseteq T
        OBVIOUS
      <4> HIDE DEF T
      <4>3. missing \in Seq(T)
        BY <4>1, <4>2, SeqDef
      <4> QED BY <4>3 DEF T
    <3> HIDE DEF T
    <3>2. Range(Append(missing, entry)) = Range(missing) \cup {entry}
      BY <3>1, AppendIs
    <3> QED BY <2>1, <3>2
  <2> HIDE DEF entry
  <2> QED BY <2>1, <2>2, <2>3, <2>4 DEF Leaves
<1> QED BY <1>3, <1>4, <1>5, <1>6, <1>7, <1>8 DEF Work

\* An entry that goes with the rename is about the category it was about.
LEMMA RenamedIsSame ==
    ASSUME YardInv, NEW c \in Categories, NEW name, \A k \in Categories : catalog[k].name # name,
           \A k \in Categories : catalog'[k].name = IF k = c THEN name ELSE catalog[k].name,
           NEW was, NEW is, is.parent = was.parent,
           is.name = migrateCategoryName(was.name, catalog[c].name, name)
    PROVE  SameCategory(was, is)
<1>1. \A d, e \in Categories : catalog[d].name = catalog[e].name => d = e
  BY DEF YardInv, Catalogued
<1>2. CASE was.name = catalog[c].name
  <2>1. is.name = name
    BY <1>2 DEF migrateCategoryName
  <2>2. \A d \in Categories : was.name = catalog[d].name <=> is.name = catalog'[d].name
    BY <1>1, <1>2, <2>1
  <2> QED BY <1>2, <2>2 DEF SameCategory
<1>3. CASE was.name # catalog[c].name
  <2>1. is.name = was.name
    BY <1>3 DEF migrateCategoryName
  <2>2. ASSUME NEW e \in Categories, was.name = catalog[e].name, NEW d \in Categories
        PROVE  was.name = catalog[d].name <=> is.name = catalog'[d].name
    <3>1. CASE d = c
      BY <1>3, <2>1, <2>2, <3>1
    <3>2. CASE d # c
      BY <2>1, <3>2
    <3> QED BY <3>1, <3>2
  <2> QED BY <2>1, <2>2 DEF SameCategory
<1> QED BY <1>2, <1>3

NamesKept ==
    \A c \in Categories :
       catalog'[c].name # catalog[c].name =>
         /\ DOMAIN missing' = DOMAIN missing
         /\ \A k \in DOMAIN missing : SameCategory(missing[k], missing'[k])
         /\ \A r \in reviews : \E s \in reviews' : SameCategory(r, s)
         /\ \A s \in reviews' : \E r \in reviews : SameCategory(r, s)

\* Only a rename changes a name, and it goes through every reference.
LEMMA CatalogEditNames ==
    ASSUME YardInv, CatalogEdit(Receipts)
    PROVE  UNCHANGED orders /\ NamesKept
<1>1. catalog \in [Categories -> CategoryType] /\ missing \in Seq(MissingType) /\ reviews \subseteq ReviewType
  BY DEF YardInv, Catalogued, Inventory
<1>2. ASSUME NEW g \in Growth, GrowCategory(g[1], g[2])
      PROVE  UNCHANGED orders /\ NamesKept
  <2>1. catalog' = [catalog EXCEPT ![g[1]].expected = @ \cup {g[2]}] /\ UNCHANGED orders
    BY <1>2 DEF GrowCategory
  <2>2. \A c \in Categories : catalog'[c].name = catalog[c].name
    <3> TAKE c \in Categories
    <3>1. catalog[c] \in CategoryType
      BY <1>1
    <3>2. catalog'[c] = catalog[c] \/ catalog'[c] = [catalog[c] EXCEPT !.expected = @ \cup {g[2]}]
      BY <1>1, <2>1
    <3> QED BY <3>1, <3>2 DEF CategoryType
  <2> QED BY <2>1, <2>2 DEF NamesKept
<1>3. ASSUME NEW r, NEW d, NEW receipt, ResolveCatalogReview(r, d, receipt)
      PROVE  UNCHANGED orders /\ NamesKept
  BY <1>3 DEF ResolveCatalogReview, NamesKept
<1>4. ASSUME NEW g \in Renames, RenameCategory(g[1], g[2])
      PROVE  UNCHANGED orders /\ NamesKept
  <2> DEFINE c == g[1]  name == g[2]  m(n) == migrateCategoryName(n, catalog[c].name, name)
  <2>1. /\ \A k \in Categories : catalog[k].name # name
        /\ catalog' = [k \in Categories |->
                         [name |-> IF k = c THEN name ELSE catalog[k].name,
                          expected |-> {m(n) : n \in catalog[k].expected}]]
        /\ missing' = [k \in DOMAIN missing |-> [missing[k] EXCEPT !.name = m(missing[k].name)]]
        /\ reviews' = {[r EXCEPT !.name = m(r.name)] : r \in reviews}
        /\ UNCHANGED orders
    BY <1>4 DEF RenameCategory
  <2>2. c \in Categories
    BY YardAssumption
  <2>3. \A k \in Categories : catalog'[k].name = IF k = c THEN name ELSE catalog[k].name
    BY <2>1
  <2>4. DOMAIN missing' = DOMAIN missing
    BY <2>1
  <2>5. ASSUME NEW k \in DOMAIN missing PROVE SameCategory(missing[k], missing'[k])
    <3>1. missing[k] \in MissingType
      BY <1>1
    <3>2. missing'[k] = [missing[k] EXCEPT !.name = m(missing[k].name)]
      BY <2>1
    <3>3. missing'[k].parent = missing[k].parent /\ missing'[k].name = m(missing[k].name)
      BY <3>1, <3>2 DEF MissingType
    <3> DEFINE w == missing[k]  s == missing'[k]
    <3>4. s.parent = w.parent /\ s.name = migrateCategoryName(w.name, catalog[c].name, name)
      BY <3>3
    <3>5. \A j \in Categories : catalog[j].name # name
      BY <2>1
    <3> HIDE DEF w, s, c, name
    <3>6. SameCategory(w, s)
      BY <2>2, <2>3, <3>4, <3>5, RenamedIsSame
    <3> QED BY <3>6 DEF w, s
  <2>6. ASSUME NEW r \in reviews PROVE SameCategory(r, [r EXCEPT !.name = m(r.name)])
    <3> DEFINE s == [r EXCEPT !.name = m(r.name)]
    <3>1. s.parent = r.parent /\ s.name = m(r.name)
      BY <1>1 DEF ReviewType
    <3>2. s.parent = r.parent /\ s.name = migrateCategoryName(r.name, catalog[c].name, name)
      BY <3>1
    <3>3. \A j \in Categories : catalog[j].name # name
      BY <2>1
    <3> HIDE DEF s, c, name
    <3>4. SameCategory(r, s)
      BY <2>2, <2>3, <3>2, <3>3, RenamedIsSame
    <3> QED BY <3>4 DEF s
  <2> HIDE DEF c, name, m
  <2>7. /\ \A r \in reviews : \E s \in reviews' : SameCategory(r, s)
        /\ \A s \in reviews' : \E r \in reviews : SameCategory(r, s)
    BY <2>1, <2>6
  <2> QED BY <2>1, <2>4, <2>5, <2>7 DEF NamesKept
<1> QED BY <1>2, <1>3, <1>4 DEF CatalogEdit

\* What every step keeps.
LEMMA YardSteps ==
    ASSUME YardInv, [Next]_vars
    PROVE  Leaves /\ NamesKept
<1>1. ASSUME UNCHANGED orders PROVE Leaves
  BY <1>1 DEF Leaves
<1>2. ASSUME UNCHANGED catalog PROVE NamesKept
  BY <1>2 DEF NamesKept
<1>3. CASE Reception(Receipts)
  BY <1>1, <1>2, <1>3, ReceptionIsPlain
<1>4. CASE CatalogEdit(Receipts)
  BY <1>1, <1>4, CatalogEditNames
<1>5. CASE Work(ManualOrders, Mechanics)
  BY <1>2, <1>5, WorkLeaves
<1>6. CASE Counter
  BY <1>1, <1>2, <1>6, CounterIsPlain
<1>7. CASE Sale
  <2>1. UNCHANGED catalog /\ NoneCompletes
    BY <1>7, SaleIsPlain
  <2> QED BY <1>2, <2>1 DEF NoneCompletes, Leaves
<1>8. CASE UNCHANGED vars
  BY <1>1, <1>2, <1>8 DEF vars
<1> QED BY <1>3, <1>4, <1>5, <1>6, <1>7, <1>8 DEF Next

---------------------------------------------------------------------------
(* The theorems                                                            *)

\* The invariant of the yard holds in every state that the commands of the web prototype
\* (apps/web/src/mocks/services) reach.
THEOREM YardHolds == Spec => []YardInv
<1>1. YardInv /\ [Next]_vars => YardInv'
  BY StepKeepsYardInv
<1> QED BY <1>1, YardInit, PTL DEF Spec

\* A reserved piece is on a line of an open draft, the units reserved are those of the
\* drafts and the units in the yard and on standing sales those that were entered, and what
\* the screens offer the commands accept: for any number of pieces, products, documents,
\* categories and mechanics, after any sequence of receptions, catalog edits, work orders,
\* sales, refused conversions, abandoned drafts and cancellations.
THEOREM HoldsStayInAgreement == Spec => []HoldsAgree
<1>1. YardInv => HoldsAgree
  BY HoldsFollow
<1> QED BY <1>1, YardHolds, PTL

\* The inventory stays one forest without cycles, the completeness kept on an assembly is
\* the one derived from what is listed as missing, a piece has one active order, a piece
\* taken off is listed as missing where it was, and a renamed category takes along what
\* refers to it by name: registerAssembly, completeDesarme, completeInstalacion,
\* correctReceiptBaseline, the catalog commands and the cancellations all keep it so.
THEOREM TreeStaysSound == Spec => TreeIsSound
<1>1. YardInv => TypeOK /\ OneTree /\ CompleteIsDerived /\ OneActiveOrderPerPiece
  BY TreeFollows
<1>2. YardInv /\ [Next]_vars => [Leaves]_vars /\ [NamesKept]_vars
  BY YardSteps
<1>3. Spec => [][Leaves]_vars /\ [][NamesKept]_vars
  BY <1>2, YardHolds, PTL DEF Spec
<1>4. [][Leaves]_vars <=> LeavesAreRecorded
  BY DEF Leaves, LeavesAreRecorded
<1>5. [][NamesKept]_vars <=> NamesKeepTheirCategory
  BY DEF NamesKept, NamesKeepTheirCategory
<1> QED BY <1>1, <1>3, <1>4, <1>5, YardHolds, PTL DEF TreeIsSound
=============================================================================
