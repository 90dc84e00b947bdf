----------------------------- MODULE SumLemmas -----------------------------
(***************************************************************************)
(* Sums over finite sets, and induction over the subsets of a finite set.  *)
(*                                                                         *)
(* The folds of the community modules choose the order in which they add.  *)
(* What they return is shown to be the number of units in what is added,   *)
(* which has no order: every law of sums is then one of cardinalities.     *)
(* The induction theorems of the library take the property as an operator  *)
(* and no prover here can instantiate one; a property that is given as the *)
(* set of what has it is not, and the least element of a well-founded      *)
(* ordering gives the same induction for it.                               *)
(***************************************************************************)
EXTENDS Integers, FiniteSetsExt, FiniteSetTheorems, WellFoundedInduction, TLAPS

---------------------------------------------------------------------------
(* Induction                                                               *)

\* A set of subsets of a finite set has a member that contains no other.
LEMMA LeastSubset ==
    ASSUME NEW S, IsFiniteSet(S), NEW T, T \subseteq SUBSET S, T # {}
    PROVE  \E x \in T : \A y \in T : y \subseteq x => y = x
<1>1. IsWellFoundedOn(StrictSubsetOrdering(S), SUBSET S)
  BY FS_StrictSubsetOrderingWellFounded, FS_FiniteSubsetsOfFinite
<1>2. PICK x \in T : \A y \in T : <<y, x>> \notin StrictSubsetOrdering(S)
  BY <1>1, WFMin
<1>3. \A y \in T : y \subseteq x => y = x
  BY <1>2 DEF StrictSubsetOrdering
<1> QED BY <1>3

\* What the empty set has, and a set has when it has it without some element, every
\* subset of a finite set has.
LEMMA SubsetInduction ==
    ASSUME NEW S, IsFiniteSet(S), NEW P,
           {} \in P,
           \A s \in SUBSET S : \A x \in s : s \ {x} \in P => s \in P
    PROVE  \A s \in SUBSET S : s \in P
<1> DEFINE T == {s \in SUBSET S : s \notin P}
<1> SUFFICES ASSUME T # {} PROVE FALSE
  OBVIOUS
<1>1. T \subseteq SUBSET S
  OBVIOUS
<1>2. PICK x \in T : \A y \in T : y \subseteq x => y = x
  <2> HIDE DEF T
  <2> QED BY <1>1, LeastSubset
<1>3. PICK e \in x : TRUE
  BY <1>2
<1>4. x \ {e} \in P
  BY <1>2, <1>3
<1> QED BY <1>2, <1>3, <1>4

---------------------------------------------------------------------------
(* Sums                                                                    *)

\* Each element of S with a mark for every unit f gives it.
Units(S, f) == UNION {{x} \X (1..f[x]) : x \in S}

\* The sum of f over S, by counting.
Count(S, f) == Cardinality(Units(S, f))

\* One element more adds as many units as f gives it.
LEMMA UnitsOfOneMore ==
    ASSUME NEW s, NEW f, NEW x \in s, f[x] \in Nat, IsFiniteSet(Units(s \ {x}, f))
    PROVE  /\ IsFiniteSet(Units(s, f))
           /\ Count(s, f) = f[x] + Count(s \ {x}, f)
<1> DEFINE A == Units(s \ {x}, f)  B == {x} \X (1..f[x])
<1>1. Units(s, f) = A \cup B
  BY DEF Units
<1>2. A \cap B = {}
  BY DEF Units
<1>3. IsFiniteSet(B) /\ Cardinality(B) = f[x]
  <2>1. IsFiniteSet(1..f[x]) /\ Cardinality(1..f[x]) = f[x]
    BY FS_Interval
  <2>2. IsFiniteSet({x}) /\ Cardinality({x}) = 1
    BY FS_Singleton
  <2>3. IsFiniteSet(B) /\ Cardinality(B) = Cardinality({x}) * Cardinality(1..f[x])
    BY <2>1, <2>2, FS_Product
  <2> HIDE DEF B
  <2> QED BY <2>1, <2>2, <2>3
<1>4. Cardinality(A) \in Nat
  BY FS_CardinalityType
<1>5. Cardinality(A \cap B) = 0
  BY <1>2, FS_EmptySet
<1> HIDE DEF A, B
<1>6. IsFiniteSet(A)
  BY DEF A
<1>7. /\ IsFiniteSet(A \cup B)
      /\ Cardinality(A \cup B) = Cardinality(A) + Cardinality(B) - Cardinality(A \cap B)
  BY <1>6, <1>3, FS_Union
<1> QED BY <1>1, <1>3, <1>4, <1>5, <1>7 DEF Count, A

LEMMA UnitsAreFinite ==
    ASSUME NEW S, IsFiniteSet(S), NEW f, \A x \in S : f[x] \in Nat
    PROVE  \A s \in SUBSET S : IsFiniteSet(Units(s, f))
<1> DEFINE P == {s \in SUBSET S : IsFiniteSet(Units(s, f))}
<1>1. {} \in P
  BY FS_EmptySet DEF Units
<1>2. ASSUME NEW s \in SUBSET S, NEW x \in s, s \ {x} \in P
      PROVE  s \in P
  BY <1>2, UnitsOfOneMore
<1>3. \A s \in SUBSET S : s \in P
  <2> HIDE DEF P
  <2> QED BY <1>1, <1>2, SubsetInduction
<1> QED BY <1>3

\* The laws of sums: nothing, one element more, and the same values.
LEMMA CountOfNothing == ASSUME NEW f PROVE Count({}, f) = 0
BY FS_EmptySet DEF Count, Units

LEMMA CountIsNatural ==
    ASSUME NEW S, IsFiniteSet(S), NEW f, \A x \in S : f[x] \in Nat
    PROVE  Count(S, f) \in Nat
BY UnitsAreFinite, FS_CardinalityType DEF Count

LEMMA CountOfOneMore ==
    ASSUME NEW S, IsFiniteSet(S), NEW f, \A x \in S : f[x] \in Nat, NEW x \in S
    PROVE  Count(S, f) = f[x] + Count(S \ {x}, f)
BY UnitsAreFinite, UnitsOfOneMore

LEMMA CountOfSame ==
    ASSUME NEW S, NEW f, NEW g, \A x \in S : f[x] = g[x]
    PROVE  Count(S, f) = Count(S, g)
<1>1. Units(S, f) = Units(S, g)
  BY DEF Units
<1> QED BY <1>1 DEF Count

LEMMA CountOfZeros ==
    ASSUME NEW S, NEW f, \A x \in S : f[x] = 0
    PROVE  Count(S, f) = 0
<1>1. Units(S, f) = {}
  BY DEF Units
<1> QED BY <1>1, FS_EmptySet DEF Count

\* An element more, where the others keep what they had.
LEMMA CountOfAdded ==
    ASSUME NEW S, IsFiniteSet(S), NEW f, NEW g, NEW x, x \notin S, g[x] \in Nat,
           \A y \in S : g[y] = f[y], \A y \in S : f[y] \in Nat
    PROVE  /\ IsFiniteSet(S \cup {x})
           /\ Count(S \cup {x}, g) = Count(S, f) + g[x]
           /\ Count(S, f) \in Nat
<1> DEFINE T == S \cup {x}
<1>1. IsFiniteSet(T)
  BY FS_AddElement
<1>2. x \in T /\ T \ {x} = S /\ \A y \in T : g[y] \in Nat
  OBVIOUS
<1>3. Count(S, g) = Count(S, f)
  BY CountOfSame
<1>4. Count(S, f) \in Nat
  BY CountIsNatural
<1> HIDE DEF T
<1>5. Count(T, g) = g[x] + Count(T \ {x}, g)
  BY <1>1, <1>2, CountOfOneMore
<1>6. Count(T, g) = Count(S, f) + g[x]
  BY <1>2, <1>3, <1>4, <1>5
<1> QED BY <1>1, <1>4, <1>6 DEF T

\* The next number, where those before keep what they had.
LEMMA CountOfNext ==
    ASSUME NEW n \in Nat, NEW f, NEW g, g[n + 1] \in Nat,
           \A y \in 1..n : g[y] = f[y], \A y \in 1..n : f[y] \in Nat
    PROVE  Count(1..(n + 1), g) = Count(1..n, f) + g[n + 1]
<1> DEFINE S == 1..n  x == n + 1
<1>1. 1..(n + 1) = S \cup {x}
  OBVIOUS
<1>2. x \notin S /\ g[x] \in Nat
  OBVIOUS
<1>3. IsFiniteSet(S)
  BY FS_Interval
<1>4. \A y \in S : g[y] = f[y]
  OBVIOUS
<1>5. \A y \in S : f[y] \in Nat
  OBVIOUS
<1> HIDE DEF S, x
<1>6. Count(S \cup {x}, g) = Count(S, f) + g[x]
  BY ONLY <1>2, <1>3, <1>4, <1>5, CountOfAdded
<1> QED BY <1>1, <1>6 DEF S, x

\* Adding in the order CHOOSE gives is counting: the equation that defines a fold has a
\* solution, and every solution counts.
Folding(S, f, it) ==
    it = [s \in SUBSET S |->
            IF s = {} THEN 0 ELSE f[CHOOSE x \in s : TRUE] + it[s \ {CHOOSE x \in s : TRUE}]]

LEMMA FoldingExists ==
    ASSUME NEW S, IsFiniteSet(S), NEW f, \A x \in S : f[x] \in Nat
    PROVE  Folding(S, f, [s \in SUBSET S |-> Count(s, f)])
<1> DEFINE it == [s \in SUBSET S |-> Count(s, f)]
<1>1. ASSUME NEW s \in SUBSET S, s # {}
      PROVE  it[s] = f[CHOOSE x \in s : TRUE] + it[s \ {CHOOSE x \in s : TRUE}]
  <2> DEFINE e == CHOOSE x \in s : TRUE
  <2>1. e \in s
    BY <1>1
  <2>2. IsFiniteSet(s) /\ \A x \in s : f[x] \in Nat
    BY FS_Subset
  <2> HIDE DEF e
  <2>3. Count(s, f) = f[e] + Count(s \ {e}, f)
    BY <2>1, <2>2, CountOfOneMore
  <2>4. s \ {e} \in SUBSET S
    OBVIOUS
  <2>5. it[s] = f[e] + it[s \ {e}]
    BY <2>3, <2>4
  <2> QED BY <2>5 DEF e
<1>2. it[{}] = 0
  BY CountOfNothing
<1>3. ASSUME NEW s \in SUBSET S
      PROVE  it[s] = IF s = {} THEN 0
                     ELSE f[CHOOSE x \in s : TRUE] + it[s \ {CHOOSE x \in s : TRUE}]
  BY <1>1, <1>2
<1>4. it = [s \in SUBSET S |-> it[s]]
  OBVIOUS
<1> HIDE DEF it
<1>5. it = [s \in SUBSET S |->
              IF s = {} THEN 0
              ELSE f[CHOOSE x \in s : TRUE] + it[s \ {CHOOSE x \in s : TRUE}]]
  BY <1>3, <1>4
<1> QED BY <1>5 DEF Folding, it

\* What starts with 0 and, set by set, adds what f gives one of the elements, counts.
LEMMA AddingCounts ==
    ASSUME NEW S, IsFiniteSet(S), NEW f, \A x \in S : f[x] \in Nat, NEW it, it[{}] = 0,
           \A s \in SUBSET S : s # {} =>
              \E x \in s : it[s \ {x}] \in Nat => it[s] = f[x] + it[s \ {x}]
    PROVE  it[S] = Count(S, f)
<1> DEFINE P == {s \in SUBSET S : it[s] = Count(s, f)}
<1>1. {} \in P
  BY CountOfNothing
<1>2. \A s \in SUBSET S : s \in P
  <2> SUFFICES ASSUME NEW T, T = {s \in SUBSET S : s \notin P}, T # {} PROVE FALSE
    BY DEF P
  <2>1. PICK s \in T : \A y \in T : y \subseteq s => y = s
    <3>1. T \subseteq SUBSET S
      OBVIOUS
    <3> QED BY <3>1, LeastSubset
  <2>2. s \in SUBSET S /\ s # {} /\ s \notin P
    BY <1>1, <2>1
  <2>3. PICK x \in s : it[s \ {x}] \in Nat => it[s] = f[x] + it[s \ {x}]
    BY <2>2
  <2>4. s \ {x} \in P
    BY <2>1, <2>2, <2>3
  <2>5. IsFiniteSet(s) /\ \A y \in s : f[y] \in Nat
    BY <2>2, FS_Subset
  <2>6. Count(s, f) = f[x] + Count(s \ {x}, f)
    BY <2>5, CountOfOneMore
  <2>7. IsFiniteSet(s \ {x}) /\ \A y \in s \ {x} : f[y] \in Nat
    BY <2>5, FS_Subset
  <2>8. it[s \ {x}] = Count(s \ {x}, f)
    BY <2>4
  <2>9. it[s \ {x}] \in Nat
    BY <2>7, <2>8, CountIsNatural
  <2>10. it[s] = Count(s, f)
    BY <2>3, <2>6, <2>8, <2>9
  <2> QED BY <2>2, <2>10
<1> QED BY <1>2

LEMMA FoldingCounts ==
    ASSUME NEW S, IsFiniteSet(S), NEW f, \A x \in S : f[x] \in Nat, NEW it, Folding(S, f, it)
    PROVE  it[S] = Count(S, f)
<1>1. it[{}] = 0
  BY DEF Folding
<1>2. \A s \in SUBSET S : s # {} =>
         \E x \in s : it[s \ {x}] \in Nat => it[s] = f[x] + it[s \ {x}]
  <2> TAKE s \in SUBSET S
  <2> HAVE s # {}
  <2>1. it[s] = f[CHOOSE x \in s : TRUE] + it[s \ {CHOOSE x \in s : TRUE}]
    BY DEF Folding
  <2> QED BY <2>1
<1> QED BY <1>1, <1>2, AddingCounts
=============================================================================
