--------------------------------- MODULE Sums ---------------------------------
(****************************************************************************)
(* What SumFunctionOnSet of the community modules adds up to: facts about    *)
(* sums of natural numbers over finite sets, for the proofs about money and  *)
(* attendance. A sum is as many as there are units in it, and units can be   *)
(* counted with the theorems about cardinalities.                            *)
(****************************************************************************)
EXTENDS FiniteSetTheorems, TLAPS

\* Every non-empty set of natural numbers has a least one.
LEMMA LeastNumber ==
    ASSUME NEW S, S \subseteq Nat, S # {}
    PROVE  \E x \in S : \A y \in S : x <= y
<1> DEFINE R == OpToRel(<, Nat)
<1>1. IsWellFoundedOn(R, Nat)
      BY NatLessThanWellFounded
<1>2. \A x, y \in Nat : y < x => <<y, x>> \in R
      BY DEF OpToRel
<1> HIDE DEF R
<1>3. PICK x \in S : \A y \in S : <<y, x>> \notin R
      BY <1>1, WFMin, Zenon
<1>4. \A y \in S : ~(y < x)
      BY <1>2, <1>3, Zenon
<1>5. \A y \in S : x <= y
      BY <1>4
<1> QED
    BY <1>5

\* Induction over the subsets of a finite set: they are all good, if each is whenever
\* its proper subsets are.
LEMMA SubsetInduction ==
    ASSUME NEW S, IsFiniteSet(S), NEW Good,
           \A T \in SUBSET S : (\A U \in SUBSET T : U # T => U \in Good) => T \in Good
    PROVE  SUBSET S \subseteq Good
<1>1. IsWellFoundedOn(StrictSubsetOrdering(S), SUBSET S)
  <2>1. IsWellFoundedOn(StrictSubsetOrdering(S), FiniteSubsetsOf(S))
        BY FS_StrictSubsetOrderingWellFounded
  <2>2. FiniteSubsetsOf(S) = SUBSET S
        BY FS_FiniteSubsetsOfFinite
  <2> QED
      BY <2>1, <2>2
<1>2. ASSUME NEW Bad, Bad \subseteq SUBSET S, Bad # {}
      PROVE  \E T \in Bad : \A U \in Bad : <<U, T>> \notin StrictSubsetOrdering(S)
      BY <1>1, <1>2, WFMin
<1>3. ASSUME NEW T \in SUBSET S, T \notin Good PROVE FALSE
  <2> DEFINE Bad == {U \in SUBSET S : U \notin Good}
  <2>1. Bad \subseteq SUBSET S /\ Bad # {}
        BY <1>3
  <2> HIDE DEF Bad
  <2>2. PICK V \in Bad : \A U \in Bad : <<U, V>> \notin StrictSubsetOrdering(S)
        BY <1>2, <2>1, Zenon
  <2> USE DEF Bad
  <2>3. V \in SUBSET S /\ V \notin Good
        OBVIOUS
  <2>4. ASSUME NEW U \in SUBSET V, U # V PROVE U \in Good
    <3>1. <<U, V>> \in StrictSubsetOrdering(S)
          BY <2>3, <2>4 DEF StrictSubsetOrdering
    <3> QED
        BY <3>1, <2>2, <2>3
  <2> QED
      BY <2>3, <2>4
<1> QED
    BY <1>3

-----------------------------------------------------------------------------
(* Units. *)

Counts(f, S) == \A x \in S : f[x] \in Nat

\* The units of the elements of S, f[x] of them for each x.
Units(f, S) == {u \in S \X (Nat \ {0}) : u[2] <= f[u[1]]}

LEMMA UnitsOfOneMore ==
    ASSUME NEW S, NEW f, Counts(f, S), NEW x \in S, IsFiniteSet(Units(f, S \ {x}))
    PROVE  /\ IsFiniteSet(Units(f, S))
           /\ Cardinality(Units(f, S)) = f[x] + Cardinality(Units(f, S \ {x}))
<1> DEFINE A == {x} \X (1..f[x])
           B == Units(f, S \ {x})
<1>1. f[x] \in Nat
      BY DEF Counts
<1>2. IsFiniteSet(A) /\ Cardinality(A) = f[x]
  <2>1. IsFiniteSet(1..f[x]) /\ Cardinality(1..f[x]) = f[x]
    <3>1. ASSUME NEW k \in Nat PROVE IsFiniteSet(1..k) /\ Cardinality(1..k) = k
          BY FS_Interval
    <3> QED
        BY <1>1, <3>1, Zenon
  <2>2. IsFiniteSet({x}) /\ Cardinality({x}) = 1
        BY FS_Singleton
  <2> DEFINE I == 1..f[x]
  <2> HIDE DEF I
  <2>3. IsFiniteSet({x} \X I) /\ Cardinality({x} \X I) = Cardinality({x}) * Cardinality(I)
        BY <2>1, <2>2, FS_Product, Zenon DEF I
  <2> QED
      BY <1>1, <2>1, <2>2, <2>3 DEF I
<1>3. Units(f, S) = A \cup B
      BY <1>1 DEF Units
<1>4. A \cap B = {}
      BY DEF Units
<1>5. IsFiniteSet(B) /\ Cardinality(B) \in Nat
      BY FS_CardinalityType
<1> HIDE DEF A, B
<1>6. /\ IsFiniteSet(A \cup B)
      /\ Cardinality(A \cup B) = Cardinality(A) + Cardinality(B) - Cardinality(A \cap B)
      BY <1>2, <1>5, FS_Union
<1>7. Cardinality(A \cap B) = 0
      BY <1>4, FS_EmptySet
<1> QED
    BY <1>1, <1>2, <1>3, <1>5, <1>6, <1>7 DEF B

LEMMA UnitsFinite ==
    ASSUME NEW S, IsFiniteSet(S), NEW f, Counts(f, S)
    PROVE  IsFiniteSet(Units(f, S)) /\ Cardinality(Units(f, S)) \in Nat
<1> DEFINE Good == {T \in SUBSET S : IsFiniteSet(Units(f, T))}
<1>1. ASSUME NEW T \in SUBSET S, \A U \in SUBSET T : U # T => U \in Good
      PROVE  T \in Good
  <2>1. CASE T = {}
    <3>1. Units(f, T) = {}
          BY <2>1 DEF Units
    <3> QED
        BY <3>1, FS_EmptySet
  <2>2. ASSUME NEW x \in T PROVE T \in Good
    <3>1. IsFiniteSet(Units(f, T \ {x}))
      <4>1. T \ {x} \in SUBSET T /\ T \ {x} # T
            OBVIOUS
      <4> QED
          BY <1>1, <4>1
    <3>2. Counts(f, T)
          BY DEF Counts
    <3> QED
        BY <3>1, <3>2, UnitsOfOneMore
  <2> QED
      BY <2>1, <2>2
<1> HIDE DEF Good
<1>2. SUBSET S \subseteq Good
      BY <1>1, SubsetInduction
<1> QED
    BY <1>2, FS_CardinalityType DEF Good

-----------------------------------------------------------------------------
(* Sums. *)

\* One element of T after the other, as MapThenFoldSet takes them.
Taken(T) == CHOOSE x \in T : TRUE

Adds(g, f, S) ==
    g = [T \in SUBSET S |-> IF T = {} THEN 0 ELSE f[Taken(T)] + g[T \ {Taken(T)}]]

\* The units satisfy the recursion of the sum, ...
LEMMA UnitsAdd ==
    ASSUME NEW S, IsFiniteSet(S), NEW f, Counts(f, S)
    PROVE  Adds([T \in SUBSET S |-> Cardinality(Units(f, T))], f, S)
<1> DEFINE g == [T \in SUBSET S |-> Cardinality(Units(f, T))]
<1>1. ASSUME NEW T \in SUBSET S
      PROVE  g[T] = IF T = {} THEN 0 ELSE f[Taken(T)] + g[T \ {Taken(T)}]
  <2>1. CASE T = {}
    <3>1. Units(f, T) = {}
          BY <2>1 DEF Units
    <3> QED
        BY <2>1, <3>1, FS_EmptySet
  <2>2. CASE T # {}
    <3>1. Taken(T) \in T
          BY <2>2 DEF Taken
    <3>2. Counts(f, T) /\ Counts(f, T \ {Taken(T)}) /\ T \ {Taken(T)} \in SUBSET S
          BY DEF Counts
    <3>3. IsFiniteSet(T \ {Taken(T)})
          BY <3>2, FS_Subset
    <3>4. IsFiniteSet(Units(f, T \ {Taken(T)}))
          BY <3>2, <3>3, UnitsFinite
    <3>5. Cardinality(Units(f, T)) = f[Taken(T)] + Cardinality(Units(f, T \ {Taken(T)}))
          BY <3>1, <3>2, <3>4, UnitsOfOneMore
    <3> QED
        BY <2>2, <3>2, <3>5
  <2> QED
      BY <2>1, <2>2
<1> HIDE DEF g
<1>2. DOMAIN g = SUBSET S /\ g = [T \in SUBSET S |-> g[T]]
      BY DEF g
<1>3. g = [T \in SUBSET S |-> IF T = {} THEN 0 ELSE f[Taken(T)] + g[T \ {Taken(T)}]]
      BY <1>1, <1>2
<1> QED
    BY <1>3 DEF Adds, g

\* ... and nothing else does.
LEMMA AddsOnce ==
    ASSUME NEW S, IsFiniteSet(S), NEW f, NEW g, NEW h, Adds(g, f, S), Adds(h, f, S)
    PROVE  g = h
<1> DEFINE Good == {T \in SUBSET S : g[T] = h[T]}
<1>1. ASSUME NEW T \in SUBSET S, \A U \in SUBSET T : U # T => U \in Good
      PROVE  T \in Good
  <2>1. CASE T = {}
    <3>1. g[T] = 0 /\ h[T] = 0
          BY <2>1 DEF Adds
    <3> QED
        BY <3>1
  <2>2. CASE T # {}
    <3> DEFINE U == T \ {Taken(T)}
    <3>1. U \in SUBSET T /\ U # T
          BY <2>2 DEF Taken
    <3>2. g[U] = h[U]
          BY <1>1, <3>1
    <3>3. g[T] = f[Taken(T)] + g[U] /\ h[T] = f[Taken(T)] + h[U]
          BY <2>2 DEF Adds
    <3> QED
        BY <3>2, <3>3
  <2> QED
      BY <2>1, <2>2
<1> HIDE DEF Good
<1>2. SUBSET S \subseteq Good
      BY <1>1, SubsetInduction
<1>3. \A T \in SUBSET S : g[T] = h[T]
      BY <1>2 DEF Good
<1>4. g = [T \in SUBSET S |-> g[T]] /\ h = [T \in SUBSET S |-> h[T]]
      BY DEF Adds
<1> QED
    BY <1>3, <1>4

LEMMA SumIsUnits ==
    ASSUME NEW S, IsFiniteSet(S), NEW f, Counts(f, S)
    PROVE  SumFunctionOnSet(f, S) = Cardinality(Units(f, S))
<1> DEFINE g == [T \in SUBSET S |-> Cardinality(Units(f, T))]
           sum == CHOOSE h : Adds(h, f, S)
<1>1. SumFunctionOnSet(f, S) = sum[S]
      BY DEF SumFunctionOnSet, FoldFunctionOnSet, MapThenFoldSet, Adds, Taken
<1>2. Adds(g, f, S)
      BY UnitsAdd
<1> HIDE DEF g
<1>3. Adds(sum, f, S)
      BY <1>2
<1> HIDE DEF sum
<1>4. sum = g
      BY <1>2, <1>3, AddsOnce
<1> QED
    BY <1>1, <1>4 DEF g

-----------------------------------------------------------------------------
(* What sums do. *)

LEMMA SumIsNat ==
    ASSUME NEW S, IsFiniteSet(S), NEW f, Counts(f, S)
    PROVE  SumFunctionOnSet(f, S) \in Nat
BY SumIsUnits, UnitsFinite

LEMMA SumOfNone ==
    ASSUME NEW f
    PROVE  SumFunctionOnSet(f, {}) = 0
<1>1. IsFiniteSet({}) /\ Counts(f, {})
      BY FS_EmptySet DEF Counts
<1>2. Units(f, {}) = {}
      BY DEF Units
<1> QED
    BY <1>1, <1>2, SumIsUnits, FS_EmptySet

\* Only the values at the elements matter.
LEMMA SumOfSame ==
    ASSUME NEW S, IsFiniteSet(S), NEW f, NEW g, Counts(f, S), \A x \in S : g[x] = f[x]
    PROVE  SumFunctionOnSet(g, S) = SumFunctionOnSet(f, S)
<1>1. Counts(g, S)
      BY DEF Counts
<1>2. Units(g, S) = Units(f, S)
      BY DEF Units
<1> QED
    BY <1>1, <1>2, SumIsUnits

LEMMA SumIsMonotonic ==
    ASSUME NEW S, IsFiniteSet(S), NEW f, NEW g, Counts(f, S), Counts(g, S),
           NEW T \in SUBSET S, \A x \in T : f[x] <= g[x]
    PROVE  SumFunctionOnSet(f, T) <= SumFunctionOnSet(g, S)
<1>1. IsFiniteSet(T) /\ Counts(f, T)
      BY FS_Subset DEF Counts
<1>2. Units(f, T) \subseteq Units(g, S)
      BY DEF Units, Counts
<1>3. IsFiniteSet(Units(g, S))
      BY UnitsFinite
<1>4. Cardinality(Units(f, T)) <= Cardinality(Units(g, S))
      BY <1>2, <1>3, FS_Subset
<1> QED
    BY <1>1, <1>4, SumIsUnits

LEMMA SumOfSubset ==
    ASSUME NEW S, IsFiniteSet(S), NEW f, Counts(f, S), NEW T \in SUBSET S
    PROVE  SumFunctionOnSet(f, T) <= SumFunctionOnSet(f, S)
<1>1. \A x \in T : f[x] <= f[x]
      BY DEF Counts
<1> QED
    BY <1>1, SumIsMonotonic

LEMMA SumOfUnion ==
    ASSUME NEW S, IsFiniteSet(S), NEW T, IsFiniteSet(T), S \cap T = {},
           NEW f, Counts(f, S), Counts(f, T)
    PROVE  SumFunctionOnSet(f, S \cup T) = SumFunctionOnSet(f, S) + SumFunctionOnSet(f, T)
<1> DEFINE A == Units(f, S)
           B == Units(f, T)
<1>1. IsFiniteSet(S \cup T) /\ Counts(f, S \cup T)
      BY FS_Union DEF Counts
<1>2. Units(f, S \cup T) = A \cup B /\ A \cap B = {}
      BY DEF Units
<1>3. /\ IsFiniteSet(A) /\ Cardinality(A) \in Nat
      /\ IsFiniteSet(B) /\ Cardinality(B) \in Nat
      BY UnitsFinite
<1>4. /\ SumFunctionOnSet(f, S) = Cardinality(A)
      /\ SumFunctionOnSet(f, T) = Cardinality(B)
      /\ SumFunctionOnSet(f, S \cup T) = Cardinality(Units(f, S \cup T))
      BY <1>1, SumIsUnits
<1> HIDE DEF A, B
<1>5. Cardinality(A \cup B) = Cardinality(A) + Cardinality(B) - Cardinality(A \cap B)
      BY <1>3, FS_Union
<1>6. Cardinality(A \cap B) = 0
      BY <1>2, FS_EmptySet
<1> QED
    BY <1>2, <1>3, <1>4, <1>5, <1>6

LEMMA SumOfOneMore ==
    ASSUME NEW S, IsFiniteSet(S), NEW f, Counts(f, S), NEW x \in S
    PROVE  /\ IsFiniteSet(S \ {x}) /\ Counts(f, S \ {x})
           /\ f[x] \in Nat /\ SumFunctionOnSet(f, S \ {x}) \in Nat
           /\ SumFunctionOnSet(f, S) = f[x] + SumFunctionOnSet(f, S \ {x})
<1>1. IsFiniteSet(S \ {x}) /\ Counts(f, S \ {x})
      BY FS_RemoveElement DEF Counts
<1>2. IsFiniteSet(Units(f, S \ {x}))
      BY <1>1, UnitsFinite
<1>3. Cardinality(Units(f, S)) = f[x] + Cardinality(Units(f, S \ {x}))
      BY <1>2, UnitsOfOneMore
<1>4. f[x] \in Nat
      BY DEF Counts
<1> QED
    BY <1>1, <1>3, <1>4, SumIsUnits, SumIsNat

\* Elements that were not there before add what they count.
LEMMA SumWithNew ==
    ASSUME NEW S, IsFiniteSet(S), NEW x, x \notin S, NEW f, Counts(f, S \cup {x})
    PROVE  SumFunctionOnSet(f, S \cup {x}) = SumFunctionOnSet(f, S) + f[x]
<1>1. IsFiniteSet(S \cup {x}) /\ (S \cup {x}) \ {x} = S
      BY FS_AddElement
<1>2. x \in S \cup {x}
      OBVIOUS
<1>3. SumFunctionOnSet(f, S) \in Nat /\ f[x] \in Nat
      BY SumIsNat DEF Counts
<1>4. SumFunctionOnSet(f, S \cup {x}) = f[x] + SumFunctionOnSet(f, (S \cup {x}) \ {x})
      BY <1>1, <1>2, SumOfOneMore
<1>5. SumFunctionOnSet(f, (S \cup {x}) \ {x}) = SumFunctionOnSet(f, S)
      BY <1>1, Zenon
<1> QED
    BY <1>3, <1>4, <1>5

\* What is counted in groups stays within the groups' bounds together: the elements of
\* T belong to those of S, each of which bounds the sum of its own.
LEMMA SumOfGroups ==
    ASSUME NEW S, IsFiniteSet(S), NEW g, Counts(g, S),
           NEW T, IsFiniteSet(T), NEW f, Counts(f, T), NEW of, \A y \in T : of[y] \in S,
           \A x \in S : SumFunctionOnSet(f, {y \in T : of[y] = x}) <= g[x]
    PROVE  SumFunctionOnSet(f, T) <= SumFunctionOnSet(g, S)
<1> DEFINE In(U) == {y \in T : of[y] \in U}
           Good == {U \in SUBSET S : SumFunctionOnSet(f, In(U)) <= SumFunctionOnSet(g, U)}
<1>1. ASSUME NEW U
      PROVE  IsFiniteSet(In(U)) /\ Counts(f, In(U)) /\ SumFunctionOnSet(f, In(U)) \in Nat
  <2>1. In(U) \in SUBSET T
        OBVIOUS
  <2>2. IsFiniteSet(In(U)) /\ Counts(f, In(U))
        BY <2>1, FS_Subset DEF Counts
  <2> QED
      BY <2>2, SumIsNat
<1>2. ASSUME NEW U \in SUBSET S, \A V \in SUBSET U : V # U => V \in Good
      PROVE  U \in Good
  <2>1. CASE U = {}
    <3>1. In(U) = {}
          BY <2>1
    <3>2. SumFunctionOnSet(f, In(U)) = 0 /\ SumFunctionOnSet(g, U) = 0
          BY <2>1, <3>1, SumOfNone
    <3> QED
        BY <3>2
  <2>2. ASSUME NEW x \in U PROVE U \in Good
    <3> DEFINE V == U \ {x}
    <3>1. V \in SUBSET U /\ V # U /\ V \in SUBSET S
          OBVIOUS
    <3>2. V \in Good
          BY <1>2, <3>1
    <3>3. SumFunctionOnSet(f, In(V)) <= SumFunctionOnSet(g, V)
          BY <3>2
    <3>4. IsFiniteSet(U) /\ Counts(g, U)
          BY FS_Subset DEF Counts
    <3>5. /\ g[x] \in Nat /\ SumFunctionOnSet(g, V) \in Nat
          /\ SumFunctionOnSet(g, U) = g[x] + SumFunctionOnSet(g, V)
          BY <3>4, SumOfOneMore
    <3>6. In(U) = In(V) \cup In({x}) /\ In(V) \cap In({x}) = {}
          OBVIOUS
    <3>7. In({x}) = {y \in T : of[y] = x}
          OBVIOUS
    <3>8. SumFunctionOnSet(f, In({x})) <= g[x]
          BY <3>7
    <3> HIDE DEF In, V
    <3>9. SumFunctionOnSet(f, In(U)) = SumFunctionOnSet(f, In(V)) + SumFunctionOnSet(f, In({x}))
      <4> DEFINE A == In(V)
                 B == In({x})
      <4>1. IsFiniteSet(A) /\ Counts(f, A) /\ IsFiniteSet(B) /\ Counts(f, B)
            BY <1>1
      <4>2. In(U) = A \cup B /\ A \cap B = {}
            BY <3>6
      <4> HIDE DEF A, B
      <4>3. SumFunctionOnSet(f, A \cup B) = SumFunctionOnSet(f, A) + SumFunctionOnSet(f, B)
            BY <4>1, <4>2, SumOfUnion
      <4> QED
          BY <4>2, <4>3 DEF A, B
    <3>10. /\ SumFunctionOnSet(f, In(U)) \in Nat /\ SumFunctionOnSet(f, In(V)) \in Nat
           /\ SumFunctionOnSet(f, In({x})) \in Nat
          BY <1>1
    <3>11. SumFunctionOnSet(f, In(U)) <= SumFunctionOnSet(g, U)
          BY <3>3, <3>5, <3>8, <3>9, <3>10
    <3> QED
        BY <3>11
  <2> QED
      BY <2>1, <2>2
<1> HIDE DEF Good
<1>3. SUBSET S \subseteq Good
      BY <1>2, SubsetInduction
<1>4. In(S) = T
      OBVIOUS
<1>5. S \in Good
      BY <1>3
<1> QED
    BY <1>4, <1>5 DEF Good

\* Two sums whose sets and values differ at x only.
LEMMA SumAfterChange ==
    ASSUME NEW S, IsFiniteSet(S), NEW f, Counts(f, S),
           NEW T, IsFiniteSet(T), NEW g, Counts(g, T),
           NEW x, S \ {x} = T \ {x}, \A y \in S \ {x} : g[y] = f[y]
    PROVE  /\ SumFunctionOnSet(f, S) \in Nat /\ SumFunctionOnSet(g, T) \in Nat
           /\ SumFunctionOnSet(g, T) = SumFunctionOnSet(f, S) - (IF x \in S THEN f[x] ELSE 0)
                                                             + (IF x \in T THEN g[x] ELSE 0)
<1> DEFINE R == S \ {x}
<1>1. IsFiniteSet(R) /\ Counts(f, R) /\ Counts(g, R)
      BY FS_RemoveElement DEF Counts
<1>2. SumFunctionOnSet(g, R) = SumFunctionOnSet(f, R)
      BY <1>1, SumOfSame
<1>3. /\ SumFunctionOnSet(f, R) \in Nat
      /\ SumFunctionOnSet(f, S) \in Nat /\ SumFunctionOnSet(g, T) \in Nat
      BY <1>1, SumIsNat
<1>4. SumFunctionOnSet(f, R) = SumFunctionOnSet(f, S) - (IF x \in S THEN f[x] ELSE 0)
  <2>1. CASE x \in S
    <3>1. f[x] \in Nat /\ SumFunctionOnSet(f, S) = f[x] + SumFunctionOnSet(f, R)
          BY <2>1, SumOfOneMore
    <3> QED
        BY <1>3, <2>1, <3>1
  <2>2. CASE x \notin S
    <3>1. R = S
          BY <2>2
    <3> HIDE DEF R
    <3> QED
        BY <1>3, <2>2, <3>1
  <2> QED
      BY <2>1, <2>2
<1>5. SumFunctionOnSet(g, T) = SumFunctionOnSet(g, R) + (IF x \in T THEN g[x] ELSE 0)
  <2>1. CASE x \in T
    <3>1. g[x] \in Nat /\ SumFunctionOnSet(g, T) = g[x] + SumFunctionOnSet(g, T \ {x})
          BY <2>1, SumOfOneMore
    <3> HIDE DEF R
    <3>2. SumFunctionOnSet(g, T \ {x}) = SumFunctionOnSet(g, R)
          BY DEF R
    <3> QED
        BY <1>2, <1>3, <2>1, <3>1, <3>2
  <2>2. CASE x \notin T
    <3>1. R = T
          BY <2>2
    <3> HIDE DEF R
    <3> QED
        BY <1>3, <2>2, <3>1
  <2> QED
      BY <2>1, <2>2
<1>6. (x \in S => f[x] \in Nat) /\ (x \in T => g[x] \in Nat)
      BY DEF Counts
<1> HIDE DEF R
<1> QED
    BY <1>2, <1>3, <1>4, <1>5, <1>6
===============================================================================
