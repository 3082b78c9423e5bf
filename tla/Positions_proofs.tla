--------------------------- MODULE Positions_proofs ---------------------------
(***************************************************************************)
(* Lemmas about sets of places: that there is a first one, and that Nth    *)
(* counts them.                                                            *)
(***************************************************************************)
EXTENDS Positions, FiniteSetsExt, FiniteSetTheorems, WellFoundedInduction, TLAPS

\* There is a least number in every set of numbers that is not empty.
LEMMA LeastNumber ==
  ASSUME NEW T, T \subseteq Nat, T # {}
  PROVE  /\ \E x \in T : \A y \in T : x <= y
         /\ Min(T) \in T /\ \A y \in T : Min(T) <= y
<1>1. \E x \in T : \A y \in T : ~(<<y, x>> \in OpToRel(<, Nat))
  BY WFMin, NatLessThanWellFounded
<1>2. \E x \in T : \A y \in T : ~(y < x)
  BY <1>1, Zenon DEF OpToRel
<1>3. \E x \in T : \A y \in T : x <= y
  BY <1>2
<1> QED
  BY <1>3 DEF Min

\* How many members of S there are up to i.
Rank(S, i) == Cardinality({j \in S : j <= i})

\* The ranks of the members of a finite set of numbers are in the order of the numbers.
LEMMA RankGrows ==
  ASSUME NEW S, S \subseteq Nat, IsFiniteSet(S), NEW i \in S, NEW j \in S
  PROVE  /\ Rank(S, i) \in 1..Cardinality(S)
         /\ i < j <=> Rank(S, i) < Rank(S, j)
         /\ i = j <=> Rank(S, i) = Rank(S, j)
<1>1. ASSUME NEW x \in S
      PROVE  /\ {y \in S : y <= x} \in SUBSET S
             /\ IsFiniteSet({y \in S : y <= x})
             /\ Rank(S, x) \in 1..Cardinality(S)
  <2>1. IsFiniteSet({y \in S : y <= x}) /\ Rank(S, x) <= Cardinality(S)
    BY FS_Subset DEF Rank
  <2>2. x \in {y \in S : y <= x}
    OBVIOUS
  <2>3. Rank(S, x) \in Nat /\ Rank(S, x) # 0 /\ Cardinality(S) \in Nat
    BY <2>1, <2>2, FS_EmptySet, FS_CardinalityType DEF Rank
  <2> QED
    BY <2>1, <2>3
<1>2. ASSUME NEW x \in S, NEW y \in S, x < y
      PROVE  Rank(S, x) < Rank(S, y)
  <2> DEFINE X == {z \in S : z <= x}  Y == {z \in S : z <= y}
  <2>1. X \subseteq Y /\ X # Y
    <3>1. x \in Nat /\ y \in Nat /\ \A z \in S : z \in Nat
      OBVIOUS
    <3>2. y \in Y /\ y \notin X
      BY <3>1, <1>2
    <3>3. ASSUME NEW z \in X PROVE z \in Y
      BY <3>1, <3>3, <1>2
    <3> QED
      BY <3>2, <3>3
  <2>2. IsFiniteSet(Y) /\ Cardinality(X) \in Nat /\ Cardinality(Y) \in Nat
    BY <1>1 DEF Rank
  <2>3. Cardinality(X) <= Cardinality(Y) /\ Cardinality(X) # Cardinality(Y)
    BY <2>1, <2>2, FS_Subset
  <2> QED
    BY <2>2, <2>3 DEF Rank
<1>3. i \in Nat /\ j \in Nat /\ Rank(S, i) \in Nat /\ Rank(S, j) \in Nat
  <2>1. \A n \in 1..Cardinality(S) : n \in Nat
    OBVIOUS
  <2> QED
    BY <1>1, <2>1
<1>4. (i < j => Rank(S, i) < Rank(S, j)) /\ (j < i => Rank(S, j) < Rank(S, i))
  BY <1>2
<1>5. i < j <=> Rank(S, i) < Rank(S, j)
  BY <1>3, <1>4
<1>6. i = j <=> Rank(S, i) = Rank(S, j)
  BY <1>3, <1>4
<1> QED
  BY <1>1, <1>5, <1>6

\* Nth counts the members of a finite set of numbers from below.
LEMMA NthCounts ==
  ASSUME NEW S, S \subseteq Nat, IsFiniteSet(S)
  PROVE  /\ Cardinality(S) \in Nat
         /\ \A k \in 1..Cardinality(S) : Nth(S, k) \in S /\ Rank(S, Nth(S, k)) = k
         /\ \A i \in S : Rank(S, i) \in 1..Cardinality(S) /\ Nth(S, Rank(S, i)) = i
<1> DEFINE n == Cardinality(S)
           rank == [i \in S |-> Rank(S, i)]
<1>1. n \in Nat
  BY FS_CardinalityType
<1>2. rank \in Injection(S, 1..n)
  BY RankGrows DEF Injection, IsInjective
<1>3. IsFiniteSet(1..n) /\ Cardinality(1..n) = n
  BY <1>1, FS_Interval
<1>4. rank \in Surjection(S, 1..n)
  BY <1>2, <1>3, FS_Injection
<1>5. \A k \in 1..n : \E i \in S : Rank(S, i) = k
  BY <1>4 DEF Surjection
<1>6. ASSUME NEW k \in 1..n
      PROVE  Nth(S, k) \in S /\ Rank(S, Nth(S, k)) = k
  BY <1>5, <1>6 DEF Nth, Rank
<1>7. ASSUME NEW i \in S
      PROVE  Rank(S, i) \in 1..n /\ Nth(S, Rank(S, i)) = i
  <2>1. Rank(S, i) \in 1..n
    BY RankGrows
  <2>2. Nth(S, Rank(S, i)) \in S /\ Rank(S, Nth(S, Rank(S, i))) = Rank(S, i)
    BY <1>6, <2>1
  <2> QED
    BY <2>1, <2>2, RankGrows
<1> QED
  BY <1>1, <1>6, <1>7
==============================================================================
