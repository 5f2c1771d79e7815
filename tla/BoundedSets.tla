---------------------------- MODULE BoundedSets ----------------------------
(***************************************************************************)
(* Facts about sets of numbers with a bound that the proofs share: their    *)
(* members can be ranked, and they have a smallest and a largest member.    *)
(***************************************************************************)
EXTENDS Integers, FiniteSets, FiniteSetsExt, FiniteSetTheorems, TLAPS

\* The ranks of n chosen positions are the numbers from 1 to n, each once.
LEMMA Ranks ==
  ASSUME NEW n \in Nat, NEW K \in SUBSET (0 .. n),
         NEW R, R = [i \in K |-> Cardinality({k \in K : k <= i})]
  PROVE  /\ IsFiniteSet(K) /\ Cardinality(K) \in Nat
         /\ R \in Bijection(K, 1 .. Cardinality(K))
<1>1. IsFiniteSet(K) /\ Cardinality(K) \in Nat
  <2>1. IsFiniteSet(0 .. n)
    BY FS_Interval
  <2>2. IsFiniteSet(K)
    BY <2>1, FS_Subset
  <2> QED BY <2>2, FS_CardinalityType
<1>2. ASSUME NEW i \in K
      PROVE  /\ IsFiniteSet({k \in K : k <= i})
             /\ Cardinality({k \in K : k <= i}) \in 1 .. Cardinality(K)
  <2> DEFINE U == {k \in K : k <= i}
  <2>1. U \in SUBSET K /\ i \in U
    OBVIOUS
  <2>2. IsFiniteSet(U) /\ Cardinality(U) <= Cardinality(K) /\ Cardinality(U) \in Nat
    BY <1>1, <2>1, FS_Subset, FS_CardinalityType
  <2>3. Cardinality(U) # 0
    BY <2>1, <2>2, FS_EmptySet
  <2> QED BY <1>1, <2>2, <2>3
<1>3. ASSUME NEW i \in K, NEW j \in K, i < j
      PROVE  Cardinality({k \in K : k <= i}) # Cardinality({k \in K : k <= j})
  <2> DEFINE U == {k \in K : k <= i}
             V == {k \in K : k <= j}
  <2>1. U \in SUBSET V /\ j \in V /\ j \notin U
    <3>1. K \subseteq Nat /\ j <= j /\ ~(j <= i)
      BY <1>3
    <3>2. \A k \in K : k <= i => k <= j
      BY <1>3, <3>1
    <3> QED BY <3>1, <3>2
  <2>2. IsFiniteSet(V)
    BY <1>2
  <2> HIDE DEF U, V
  <2>3. Cardinality(V) = Cardinality(U) => V = U
    BY <2>1, <2>2, FS_Subset
  <2>4. Cardinality(U) # Cardinality(V)
    BY <2>1, <2>3
  <2> QED BY <2>4 DEF U, V
<1>4. R \in [K -> 1 .. Cardinality(K)]
  BY <1>2
<1>5. \A i, j \in K : R[i] = R[j] => i = j
  <2> SUFFICES ASSUME NEW i \in K, NEW j \in K, i # j PROVE R[i] # R[j]
    OBVIOUS
  <2>1. i < j \/ j < i
    OBVIOUS
  <2> QED BY <2>1, <1>3
<1>6. R \in Injection(K, 1 .. Cardinality(K))
  BY <1>4, <1>5 DEF Injection, IsInjective
<1>7. IsFiniteSet(1 .. Cardinality(K)) /\ Cardinality(1 .. Cardinality(K)) = Cardinality(K)
  BY <1>1, FS_Interval
<1>8. R \in Surjection(K, 1 .. Cardinality(K))
  BY <1>6, <1>7, FS_Injection
<1> QED BY <1>1, <1>6, <1>8 DEF Bijection

\* A non-empty set has a smallest member.
LEMMA MinFacts ==
  ASSUME NEW n \in Nat, NEW I \in SUBSET (0 .. n), I # {}
  PROVE  Min(I) \in I /\ \A j \in I : Min(I) <= j
<1> DEFINE R == [i \in I |-> Cardinality({k \in I : k <= i})]
<1>1. /\ IsFiniteSet(I) /\ Cardinality(I) \in Nat
      /\ R \in Bijection(I, 1 .. Cardinality(I))
  BY Ranks
<1>2. Cardinality(I) # 0
  BY <1>1, FS_EmptySet
<1>3. 1 \in 1 .. Cardinality(I)
  BY <1>1, <1>2
<1>4. PICK i \in I : R[i] = 1
  BY <1>1, <1>3 DEF Bijection, Surjection
<1>5. ASSUME NEW j \in I, j < i PROVE FALSE
  <2> DEFINE U == {k \in I : k <= i}
  <2>1. i \in U /\ j \in U /\ i # j
    BY <1>5
  <2>2. IsFiniteSet(U)
    BY <1>1, FS_Subset
  <2>3. Cardinality(U) = 1
    BY <1>4
  <2> HIDE DEF U
  <2> QED BY <2>1, <2>2, <2>3, FS_Singleton
<1>6. \A j \in I : i <= j
  BY <1>5
<1> QED BY <1>6 DEF Min

\* A non-empty set has a largest member.
LEMMA MaxFacts ==
  ASSUME NEW n \in Nat, NEW I \in SUBSET (0 .. n), I # {}
  PROVE  Max(I) \in I /\ \A j \in I : j <= Max(I)
<1> DEFINE R == [i \in I |-> Cardinality({k \in I : k <= i})]
<1>1. /\ IsFiniteSet(I) /\ Cardinality(I) \in Nat
      /\ R \in Bijection(I, 1 .. Cardinality(I))
  BY Ranks
<1>2. Cardinality(I) # 0
  BY <1>1, FS_EmptySet
<1>3. Cardinality(I) \in 1 .. Cardinality(I)
  BY <1>1, <1>2
<1>4. PICK i \in I : R[i] = Cardinality(I)
  BY <1>1, <1>3 DEF Bijection, Surjection
<1>5. \A j \in I : j <= i
  <2> DEFINE U == {k \in I : k <= i}
  <2>1. U \in SUBSET I /\ Cardinality(U) = Cardinality(I)
    BY <1>4
  <2> HIDE DEF U
  <2>2. U = I
    BY <2>1, <1>1, FS_Subset
  <2> QED BY <2>2 DEF U
<1> QED BY <1>5 DEF Max
=============================================================================
