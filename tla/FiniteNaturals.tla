---------------------------- MODULE FiniteNaturals ----------------------------
(***************************************************************************)
(* Facts about finite sets and numbers that the proofs of several modules  *)
(* use.                                                                    *)
(***************************************************************************)
EXTENDS Integers, FiniteSets, FiniteSetTheorems, WellFoundedInduction, TLAPS

(* A subset of a finite set can be counted.                                *)
LEMMA SubsetCounted ==
    ASSUME NEW D, IsFiniteSet(D), NEW S \in SUBSET D
    PROVE  IsFiniteSet(S) /\ Cardinality(S) \in Nat
  <1>1. IsFiniteSet(S)
    BY FS_Subset
  <1> QED
    BY <1>1, FS_CardinalityType

(* A function from a finite set to numbers takes a greatest value: some    *)
(* element has a smallest set of elements above it.                        *)
LEMMA GreatestValue ==
    ASSUME NEW D, IsFiniteSet(D), D # {}, NEW f \in [D -> Nat]
    PROVE  \E m \in D : \A j \in D : f[j] <= f[m]
  <1> DEFINE Above(m) == {j \in D : f[m] < f[j]}
             T == {Above(m) : m \in D}
  <1>1. T # {} /\ T \subseteq FiniteSubsetsOf(D)
    <2>1. \A m \in D : Above(m) \in SUBSET D
      OBVIOUS
    <2> HIDE DEF Above
    <2>2. \A m \in D : IsFiniteSet(Above(m))
      BY <2>1, SubsetCounted
    <2> QED
      BY <2>1, <2>2 DEF FiniteSubsetsOf
  <1> HIDE DEF T
  <1>2. PICK A \in T : \A B \in T : <<B, A>> \notin StrictSubsetOrdering(D)
    BY <1>1, FS_StrictSubsetOrderingWellFounded, WFMin
  <1>3. PICK m \in D : A = Above(m)
    BY <1>2 DEF T
  <1>4. ASSUME NEW j \in D PROVE ~(f[m] < f[j])
    <2>1. SUFFICES ASSUME f[m] < f[j] PROVE FALSE
      OBVIOUS
    <2>2. Above(j) \in T
      BY DEF T
    <2>3. Above(j) \subseteq Above(m) /\ j \in Above(m) /\ j \notin Above(j)
      BY <2>1
    <2>4. <<Above(j), Above(m)>> \in StrictSubsetOrdering(D)
      BY <2>3 DEF StrictSubsetOrdering
    <2> QED
      BY <2>2, <2>4, <1>2, <1>3
  <1> QED
    BY <1>4

(* A finite set of numbers has a greatest and a smallest member.           *)
LEMMA Extremes ==
    ASSUME NEW D \in SUBSET Nat, IsFiniteSet(D), D # {}
    PROVE  /\ \E m \in D : \A j \in D : j <= m
           /\ \E m \in D : \A j \in D : m <= j
  <1>1. PICK m \in D : \A j \in D : j <= m
    <2> DEFINE f == [j \in D |-> j]
    <2>1. f \in [D -> Nat] /\ \A j \in D : f[j] = j
      OBVIOUS
    <2> HIDE DEF f
    <2>2. PICK m \in D : \A j \in D : f[j] <= f[m]
      BY <2>1, GreatestValue
    <2> QED
      BY <2>1, <2>2
  <1>2. \E n \in D : \A j \in D : n <= j
    <2> DEFINE f == [j \in D |-> m - j]
    <2>1. f \in [D -> Nat] /\ \A j \in D : f[j] = m - j
      BY <1>1
    <2> HIDE DEF f
    <2>2. PICK n \in D : \A j \in D : f[j] <= f[n]
      BY <2>1, GreatestValue
    <2>3. \A j \in D : n <= j
      <3>1. ASSUME NEW j \in D PROVE n <= j
        <4>1. f[j] <= f[n] /\ f[j] = m - j /\ f[n] = m - n
          BY <2>1, <2>2
        <4> QED
          BY <4>1
      <3> QED
        BY <3>1
    <2> QED
      BY <2>3
  <1> QED
    BY <1>1, <1>2
=============================================================================
