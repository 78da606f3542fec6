---------------------------- MODULE OrderLemmas ----------------------------
(* Facts about sets of naturals that several proofs rest on. *)
EXTENDS FiniteSetsExt, Integers, Selection, FiniteSetTheorems, WellFoundedInduction, TLAPS

\* A set of naturals that is not empty has a smallest member.
LEMMA MinOfNaturals ==
    ASSUME NEW S \in SUBSET Nat, S # {}
    PROVE  Min(S) \in S /\ \A y \in S : Min(S) <= y
<1>1. \E x \in S : \A y \in S : ~ (<<y, x>> \in OpToRel(<, Nat))
  BY NatLessThanWellFounded, WFMin
<1>2. \A x, y \in Nat : y < x => <<y, x>> \in OpToRel(<, Nat)
  BY DEF OpToRel
<1>3. \E x \in S : \A y \in S : ~ (y < x)
  BY <1>1, <1>2
<1>4. \E x \in S : \A y \in S : x <= y
  BY <1>3
<1> QED
  BY <1>4 DEF Min

\* Places of a sequence.
LEMMA PlacesFinite ==
    ASSUME NEW n \in Nat, NEW S \in SUBSET (1 .. n)
    PROVE  /\ IsFiniteSet(S) /\ Cardinality(S) \in Nat
           /\ \A j \in S : j \in Nat /\ 1 <= j /\ j <= n
<1>1. n \in Int /\ 1 \in Int
  OBVIOUS
<1>2. IsFiniteSet(1 .. n)
  BY <1>1, FS_Interval
<1>3. IsFiniteSet(S)
  BY <1>2, FS_Subset
<1>4. \A j \in S : j \in 1 .. n
  OBVIOUS
<1> QED
  BY <1>1, <1>3, <1>4, FS_CardinalityType

\* One that is bounded has a largest: the least of its bounds.
LEMMA MaxOfPlaces ==
    ASSUME NEW n \in Nat, NEW S \in SUBSET (1 .. n), S # {}
    PROVE  Max(S) \in S /\ \A y \in S : y <= Max(S)
<1> DEFINE bounds == {m \in Nat : \A y \in S : y <= m}
           m == Min(bounds)
<1>1. m \in bounds /\ \A b \in bounds : m <= b
  <2>1. n \in bounds /\ bounds \in SUBSET Nat
    OBVIOUS
  <2> HIDE DEF bounds
  <2> QED
    BY <2>1, MinOfNaturals
<1>2. m \in Nat /\ \A y \in S : y <= m
  BY <1>1
<1>3. m - 1 \notin bounds
  BY <1>1, <1>2
<1>4. m \in S
  <2> HIDE DEF m
  <2>1. \A y \in S : ~ (y <= 0)
    OBVIOUS
  <2>2. m # 0
    BY <1>2, <2>1
  <2>3. PICK y \in S : ~ (y <= m - 1)
    BY <1>2, <1>3, <2>2
  <2> QED
    BY <1>2, <2>3
<1> HIDE DEF m
<1> QED
  BY <1>2, <1>4 DEF Max

-----------------------------------------------------------------------------
(* The k-th member of a set of places *)

UpToPlace(S, i) == {j \in S : j <= i}

LEMMA UpToPlaceFinite ==
    ASSUME NEW n \in Nat, NEW S \in SUBSET (1 .. n), NEW i
    PROVE  /\ IsFiniteSet(UpToPlace(S, i)) /\ Cardinality(UpToPlace(S, i)) \in Nat
           /\ Cardinality(UpToPlace(S, i)) <= Cardinality(S)
BY PlacesFinite, FS_Subset, FS_CardinalityType DEF UpToPlace

\* There is one: the first place up to which there are k.
LEMMA NthMember ==
    ASSUME NEW n \in Nat, NEW S \in SUBSET (1 .. n), NEW k \in 1 .. Cardinality(S)
    PROVE  Nth(S, k) \in S /\ Cardinality(UpToPlace(S, Nth(S, k))) = k
<1> DEFINE enough == {i \in Nat : k <= Cardinality(UpToPlace(S, i))}
           i == Min(enough)
<1>1. /\ Cardinality(S) \in Nat /\ k \in Nat /\ 1 <= k /\ k <= Cardinality(S)
      /\ \A j \in S : j \in Nat /\ 1 <= j /\ j <= n
  BY PlacesFinite
<1>2. i \in enough /\ \A j \in enough : i <= j
  <2>1. UpToPlace(S, n) = S
    BY <1>1, Zenon DEF UpToPlace
  <2>2. n \in enough /\ enough \in SUBSET Nat
    BY <1>1, <2>1
  <2> HIDE DEF enough
  <2> QED
    BY <2>2, MinOfNaturals
<1>3. i \in Nat /\ k <= Cardinality(UpToPlace(S, i)) /\ (i # 0 => i - 1 \notin enough)
  BY <1>2
<1> HIDE DEF i
<1>4. i # 0
  <2>1. \A j \in S : ~ (j <= 0)
    OBVIOUS
  <2>2. UpToPlace(S, 0) = {}
    BY <2>1, Zenon DEF UpToPlace
  <2> QED
    BY <1>1, <1>3, <2>2, FS_EmptySet
<1>5. /\ Cardinality(UpToPlace(S, i)) \in Nat /\ Cardinality(UpToPlace(S, i - 1)) \in Nat
      /\ IsFiniteSet(UpToPlace(S, i - 1))
  BY UpToPlaceFinite
<1>6. Cardinality(UpToPlace(S, i - 1)) < k
  BY <1>1, <1>3, <1>4, <1>5
<1>7. (\A j \in S : j <= i <=> j <= i - 1 \/ j = i) /\ ~ (i <= i - 1)
  BY <1>3
<1>8. i \in S
  <2>1. i \notin S => UpToPlace(S, i) = UpToPlace(S, i - 1)
    BY <1>7, Zenon DEF UpToPlace
  <2> QED
    BY <1>1, <1>3, <1>5, <1>6, <2>1
<1>9. Cardinality(UpToPlace(S, i)) = Cardinality(UpToPlace(S, i - 1)) + 1
  <2>1. UpToPlace(S, i) = UpToPlace(S, i - 1) \cup {i} /\ i \notin UpToPlace(S, i - 1)
    BY <1>7, <1>8, Zenon DEF UpToPlace
  <2> QED
    BY <1>5, <2>1, FS_AddElement
<1>10. Cardinality(UpToPlace(S, i)) = k
  BY <1>1, <1>3, <1>5, <1>6, <1>9
<1> QED
  BY <1>8, <1>10 DEF Nth, UpToPlace

\* And only one.
LEMMA NthUnique ==
    ASSUME NEW n \in Nat, NEW S \in SUBSET (1 .. n), NEW i \in S
    PROVE  /\ Cardinality(UpToPlace(S, i)) \in 1 .. Cardinality(S)
           /\ Nth(S, Cardinality(UpToPlace(S, i))) = i
<1> DEFINE k == Cardinality(UpToPlace(S, i))
<1>1. /\ Cardinality(S) \in Nat
      /\ \A j \in S : j \in Nat /\ 1 <= j /\ j <= n
  BY PlacesFinite
<1>2. k \in 1 .. Cardinality(S)
  <2>1. /\ IsFiniteSet(UpToPlace(S, i)) /\ k \in Nat /\ k <= Cardinality(S)
    BY UpToPlaceFinite
  <2>2. i \in UpToPlace(S, i)
    BY <1>1 DEF UpToPlace
  <2>3. k # 0
    BY <2>1, <2>2, FS_EmptySet
  <2> HIDE DEF k
  <2> QED
    BY <1>1, <2>1, <2>3
<1>3. ASSUME NEW a \in S, NEW b \in S, a < b
      PROVE  Cardinality(UpToPlace(S, a)) # Cardinality(UpToPlace(S, b))
  <2>1. (\A j \in S : j <= a => j <= b) /\ b <= b /\ ~ (b <= a)
    BY <1>3
  <2>2. UpToPlace(S, a) \in SUBSET UpToPlace(S, b) /\ b \in UpToPlace(S, b) /\ b \notin UpToPlace(S, a)
    BY <2>1, Zenon DEF UpToPlace
  <2> QED
    BY <2>2, UpToPlaceFinite, FS_Subset
<1>4. Nth(S, k) \in S /\ Cardinality(UpToPlace(S, Nth(S, k))) = k
  BY <1>2, NthMember
<1>5. ~ (i < Nth(S, k)) /\ ~ (Nth(S, k) < i)
  BY <1>3, <1>4
<1>6. Nth(S, k) = i
  <2>1. Nth(S, k) \in Nat /\ i \in Nat
    BY <1>1, <1>4, Zenon
  <2> HIDE DEF k
  <2> QED
    BY <1>5, <2>1
<1> QED
  BY <1>2, <1>6

\* Members that keep their order, with none that is new before one of them, keep
\* their numbers.
LEMMA NthMoves ==
    ASSUME NEW n \in Nat, NEW S \in SUBSET (1 .. n),
           NEW m \in Nat, NEW T \in SUBSET (1 .. m), NEW f \in [S -> T],
           \A i, j \in S : i < j => f[i] < f[j],
           \A i \in S, t \in T : t <= f[i] => \E j \in S : f[j] = t
    PROVE  /\ Cardinality(S) <= Cardinality(T)
           /\ \A k \in 1 .. Cardinality(S) : Nth(S, k) \in S /\ Nth(T, k) = f[Nth(S, k)]
<1>1. /\ Cardinality(S) \in Nat /\ Cardinality(T) \in Nat
      /\ \A i \in S : i \in Nat
      /\ \A t \in T : t \in Nat
  BY PlacesFinite
<1>2. ASSUME NEW i \in S
      PROVE  Cardinality(UpToPlace(T, f[i])) = Cardinality(UpToPlace(S, i))
  <2> DEFINE g == [j \in UpToPlace(S, i) |-> f[j]]
  <2>1. ASSUME NEW j \in UpToPlace(S, i)
        PROVE  j \in S /\ f[j] \in UpToPlace(T, f[i])
    <3>1. j \in S /\ j <= i
      BY DEF UpToPlace
    <3>2. f[j] \in T /\ f[j] \in Nat /\ f[i] \in Nat
      BY <1>1, <3>1
    <3>3. j < i \/ j = i
      <4>1. j \in Nat /\ i \in Nat
        BY <1>1, <3>1, Zenon
      <4> QED
        BY <3>1, <4>1
    <3>4. f[j] <= f[i]
      <4>1. f[j] < f[i] \/ f[j] = f[i]
        BY <3>1, <3>3, Zenon
      <4> QED
        BY <3>2, <4>1
    <3> QED
      BY <3>1, <3>2, <3>4 DEF UpToPlace
  <2>2. \A j, k \in UpToPlace(S, i) : f[j] = f[k] => j = k
    <3> SUFFICES ASSUME NEW j \in UpToPlace(S, i), NEW k \in UpToPlace(S, i), f[j] = f[k], j # k
                 PROVE  FALSE
      OBVIOUS
    <3>1. j \in S /\ k \in S /\ f[j] \in Nat /\ f[k] \in Nat
      BY <1>1, <2>1
    <3>2. j < k \/ k < j
      BY <1>1, <3>1
    <3>3. f[j] < f[k] \/ f[k] < f[j]
      BY <3>1, <3>2
    <3> QED
      BY <3>1, <3>3
  <2>3. ASSUME NEW t \in UpToPlace(T, f[i])
        PROVE  \E j \in UpToPlace(S, i) : f[j] = t
    <3>1. t \in T /\ t <= f[i]
      BY DEF UpToPlace
    <3>2. PICK j \in S : f[j] = t
      BY <3>1
    <3>3. ~ (i < j)
      <4>1. f[i] \in Nat /\ t \in Nat
        BY <1>1, <3>1
      <4> QED
        BY <3>1, <3>2, <4>1
    <3>4. j <= i
      BY <1>1, <3>3
    <3> QED
      BY <3>2, <3>4 DEF UpToPlace
  <2>4. g \in Bijection(UpToPlace(S, i), UpToPlace(T, f[i]))
    <3>1. g \in [UpToPlace(S, i) -> UpToPlace(T, f[i])] /\ \A j \in UpToPlace(S, i) : g[j] = f[j]
      BY <2>1
    <3> HIDE DEF g
    <3>2. g \in Injection(UpToPlace(S, i), UpToPlace(T, f[i]))
      BY <2>2, <3>1 DEF Injection, IsInjective
    <3>3. g \in Surjection(UpToPlace(S, i), UpToPlace(T, f[i]))
      BY <2>3, <3>1 DEF Surjection
    <3> QED
      BY <3>2, <3>3 DEF Bijection
  <2>5. IsFiniteSet(UpToPlace(S, i)) /\ ExistsBijection(UpToPlace(S, i), UpToPlace(T, f[i]))
    BY <2>4, UpToPlaceFinite DEF ExistsBijection
  <2> QED
    BY <2>5, FS_Bijection
<1>3. ASSUME NEW k \in 1 .. Cardinality(S)
      PROVE  Nth(S, k) \in S /\ k <= Cardinality(T) /\ Nth(T, k) = f[Nth(S, k)]
  <2> DEFINE i == Nth(S, k)
  <2>1. i \in S /\ Cardinality(UpToPlace(S, i)) = k
    BY NthMember
  <2> HIDE DEF i
  <2>2. f[i] \in T /\ Cardinality(UpToPlace(T, f[i])) = k
    BY <1>2, <2>1
  <2>3. k \in 1 .. Cardinality(T) /\ Nth(T, k) = f[i]
    BY <2>2, NthUnique
  <2> QED
    BY <1>1, <2>1, <2>3 DEF i
<1>4. Cardinality(S) <= Cardinality(T)
  <2>1. CASE Cardinality(S) = 0
    BY <1>1, <2>1
  <2>2. CASE Cardinality(S) # 0
    <3>1. Cardinality(S) \in 1 .. Cardinality(S)
      BY <1>1, <2>2
    <3> QED
      BY <1>3, <3>1
  <2> QED
    BY <2>1, <2>2
<1> QED
  BY <1>3, <1>4
=============================================================================
