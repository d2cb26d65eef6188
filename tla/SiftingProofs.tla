------------------------------- MODULE SiftingProofs -------------------------------
(***************************************************************************)
(* What Sift gives of a sequence of any kind and any set of its places.    *)
(* The k-th place of a finite set of numbers is the one with rank k.       *)
(***************************************************************************)
EXTENDS Sifting, FiniteSetTheorems, WellFoundedInduction, TLAPS

-----------------------------------------------------------------------------
(* Numbers *)

\* A set of natural numbers has a least element.
LEMMA NatMin ==
  ASSUME NEW T \in SUBSET Nat, T # {}
  PROVE  \E x \in T : \A y \in T : x <= y
<1> DEFINE R == OpToRel(<, Nat)
<1>1. R = {ss \in Nat \X Nat : ss[1] < ss[2]}
  BY DEF OpToRel
<1>2. IsWellFoundedOn(R, Nat)
  BY NatLessThanWellFounded
<1> HIDE DEF R
<1>3. PICK x \in T : \A y \in T : ~ (<<y, x>> \in R)
  BY <1>2, WFMin
<1>4. ASSUME NEW y \in T PROVE x <= y
  <2>1. x \in Nat /\ y \in Nat
    OBVIOUS
  <2>2. y < x => <<y, x>> \in R
    BY <1>1, <2>1
  <2> QED BY <1>3, <2>1, <2>2
<1> QED BY <1>4

\* A set of places in a sequence has a last one.
LEMMA PlacesMax ==
  ASSUME NEW n \in Nat, NEW S \in SUBSET (1..n), S # {}
  PROVE  \E x \in S : \A y \in S : y <= x
<1> DEFINE T == {n - i : i \in S}
<1>1. T \in SUBSET Nat /\ T # {}
  <2>1. \A i \in S : n - i \in Nat
    OBVIOUS
  <2> QED BY <2>1
<1>2. PICK x \in T : \A y \in T : x <= y
  BY <1>1, NatMin
<1>3. PICK i \in S : x = n - i
  OBVIOUS
<1>4. ASSUME NEW y \in S PROVE y <= i
  <2>1. n - y \in T
    OBVIOUS
  <2> QED BY <2>1, <1>2, <1>3
<1> QED BY <1>4

\* The place of j among the elements of S.
Rank(S, j) == Cardinality({i \in S : i <= j})

\* Ranks increase with the elements.
LEMMA RankIncreases ==
  ASSUME NEW S \in SUBSET Nat, IsFiniteSet(S), NEW i \in S, NEW j \in S
  PROVE  /\ Rank(S, i) \in 1..Cardinality(S)
         /\ i < j => Rank(S, i) < Rank(S, j)
<1> DEFINE upto(k) == {m \in S : m <= k}
<1>1. /\ IsFiniteSet(upto(i)) /\ IsFiniteSet(upto(j))
      /\ Cardinality(upto(i)) \in Nat /\ Cardinality(upto(j)) \in Nat
      /\ Cardinality(S) \in Nat
      /\ Cardinality(upto(i)) <= Cardinality(S)
  BY FS_Subset, FS_CardinalityType
<1>2. upto(i) # {}
  OBVIOUS
<1>3. Cardinality(upto(i)) # 0
  BY <1>1, <1>2, FS_EmptySet
<1>4. ASSUME i < j PROVE Cardinality(upto(i)) < Cardinality(upto(j))
  <2>1. upto(i) \in SUBSET upto(j) /\ j \in upto(j) /\ j \notin upto(i)
    <3>1. i \in Nat /\ j \in Nat /\ \A m \in S : m \in Nat
      OBVIOUS
    <3>2. \A m \in S : m <= i => m <= j
      BY <3>1, <1>4
    <3>3. ~ (j <= i) /\ j <= j
      BY <3>1, <1>4
    <3> QED BY <3>2, <3>3
  <2>2. Cardinality(upto(i)) <= Cardinality(upto(j))
    BY <2>1, <1>1, FS_Subset
  <2>3. Cardinality(upto(i)) # Cardinality(upto(j))
    BY <2>1, <1>1, FS_Subset
  <2> QED BY <2>2, <2>3, <1>1
<1> QED BY <1>1, <1>3, <1>4 DEF Rank

\* Every rank is the rank of an element.
LEMMA RankOnto ==
  ASSUME NEW S \in SUBSET Nat, IsFiniteSet(S), NEW k \in 1..Cardinality(S)
  PROVE  \E j \in S : Rank(S, j) = k
<1> DEFINE n == Cardinality(S)
           f == [j \in S |-> Rank(S, j)]
<1>1. n \in Nat
  BY FS_CardinalityType
<1>2. f \in [S -> 1..n]
  BY RankIncreases
<1>3. ASSUME NEW i \in S, NEW j \in S, f[i] = f[j] PROVE i = j
  <2>1. /\ Rank(S, i) \in 1..n /\ Rank(S, j) \in 1..n
        /\ i < j => Rank(S, i) < Rank(S, j)
        /\ j < i => Rank(S, j) < Rank(S, i)
    BY RankIncreases
  <2> QED BY <2>1, <1>1, <1>3
<1>4. f \in Injection(S, 1..n)
  BY <1>2, <1>3 DEF Injection, IsInjective
<1>5. IsFiniteSet(1..n) /\ Cardinality(1..n) = n
  BY <1>1, FS_Interval
<1>6. f \in Surjection(S, 1..n)
  BY <1>4, <1>5, FS_Injection
<1> QED BY <1>6 DEF Surjection

-----------------------------------------------------------------------------
(* Sifting *)

\* A sifted sequence has the elements of the places it keeps, in their order.
LEMMA SiftIs ==
  ASSUME NEW T, NEW q \in Seq(T), NEW S \in SUBSET (DOMAIN q)
  PROVE  /\ Sift(q, S) \in Seq(T)
         /\ Len(Sift(q, S)) <= Len(q)
         /\ \E place \in [DOMAIN Sift(q, S) -> S] :
              /\ \A k \in DOMAIN Sift(q, S) : Sift(q, S)[k] = q[place[k]]
              /\ \A k, l \in DOMAIN Sift(q, S) : k < l => place[k] < place[l]
              /\ \A j \in S : \E k \in DOMAIN Sift(q, S) : place[k] = j
<1> DEFINE n == Cardinality(S)
           chosen(k) == CHOOSE j \in S : Cardinality({i \in S : i <= j}) = k
           place == [k \in 1..n |-> chosen(k)]
<1>1. /\ DOMAIN q = 1..Len(q) /\ Len(q) \in Nat
      /\ IsFiniteSet(S) /\ n \in Nat /\ n <= Len(q)
      /\ S \in SUBSET Nat
  <2>1. DOMAIN q = 1..Len(q) /\ Len(q) \in Nat
    OBVIOUS
  <2>2. S \in SUBSET (1..Len(q))
    BY <2>1
  <2>3. IsFiniteSet(1..Len(q)) /\ Cardinality(1..Len(q)) = Len(q)
    <3>1. \A m \in Nat : IsFiniteSet(1..m) /\ Cardinality(1..m) = m
      BY FS_Interval
    <3> QED BY <2>1, <3>1
  <2>4. IsFiniteSet(S) /\ n <= Len(q)
    BY <2>2, <2>3, FS_Subset
  <2>5. n \in Nat
    BY <2>4, FS_CardinalityType
  <2>6. S \in SUBSET Nat
    BY <2>2
  <2> HIDE DEF n
  <2> QED BY <2>1, <2>4, <2>5, <2>6
<1>2. ASSUME NEW k \in 1..n
      PROVE  chosen(k) \in S /\ Rank(S, chosen(k)) = k
  <2>1. \E j \in S : Cardinality({i \in S : i <= j}) = k
    BY <1>1, RankOnto DEF Rank
  <2> QED BY <2>1 DEF Rank
<1> HIDE DEF chosen
<1>3. place \in [1..n -> S] /\ \A k \in 1..n : q[place[k]] \in T
  BY <1>2
<1>4. Sift(q, S) = [k \in 1..n |-> q[place[k]]]
  BY DEF Sift, chosen
<1>5. /\ Sift(q, S) \in Seq(T) /\ Len(Sift(q, S)) = n
      /\ DOMAIN Sift(q, S) = 1..n
      /\ \A k \in 1..n : Sift(q, S)[k] = q[place[k]]
  BY <1>1, <1>3, <1>4
<1>6. ASSUME NEW k \in 1..n, NEW l \in 1..n, k < l PROVE place[k] < place[l]
  <2>1. /\ place[k] \in S /\ place[l] \in S
        /\ Rank(S, place[k]) = k /\ Rank(S, place[l]) = l
    BY <1>2
  <2>2. place[l] < place[k] => Rank(S, place[l]) < Rank(S, place[k])
    BY <1>1, <2>1, RankIncreases
  <2>3. place[k] \in Nat /\ place[l] \in Nat /\ k \in Nat /\ l \in Nat
    BY <1>1, <2>1
  <2>4. place[k] # place[l]
    BY <1>6, <2>1, <2>3
  <2> HIDE DEF place
  <2> QED BY <1>6, <2>1, <2>2, <2>3, <2>4
<1>7. ASSUME NEW j \in S PROVE \E k \in 1..n : place[k] = j
  <2>1. Rank(S, j) \in 1..n
    BY <1>1, RankIncreases
  <2> DEFINE i == place[Rank(S, j)]
  <2>2. i \in S /\ Rank(S, i) = Rank(S, j)
    BY <1>2, <2>1
  <2>3. /\ i < j => Rank(S, i) < Rank(S, j)
        /\ j < i => Rank(S, j) < Rank(S, i)
        /\ Rank(S, i) \in Nat /\ Rank(S, j) \in Nat
    BY <1>1, <2>1, <2>2, RankIncreases
  <2>4. i \in Nat /\ j \in Nat
    BY <1>1, <2>2
  <2>5. i = j
    <3> HIDE DEF i
    <3> QED BY <2>2, <2>3, <2>4
  <2> QED BY <2>1, <2>5
<1> HIDE DEF place, n
<1>8. place \in [DOMAIN Sift(q, S) -> S]
  BY <1>3, <1>5
<1>9. /\ \A k \in DOMAIN Sift(q, S) : Sift(q, S)[k] = q[place[k]]
      /\ \A k, l \in DOMAIN Sift(q, S) : k < l => place[k] < place[l]
      /\ \A j \in S : \E k \in DOMAIN Sift(q, S) : place[k] = j
  BY <1>5, <1>6, <1>7
<1>10. Len(Sift(q, S)) <= Len(q)
  BY <1>1, <1>5
<1> QED BY <1>5, <1>8, <1>9, <1>10

\* All places give the sequence.
LEMMA SiftAll ==
  ASSUME NEW T, NEW q \in Seq(T)
  PROVE  Sift(q, DOMAIN q) = q
<1> DEFINE n == Len(q)
<1>1. n \in Nat /\ DOMAIN q = 1..n /\ q = [k \in 1..n |-> q[k]]
  OBVIOUS
<1>2. \A m \in Nat : IsFiniteSet(1..m) /\ Cardinality(1..m) = m
  BY FS_Interval
<1>3. \A j \in 1..n : {i \in 1..n : i <= j} = 1..j
  BY <1>1
<1> HIDE DEF n
<1>4. \A j \in 1..n : Cardinality({i \in 1..n : i <= j}) = j
  <2> TAKE j \in 1..n
  <2>1. {i \in 1..n : i <= j} = 1..j
    BY <1>3
  <2>2. j \in Nat
    BY <1>1
  <2> QED BY <2>1, <2>2, <1>2
<1> DEFINE chosen(k) == CHOOSE j \in 1..n : Cardinality({i \in 1..n : i <= j}) = k
<1>5. \A k \in 1..n : chosen(k) = k
  BY <1>4
<1>6. Cardinality(1..n) = n
  BY <1>1, <1>2
<1> HIDE DEF chosen
<1>7. Sift(q, 1..n) = [k \in 1..n |-> q[chosen(k)]]
  BY <1>6 DEF Sift, chosen
<1>8. [k \in 1..n |-> q[chosen(k)]] = [k \in 1..n |-> q[k]]
  BY <1>5
<1> QED BY <1>1, <1>7, <1>8

\* What is sifted from a sequence without repetitions has none, and its elements are
\* those of the places.
LEMMA SiftSet ==
  ASSUME NEW T, NEW q \in Seq(T), NEW S \in SUBSET (DOMAIN q)
  PROVE  /\ {Sift(q, S)[k] : k \in DOMAIN Sift(q, S)} = {q[p] : p \in S}
         /\ (\A i, j \in DOMAIN q : q[i] = q[j] => i = j) =>
              \A k, l \in DOMAIN Sift(q, S) : Sift(q, S)[k] = Sift(q, S)[l] => k = l
<1> DEFINE d == Sift(q, S)
<1>1. d \in Seq(T)
  BY SiftIs
<1>2. PICK place \in [DOMAIN d -> S] :
         /\ \A k \in DOMAIN d : d[k] = q[place[k]]
         /\ \A k, l \in DOMAIN d : k < l => place[k] < place[l]
         /\ \A j \in S : \E k \in DOMAIN d : place[k] = j
  BY SiftIs
<1>3. DOMAIN d = 1..Len(d) /\ Len(d) \in Nat /\ DOMAIN q = 1..Len(q) /\ Len(q) \in Nat
  BY <1>1
<1> HIDE DEF d
<1>4. {d[k] : k \in DOMAIN d} = {q[p] : p \in S}
  BY <1>2
<1>5. ASSUME \A i, j \in DOMAIN q : q[i] = q[j] => i = j,
             NEW k \in DOMAIN d, NEW l \in DOMAIN d, d[k] = d[l]
      PROVE  k = l
  <2>1. place[k] = place[l] /\ place[k] \in Nat /\ place[l] \in Nat
    BY <1>2, <1>3, <1>5
  <2>2. ~ (k < l) /\ ~ (l < k)
    BY <1>2, <2>1
  <2> QED BY <2>2, <1>3
<1> QED BY <1>4, <1>5 DEF d
=============================================================================
