---------------------------- MODULE LedgerProofs ----------------------------
(***************************************************************************)
(* Numbers, parts of lists and orders, and what the Ledger makes of a      *)
(* batch of any length: the facts that the proofs about the server and     *)
(* about the phone's outbox share.                                         *)
(***************************************************************************)
EXTENDS Ledger, Sublists, FiniteSetTheorems, SequenceTheorems, WellFoundedInduction, TLAPS

-----------------------------------------------------------------------------
(* Numbers *)

\* Numbers have a least one among any of them.
LEMMA LeastNat ==
    ASSUME NEW S \in SUBSET Nat, S # {}
    PROVE  \E n \in S : \A m \in S : n <= m
<1> DEFINE R == OpToRel(<, Nat)
<1>1. IsWellFoundedOn(R, Nat)
  BY NatLessThanWellFounded
<1>2. \A m, n \in Nat : m < n => <<m, n>> \in R
  BY Zenon DEF OpToRel
<1> HIDE DEF R
<1>3. PICK n \in S : \A m \in S : ~(<<m, n>> \in R)
  BY <1>1, WFMin
<1>4. \A m \in S : ~(m < n)
  BY <1>2, <1>3, Zenon
<1>5. QED BY <1>4

\* Induction: what holds of 0, and of a number's successor with it, holds of every number.
LEMMA EveryNat ==
    ASSUME NEW S, 0 \in S, \A n \in Nat : n \in S => n + 1 \in S
    PROVE  Nat \subseteq S
<1> SUFFICES ASSUME Nat \ S # {} PROVE FALSE
  OBVIOUS
<1>1. PICK n \in Nat \ S : \A m \in Nat \ S : n <= m
  BY LeastNat
<1>2. n - 1 \in Nat /\ n - 1 \in S
  BY <1>1
<1>3. QED BY <1>1, <1>2

\* There are n numbers up to n.
LEMMA UpTo ==
    ASSUME NEW n \in Nat
    PROVE  IsFiniteSet(1..n) /\ Cardinality(1..n) = n
BY FS_Interval

\* The last of finitely many numbers.
LEMMA LastOfUpTo ==
    ASSUME NEW n \in Nat, NEW s, s \subseteq 1..n, s # {}
    PROVE  Max(s) \in s
<1> DEFINE bounds == {m \in Nat : \A k \in s : k <= m}
<1>1. n \in bounds
  OBVIOUS
<1>2. PICK m \in bounds : \A b \in bounds : m <= b
  BY <1>1, LeastNat
<1>3. m \in s
  <2> SUFFICES ASSUME m \notin s PROVE FALSE
    OBVIOUS
  <2>1. m \in Nat /\ \A k \in s : k <= m /\ k \in Nat /\ k # m /\ k > 0
    BY <1>2
  <2>2. m > 0 /\ m - 1 \in Nat /\ \A k \in s : k <= m - 1
    <3>1. PICK j : j \in s
      OBVIOUS
    <3>2. j \in Nat /\ j > 0 /\ j <= m
      BY <2>1, <3>1
    <3>3. \A k \in s : k <= m - 1
      BY <2>1
    <3>4. QED BY <2>1, <3>2, <3>3
  <2>3. m - 1 \in bounds
    BY <2>2
  <2>4. QED BY <1>2, <2>1, <2>2, <2>3
<1>4. \A k \in s : m >= k
  BY <1>2
<1>5. \E k \in s : \A j \in s : k >= j
  BY <1>3, <1>4
<1>6. QED BY <1>5 DEF Max

-----------------------------------------------------------------------------
(* Parts of a list *)

\* The rank of a position is one of 1..Cardinality, and the list of a part has at each
\* rank the member of that position.
LEMMA RankInRange ==
    ASSUME NEW positions \in SUBSET Int, IsFiniteSet(positions), NEW i \in positions
    PROVE  Rank(positions, i) \in 1..Cardinality(positions)
<1> DEFINE upTo == {j \in positions : j <= i}
<1>1. upTo \subseteq positions /\ i \in upTo
  OBVIOUS
<1>2. IsFiniteSet(upTo) /\ Cardinality(upTo) <= Cardinality(positions)
  BY <1>1, FS_Subset
<1>3. Cardinality(upTo) # 0
  BY <1>1, <1>2, FS_EmptySet
<1>4. Cardinality(upTo) \in Nat /\ Cardinality(positions) \in Nat
  BY <1>2, FS_CardinalityType
<1>5. QED BY <1>2, <1>3, <1>4 DEF Rank

\* A later position has a higher rank.
LEMMA RankGrows ==
    ASSUME NEW positions \in SUBSET Int, IsFiniteSet(positions),
           NEW i \in positions, NEW j \in positions, i < j
    PROVE  Rank(positions, i) < Rank(positions, j)
<1> DEFINE upToI == {k \in positions : k <= i}
           upToJ == {k \in positions : k <= j}
<1>1. IsFiniteSet(upToJ)
  BY FS_Subset
<1>2. upToI \subseteq upToJ /\ j \in upToJ /\ j \notin upToI
  <2>1. i \in Int /\ j \in Int /\ positions \subseteq Int
    OBVIOUS
  <2>2. \A k \in Int : k <= i => k <= j
    BY <2>1
  <2>3. \A k \in positions : k <= i => k <= j
    BY <2>1, <2>2
  <2>4. upToI \subseteq upToJ
    BY <2>3
  <2>5. j <= j /\ ~(j <= i)
    BY <2>1
  <2>6. QED BY <2>4, <2>5
<1>3. IsFiniteSet(upToI) /\ Cardinality(upToI) <= Cardinality(upToJ)
  BY <1>1, <1>2, FS_Subset
<1>4. Cardinality(upToI) # Cardinality(upToJ)
  BY <1>1, <1>2, FS_Subset
<1>5. Cardinality(upToI) \in Nat /\ Cardinality(upToJ) \in Nat
  BY <1>1, <1>3, FS_CardinalityType
<1>6. QED BY <1>3, <1>4, <1>5 DEF Rank

\* More positions give each of the old ones a rank that is at least as high.
LEMMA RankOfMore ==
    ASSUME NEW more \in SUBSET Int, IsFiniteSet(more), NEW positions \in SUBSET more,
           NEW i \in positions
    PROVE  Rank(positions, i) <= Rank(more, i)
<1>1. {j \in positions : j <= i} \subseteq {j \in more : j <= i}
  OBVIOUS
<1>2. IsFiniteSet({j \in more : j <= i})
  BY FS_Subset
<1>3. QED BY <1>1, <1>2, FS_Subset DEF Rank

\* Every rank up to the number of positions is one of them.
LEMMA RanksAreAll ==
    ASSUME NEW positions \in SUBSET Int, IsFiniteSet(positions),
           NEW n \in 1..Cardinality(positions)
    PROVE  \E i \in positions : Rank(positions, i) = n
<1> DEFINE rank == [i \in positions |-> Rank(positions, i)]
           size == Cardinality(positions)
<1>1. size \in Nat
  BY FS_CardinalityType
<1>2. IsFiniteSet(1..size) /\ Cardinality(1..size) = size
  BY <1>1, FS_Interval
<1>3. rank \in [positions -> 1..size]
  BY RankInRange
<1>4. \A i, j \in positions : rank[i] = rank[j] => i = j
  <2> SUFFICES ASSUME NEW i \in positions, NEW j \in positions, Rank(positions, i) = Rank(positions, j)
               PROVE  i = j
    OBVIOUS
  <2>1. ~(i < j) /\ ~(j < i)
    BY RankGrows, RankInRange, <1>1
  <2>2. QED BY <2>1
<1>5. rank \in Injection(positions, 1..size)
  BY <1>3, <1>4 DEF Injection, IsInjective
<1>6. rank \in Surjection(positions, 1..size)
  BY <1>2, <1>5, FS_Injection
<1>7. QED BY <1>6 DEF Surjection

\* What a part of a list has at the rank of one of its positions.
LEMMA AtRank ==
    ASSUME NEW list, NEW positions \in SUBSET Int, IsFiniteSet(positions), NEW i \in positions
    PROVE  /\ InOrder(list, positions) \in [1..Cardinality(positions) -> {list[j] : j \in positions}]
           /\ Rank(positions, i) \in DOMAIN InOrder(list, positions)
           /\ InOrder(list, positions)[Rank(positions, i)] = list[i]
<1>1. ASSUME NEW j \in positions, Rank(positions, j) = Rank(positions, i)
      PROVE  j = i
  <2>1. ~(i < j) /\ ~(j < i)
    BY <1>1, RankGrows, RankInRange
  <2>2. QED BY <2>1
<1>2. Rank(positions, i) \in 1..Cardinality(positions)
  BY RankInRange
<1>3. (CHOOSE j \in positions : Rank(positions, j) = Rank(positions, i)) = i
  BY <1>1
<1>4. InOrder(list, positions)[Rank(positions, i)] = list[i]
  BY <1>2, <1>3 DEF InOrder
<1>5. \A n \in 1..Cardinality(positions) :
           (CHOOSE j \in positions : Rank(positions, j) = n) \in positions
  <2> SUFFICES ASSUME NEW n \in 1..Cardinality(positions)
               PROVE  (CHOOSE j \in positions : Rank(positions, j) = n) \in positions
    OBVIOUS
  <2>1. \E j \in positions : Rank(positions, j) = n
    BY RanksAreAll
  <2>2. QED BY <2>1
<1>6. InOrder(list, positions) \in [1..Cardinality(positions) -> {list[j] : j \in positions}]
  BY <1>5 DEF InOrder
<1>7. DOMAIN InOrder(list, positions) = 1..Cardinality(positions)
  BY DEF InOrder
<1>8. QED BY <1>2, <1>4, <1>6, <1>7

-----------------------------------------------------------------------------
(* A batch, item by item *)

\* What a batch leaves is what its items leave one after the other.
LEMMA IngestByItem ==
    ASSUME NEW table, NEW site, NEW items, NEW n \in Nat, DOMAIN items = 1..n
    PROVE  \E after :
              /\ after[0] = [table |-> table, answers |-> <<>>]
              /\ \A k \in 1..n : after[k] = Apply(site, after[k - 1], items[k])
              /\ Ingest(table, site, items) = after[n]
<1> DEFINE base == [table |-> table, answers |-> <<>>]
           Body(g, s) == IF s = {} THEN base ELSE Apply(site, g[s \ {Max(s)}], items[Max(s)])
           Upto(m) == {s \in SUBSET (1..n) : Cardinality(s) <= m}
           S == {m \in Nat : \E g : g = [s \in Upto(m) |-> Body(g, s)]}
<1>1. \A s \in SUBSET (1..n) : IsFiniteSet(s) /\ Cardinality(s) \in 0..n
  <2>1. IsFiniteSet(1..n) /\ Cardinality(1..n) = n
    BY FS_Interval
  <2> SUFFICES ASSUME NEW s \in SUBSET (1..n) PROVE IsFiniteSet(s) /\ Cardinality(s) \in 0..n
    OBVIOUS
  <2> HIDE DEF S, Upto, Body, base
  <2>2. IsFiniteSet(s) /\ Cardinality(s) <= Cardinality(1..n)
    BY <2>1, FS_Subset
  <2>3. QED BY <2>1, <2>2, FS_CardinalityType
<1>2. ASSUME NEW s \in SUBSET (1..n), s # {}
      PROVE  /\ Max(s) \in s
             /\ s \ {Max(s)} \in SUBSET (1..n)
             /\ Cardinality(s \ {Max(s)}) = Cardinality(s) - 1
  <2>1. Max(s) \in s
    BY <1>2, LastOfUpTo
  <2>2. QED BY <1>1, <2>1, FS_RemoveElement
<1>3. 0 \in S
  <2> DEFINE g == [s \in Upto(0) |-> base]
  <2>1. \A s \in Upto(0) : s = {}
    BY <1>1, FS_EmptySet
  <2>2. g = [s \in Upto(0) |-> Body(g, s)]
    BY <2>1
  <2> HIDE DEF g, Body
  <2>3. QED BY <2>2
<1>4. ASSUME NEW m \in Nat, m \in S PROVE m + 1 \in S
  <2>1. PICK g : g = [s \in Upto(m) |-> Body(g, s)]
    BY <1>4
  <2> DEFINE more == [s \in Upto(m + 1) |-> IF s \in Upto(m) THEN g[s] ELSE Body(g, s)]
  <2>2. ASSUME NEW s \in Upto(m + 1) PROVE more[s] = Body(more, s)
    <3>1. CASE s = {}
      <4>1. s \in Upto(m)
        BY <3>1, FS_EmptySet
      <4>2. g[s] = base
        BY <2>1, <3>1, <4>1
      <4>3. QED BY <3>1, <4>1, <4>2
    <3>2. CASE s # {}
      <4>1. s \ {Max(s)} \in Upto(m)
        <5>1. s \in SUBSET (1..n) /\ Cardinality(s) <= m + 1 /\ Cardinality(s) \in Nat
          BY <1>1
        <5>2. Cardinality(s \ {Max(s)}) <= m
          BY <1>2, <3>2, <5>1
        <5>3. QED BY <1>2, <3>2, <5>1, <5>2
      <4>2. s \ {Max(s)} \in Upto(m + 1)
        BY <4>1, <1>1
      <4>3. more[s \ {Max(s)}] = g[s \ {Max(s)}]
        BY <4>1, <4>2
      <4>4. Body(more, s) = Body(g, s)
        BY <4>3
      <4>5. more[s] = Body(g, s)
        <5>1. CASE s \in Upto(m)
          <6>1. g[s] = Body(g, s)
            BY <2>1, <5>1
          <6>2. QED BY <6>1, <5>1
        <5>2. CASE s \notin Upto(m)
          BY <5>2
        <5>3. QED BY <5>1, <5>2
      <4>6. QED BY <4>4, <4>5
    <3>3. QED BY <3>1, <3>2
  <2>3. more = [s \in Upto(m + 1) |-> more[s]]
    OBVIOUS
  <2> HIDE DEF more, Body, Upto
  <2>4. more = [s \in Upto(m + 1) |-> Body(more, s)]
    BY <2>2, <2>3
  <2>5. QED BY <2>4
<1>5. n \in S
  <2> HIDE DEF S
  <2>1. QED BY <1>3, <1>4, EveryNat
<1>6. Upto(n) = SUBSET (1..n)
  BY <1>1
<1>7. \E g : g = [s \in SUBSET (1..n) |-> Body(g, s)]
  BY <1>5, <1>6
<1> DEFINE iter == CHOOSE g : g = [s \in SUBSET (1..n) |-> Body(g, s)]
<1>8. iter = [s \in SUBSET (1..n) |-> Body(iter, s)]
  <2> HIDE DEF Body
  <2>1. QED BY <1>7
<1>9. Ingest(table, site, items) = iter[1..n]
  BY DEF Ingest, FoldLeft, MapThenFoldSet
<1> HIDE DEF iter
<1> DEFINE after == [k \in 0..n |-> iter[1..k]]
<1>10. after[0] = base
  BY <1>8
<1>11. ASSUME NEW k \in 1..n PROVE after[k] = Apply(site, after[k - 1], items[k])
  <2>1. 1..k \in SUBSET (1..n) /\ 1..k # {} /\ (1..k) \ {k} = 1..(k - 1)
    OBVIOUS
  <2>2. Max(1..k) = k
    <3>1. \A m \in 1..k : (\A j \in 1..k : m >= j) => m = k
      OBVIOUS
    <3>2. k \in 1..k /\ \A j \in 1..k : k >= j
      OBVIOUS
    <3>3. QED BY <3>1, <3>2 DEF Max
  <2>3. iter[1..k] = Apply(site, iter[1..(k - 1)], items[k])
    BY <1>8, <2>1, <2>2
  <2>4. QED BY <2>3
<1>12. after[n] = iter[1..n]
  OBVIOUS
<1> HIDE DEF after
<1>13. QED BY <1>9, <1>10, <1>11, <1>12
=============================================================================
