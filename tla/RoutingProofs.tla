---------------------------- MODULE RoutingProofs ----------------------------
(***************************************************************************)
(* The engine's rankings are permutations that put what is down last and   *)
(* what is better first, for any set of providers; and every decision of   *)
(* Routing is such a ranking of what its queries read, however the tables  *)
(* change between them.                                                    *)
(*                                                                         *)
(* The first part is about the operators of RoutingEngine alone, the last  *)
(* about the behaviours of Routing.                                        *)
(***************************************************************************)
EXTENDS Routing, FiniteSetTheorems, FunctionTheorems, TLAPS

-----------------------------------------------------------------------------
(* Keys. *)

\* What candidates are sorted by.
Keys == Int \X Int \X Int \X Int

\* The comparison of two keys, position by position.
LEMMA PrecedesCases ==
  ASSUME NEW k \in Keys, NEW l \in Keys
  PROVE  Precedes(k, l) <=>
           \/ k[1] < l[1]
           \/ k[1] = l[1] /\ k[2] < l[2]
           \/ k[1] = l[1] /\ k[2] = l[2] /\ k[3] < l[3]
           \/ k[1] = l[1] /\ k[2] = l[2] /\ k[3] = l[3] /\ k[4] < l[4]
<1>1. 1..4 = {1, 2, 3, 4}
  OBVIOUS
<1>2. /\ 1..(1 - 1) = {} /\ 1..(2 - 1) = {1}
      /\ 1..(3 - 1) = {1, 2} /\ 1..(4 - 1) = {1, 2, 3}
  OBVIOUS
<1>3. QED
  BY <1>1, <1>2 DEF Precedes, Keys

\* Keys that end differently are ordered one way, and one way only.
LEMMA PrecedesTotal ==
  ASSUME NEW k \in Keys, NEW l \in Keys
  PROVE  /\ ~ (Precedes(k, l) /\ Precedes(l, k))
         /\ ~ Precedes(k, k)
         /\ k[4] # l[4] => Precedes(k, l) \/ Precedes(l, k)
  BY PrecedesCases DEF Keys

\* The order of keys is transitive.
LEMMA PrecedesTransitive ==
  ASSUME NEW k \in Keys, NEW l \in Keys, NEW m \in Keys, Precedes(k, l), Precedes(l, m)
  PROVE  Precedes(k, m)
  BY PrecedesCases DEF Keys

\* The library's well-founded order of the naturals, as a relation.
LEMMA LessThanIsWellFounded ==
  \E R : IsWellFoundedOn(R, Nat) /\ \A i, j \in Nat : i < j => <<i, j>> \in R
<1>1. \A i, j \in Nat : i < j => <<i, j>> \in OpToRel(<, Nat)
  BY DEF OpToRel
<1>2. QED
  BY <1>1, NatLessThanWellFounded, Zenon

\* A set of naturals that is not empty has a least member.
LEMMA LeastExists ==
  ASSUME NEW T, T \subseteq Nat, T # {}
  PROVE  \E m \in T : \A t \in T : m <= t
<1>1. PICK R : IsWellFoundedOn(R, Nat) /\ \A i, j \in Nat : i < j => <<i, j>> \in R
  BY LessThanIsWellFounded
<1>2. \E m \in T : \A t \in T : ~ (<<t, m>> \in R)
  <2>1. IsWellFoundedOn(R, Nat)
    BY <1>1
  <2>2. T \subseteq Nat /\ T # {}
    OBVIOUS
  <2>3. QED
    BY ONLY <2>1, <2>2, WFMin, Zenon
<1>3. PICK m \in T : \A t \in T : ~ (<<t, m>> \in R)
  BY <1>2
<1>4. \A t \in T : ~ (t < m)
  BY <1>1, <1>3
<1>5. \A t \in T : m <= t
  BY <1>3, <1>4
<1>6. QED
  BY <1>3, <1>5

\* What precedes a key precedes everything that does not precede it.
LEMMA PrecedesWeakly ==
  ASSUME NEW k \in Keys, NEW l \in Keys, NEW m \in Keys, Precedes(k, l), ~ Precedes(m, l)
  PROVE  Precedes(k, m)
  BY PrecedesCases DEF Keys

\* The position of a candidate in a fallback chain is a number.
LEMMA ChainPositionType ==
  ASSUME NEW p \in Providers, NEW chain \in Seq(Providers)
  PROVE  ChainPosition(p, chain) \in Int
<1>1. CASE Contains(chain, p)
  <2> DEFINE I == {i \in 1..Len(chain) : chain[i] = p}
  <2>1. I # {} /\ I \subseteq Nat
    BY <1>1 DEF Contains
  <2>2. \E m \in I : \A i \in I : m <= i
    BY ONLY <2>1, LeastExists, Zenon
  <2>3. Min(I) \in I
    BY <2>2 DEF Min
  <2>4. SelectInSeq(chain, LAMBDA x : x = p) = Min(I)
    BY <2>1 DEF SelectInSeq
  <2>5. QED
    BY <1>1, <2>1, <2>3, <2>4 DEF ChainPosition
<1>2. CASE ~ Contains(chain, p)
  BY <1>2 DEF ChainPosition
<1>3. QED
  BY <1>1, <1>2

\* So is its index in the resolved order.
LEMMA ResolvedIndexType ==
  ASSUME NEW D \in SUBSET Providers, NEW p, NEW sh, NEW chain
  PROVE  ResolvedIndex(p, D, sh, chain) \in Nat
<1> DEFINE B == {d \in D : Precedes(ResolvedKey(d, sh[d], chain),
                                    ResolvedKey(p, sh[p], chain))}
<1>1. IsFiniteSet(D)
  BY EngineAssumption, FS_Subset
<1>2. IsFiniteSet(B)
  BY <1>1, FS_Subset
<1>3. QED
  BY <1>2, FS_CardinalityType DEF ResolvedIndex

\* A rotation key is a key and ends in the candidate's name, as every key does: the
\* modulus is never zero, for a candidate that is rotated is eligible itself.
LEMMA RotationKeyType ==
  ASSUME NEW C \in SUBSET Providers, NEW p \in C, NEW sh, NEW chain, NEW n \in Nat
  PROVE  /\ RotationKey(p, C, sh, chain, n) \in Keys
         /\ RotationKey(p, C, sh, chain, n)[4] = p
<1> DEFINE eligible == {c \in C : Eligible(sh[c])}
<1>1. IsFiniteSet(eligible) /\ eligible \in SUBSET Providers /\ C \ eligible \in SUBSET Providers
  BY EngineAssumption, FS_Subset
<1>2. p \in Nat
  BY EngineAssumption
<1>3. CASE p \in eligible
  <2>1. Cardinality(eligible) \in Nat \ {0}
    BY <1>1, <1>3, FS_CardinalityType, FS_EmptySet
  <2>2. ResolvedIndex(p, eligible, sh, chain) \in Nat
    BY <1>1, ResolvedIndexType
  <2>3. RotationKey(p, C, sh, chain, n) =
          <<0, (ResolvedIndex(p, eligible, sh, chain) - n) % Cardinality(eligible), 0, p>>
    BY <1>3 DEF RotationKey
  <2>4. (ResolvedIndex(p, eligible, sh, chain) - n) % Cardinality(eligible) \in Int
    BY <2>1, <2>2
  <2>5. QED
    BY <1>2, <2>3, <2>4 DEF Keys
<1>4. CASE p \notin eligible
  <2>1. RotationKey(p, C, sh, chain, n) =
          <<2, ResolvedIndex(p, C \ eligible, sh, chain), 0, p>>
    BY <1>4 DEF RotationKey
  <2>2. ResolvedIndex(p, C \ eligible, sh, chain) \in Nat
    BY <1>1, ResolvedIndexType
  <2>3. QED
    BY <1>2, <2>1, <2>2 DEF Keys
<1>5. QED
  BY <1>3, <1>4

\* Whatever the strategy, a candidate's key is a key and ends in its name.
LEMMA KeyType ==
  ASSUME NEW C \in SUBSET Providers, NEW p \in C, NEW strategy \in Strategies,
         NEW sh \in [Providers -> Score], NEW chain, NEW n \in Nat
  PROVE  /\ Key(p, C, strategy, sh, chain, n) \in Keys
         /\ Key(p, C, strategy, sh, chain, n)[4] = p
<1>1. p \in Nat /\ sh[p] \in Score
  BY EngineAssumption
<1>2. CASE strategy = "priority"
  BY <1>1, <1>2 DEF Key, PriorityKey, Keys, Score
<1>3. CASE strategy = "weighted"
  BY <1>1, <1>3 DEF Key, WeightKey, Keys, Score
<1>4. CASE strategy = "latency_aware"
  BY <1>1, <1>4 DEF Key, LatencyKey, Keys, Score
<1>5. CASE strategy = "cost_aware"
  BY <1>1, <1>5 DEF Key, CostKey, Keys, Score
<1>6. CASE strategy = "failover"
  BY <1>1, <1>6 DEF Key, HealthKey, HealthRank, HealthStatuses, Keys, Score
<1>7. CASE strategy = "round_robin"
  BY <1>7, RotationKeyType DEF Key
<1>8. QED
  BY <1>2, <1>3, <1>4, <1>5, <1>6, <1>7 DEF Strategies

\* Ahead is a strict total order of the candidates, whatever the strategy.
LEMMA AheadOrder ==
  ASSUME NEW C \in SUBSET Providers, NEW strategy \in Strategies,
         NEW sh \in [Providers -> Score], NEW chain, NEW n \in Nat
  PROVE  /\ \A p \in C : ~ Ahead(p, p, C, strategy, sh, chain, n)
         /\ \A p, q \in C : p # q => \/ Ahead(p, q, C, strategy, sh, chain, n)
                                     \/ Ahead(q, p, C, strategy, sh, chain, n)
         /\ \A p, q, r \in C :
              /\ Ahead(p, q, C, strategy, sh, chain, n)
              /\ Ahead(q, r, C, strategy, sh, chain, n)
              => Ahead(p, r, C, strategy, sh, chain, n)
<1> DEFINE K(p) == Key(p, C, strategy, sh, chain, n)
<1>1. \A p \in C : K(p) \in Keys /\ K(p)[4] = p
  BY KeyType
<1>2. \A p, q \in C : Ahead(p, q, C, strategy, sh, chain, n) <=>
        \/ Eligible(sh[p]) /\ ~ Eligible(sh[q])
        \/ (Eligible(sh[p]) <=> Eligible(sh[q])) /\ Precedes(K(p), K(q))
  BY DEF Ahead
<1> HIDE DEF K
<1>3. \A p \in C : ~ Precedes(K(p), K(p))
  BY <1>1, PrecedesTotal
<1>4. \A p, q \in C : p # q => Precedes(K(p), K(q)) \/ Precedes(K(q), K(p))
  BY <1>1, PrecedesTotal
<1>5. \A p, q, r \in C : Precedes(K(p), K(q)) /\ Precedes(K(q), K(r)) => Precedes(K(p), K(r))
  BY <1>1, PrecedesTransitive
<1>6. QED
  BY <1>2, <1>3, <1>4, <1>5, Zenon

-----------------------------------------------------------------------------
(* Places. *)

\* In a strict total order R of a finite set C, the number of members ahead of one
\* grows along the order and takes every value below the size of C.
Before(x, C, R) == {q \in C : <<q, x>> \in R}

\* One that is behind another has more members ahead of it.
LEMMA PlacesGrow ==
  ASSUME NEW C, IsFiniteSet(C), NEW R,
         \A p \in C : <<p, p>> \notin R,
         \A p, q, r \in C : <<p, q>> \in R /\ <<q, r>> \in R => <<p, r>> \in R,
         NEW p \in C, NEW q \in C, <<q, p>> \in R
  PROVE  Cardinality(Before(q, C, R)) < Cardinality(Before(p, C, R))
<1>1. /\ Before(q, C, R) \subseteq Before(p, C, R) /\ Before(p, C, R) \subseteq C
      /\ q \in Before(p, C, R) /\ q \notin Before(q, C, R)
  BY DEF Before
<1>2. IsFiniteSet(Before(p, C, R))
  BY <1>1, FS_Subset
<1>3. /\ IsFiniteSet(Before(q, C, R))
      /\ Cardinality(Before(q, C, R)) <= Cardinality(Before(p, C, R))
      /\ Cardinality(Before(q, C, R)) # Cardinality(Before(p, C, R))
  BY <1>1, <1>2, FS_Subset
<1>4. QED
  BY <1>2, <1>3, FS_CardinalityType

\* The numbers of members ahead are 0..n-1, each once.
LEMMA PlacesOnto ==
  ASSUME NEW C, IsFiniteSet(C), NEW R,
         \A p \in C : <<p, p>> \notin R,
         \A p, q \in C : p # q => <<p, q>> \in R \/ <<q, p>> \in R,
         \A p, q, r \in C : <<p, q>> \in R /\ <<q, r>> \in R => <<p, r>> \in R
  PROVE  /\ \A p \in C : Cardinality(Before(p, C, R)) \in 0..(Cardinality(C) - 1)
         /\ \A i \in 0..(Cardinality(C) - 1) : \E p \in C : Cardinality(Before(p, C, R)) = i
<1> DEFINE N == Cardinality(C)
           place == [p \in C |-> Cardinality(Before(p, C, R))]
<1>1. N \in Nat
  BY FS_CardinalityType
<1>2. \A p \in C : place[p] \in 0..(N - 1)
  <2> SUFFICES ASSUME NEW p \in C PROVE Cardinality(Before(p, C, R)) \in 0..(N - 1)
    OBVIOUS
  <2>1. Before(p, C, R) \subseteq C /\ p \notin Before(p, C, R)
    BY DEF Before
  <2>2. /\ IsFiniteSet(Before(p, C, R))
        /\ Cardinality(Before(p, C, R)) <= N /\ Cardinality(Before(p, C, R)) # N
    BY <2>1, FS_Subset
  <2>3. QED
    BY <1>1, <2>2, FS_CardinalityType
<1>3. \A p, q \in C : place[p] = place[q] => p = q
  <2> SUFFICES ASSUME NEW p \in C, NEW q \in C, p # q PROVE place[p] # place[q]
    OBVIOUS
  <2>1. <<p, q>> \in R \/ <<q, p>> \in R
    OBVIOUS
  <2>2. place[p] < place[q] \/ place[q] < place[p]
    BY <2>1, PlacesGrow
  <2>3. place[p] \in Int /\ place[q] \in Int
    BY <1>2
  <2> HIDE DEF place
  <2>4. QED
    BY <2>2, <2>3
<1>4. place \in [C -> 0..(N - 1)]
  BY <1>2
<1> HIDE DEF place, N
<1>5. place \in Injection(C, 0..(N - 1))
  BY <1>3, <1>4, Fun_IsInj
<1>6. IsFiniteSet(0..(N - 1)) /\ Cardinality(0..(N - 1)) = N
  BY <1>1, FS_Interval
<1>7. place \in Surjection(C, 0..(N - 1))
  BY <1>5, <1>6, FS_Injection DEF N
<1>8. \A i \in 0..(N - 1) : \E p \in C : place[p] = i
  BY <1>7 DEF Surjection
<1>9. QED
  BY <1>2, <1>8 DEF place, N

\* Ahead as a relation.
AheadOf(C, strategy, sh, chain, n) ==
  {pr \in C \X C : Ahead(pr[1], pr[2], C, strategy, sh, chain, n)}

\* Rank counts places in that relation.
LEMMA AheadOfOrder ==
  ASSUME NEW C \in SUBSET Providers, NEW strategy \in Strategies,
         NEW sh \in [Providers -> Score], NEW chain, NEW n \in Nat
  PROVE  LET R == AheadOf(C, strategy, sh, chain, n)
         IN /\ IsFiniteSet(C)
            /\ \A p \in C : <<p, p>> \notin R
            /\ \A p, q \in C : p # q => <<p, q>> \in R \/ <<q, p>> \in R
            /\ \A p, q, r \in C : <<p, q>> \in R /\ <<q, r>> \in R => <<p, r>> \in R
            /\ \A p, q \in C : Ahead(q, p, C, strategy, sh, chain, n) <=> <<q, p>> \in R
            /\ \A p \in C :
                 Rank(C, strategy, sh, chain, n)[p] = 1 + Cardinality(Before(p, C, R))
<1> DEFINE R == AheadOf(C, strategy, sh, chain, n)
<1>1. \A p, q \in C : Ahead(q, p, C, strategy, sh, chain, n) <=> <<q, p>> \in R
  BY DEF AheadOf
<1>2. \A p \in C : Before(p, C, R) = {q \in C : Ahead(q, p, C, strategy, sh, chain, n)}
  BY <1>1 DEF Before
<1>3. IsFiniteSet(C)
  BY EngineAssumption, FS_Subset
<1>4. \A p \in C : Rank(C, strategy, sh, chain, n)[p] = 1 + Cardinality(Before(p, C, R))
  BY <1>2 DEF Rank
<1>5. QED
  BY <1>1, <1>3, <1>4, AheadOrder

\* Who is ahead is tried before.
LEMMA RankOrder ==
  ASSUME NEW C \in SUBSET Providers, NEW strategy \in Strategies,
         NEW sh \in [Providers -> Score], NEW chain, NEW n \in Nat,
         NEW p \in C, NEW q \in C, Ahead(q, p, C, strategy, sh, chain, n)
  PROVE  Rank(C, strategy, sh, chain, n)[q] < Rank(C, strategy, sh, chain, n)[p]
<1> DEFINE R == AheadOf(C, strategy, sh, chain, n)
<1>1. /\ IsFiniteSet(C)
      /\ \A x \in C : <<x, x>> \notin R
      /\ \A x, y \in C : x # y => <<x, y>> \in R \/ <<y, x>> \in R
      /\ \A x, y, z \in C : <<x, y>> \in R /\ <<y, z>> \in R => <<x, z>> \in R
      /\ <<q, p>> \in R
      /\ Rank(C, strategy, sh, chain, n)[p] = 1 + Cardinality(Before(p, C, R))
      /\ Rank(C, strategy, sh, chain, n)[q] = 1 + Cardinality(Before(q, C, R))
  <2>1. /\ IsFiniteSet(C)
        /\ \A x \in C : <<x, x>> \notin R
        /\ \A x, y \in C : x # y => <<x, y>> \in R \/ <<y, x>> \in R
        /\ \A x, y, z \in C : <<x, y>> \in R /\ <<y, z>> \in R => <<x, z>> \in R
        /\ \A x, y \in C : Ahead(y, x, C, strategy, sh, chain, n) <=> <<y, x>> \in R
        /\ \A x \in C :
             Rank(C, strategy, sh, chain, n)[x] = 1 + Cardinality(Before(x, C, R))
    BY AheadOfOrder, ZenonT(60)
  <2> HIDE DEF R
  <2>2. QED
    BY <2>1
<1> HIDE DEF R
<1>2. Cardinality(Before(q, C, R)) < Cardinality(Before(p, C, R))
  BY <1>1, PlacesGrow
<1>3. \A x \in C : Cardinality(Before(x, C, R)) \in 0..(Cardinality(C) - 1)
  BY <1>1, PlacesOnto
<1>4. Cardinality(Before(q, C, R)) \in Int /\ Cardinality(Before(p, C, R)) \in Int
  BY <1>3
<1>5. QED
  BY <1>1, <1>2, <1>4

\* The places of a ranking are 1..n, each once.
LEMMA RankOnce ==
  ASSUME NEW C \in SUBSET Providers, NEW strategy \in Strategies,
         NEW sh \in [Providers -> Score], NEW chain, NEW n \in Nat
  PROVE  /\ Rank(C, strategy, sh, chain, n) \in [C -> 1..Cardinality(C)]
         /\ {Rank(C, strategy, sh, chain, n)[p] : p \in C} = 1..Cardinality(C)
<1> DEFINE R == AheadOf(C, strategy, sh, chain, n)
           K == Rank(C, strategy, sh, chain, n)
           N == Cardinality(C)
<1>1. /\ IsFiniteSet(C)
      /\ \A x \in C : <<x, x>> \notin R
      /\ \A x, y \in C : x # y => <<x, y>> \in R \/ <<y, x>> \in R
      /\ \A x, y, z \in C : <<x, y>> \in R /\ <<y, z>> \in R => <<x, z>> \in R
      /\ \A x \in C : K[x] = 1 + Cardinality(Before(x, C, R))
  BY AheadOfOrder
<1>2. K = [x \in C |-> K[x]] /\ N \in Nat
  BY <1>1, FS_CardinalityType DEF Rank
<1> HIDE DEF R, K
<1>3. /\ \A x \in C : Cardinality(Before(x, C, R)) \in 0..(N - 1)
      /\ \A i \in 0..(N - 1) : \E x \in C : Cardinality(Before(x, C, R)) = i
  BY <1>1, PlacesOnto
<1> HIDE DEF N
<1>4. \A x \in C : K[x] \in 1..N
  BY <1>1, <1>2, <1>3
<1>5. \A i \in 1..N : \E x \in C : K[x] = i
  <2> SUFFICES ASSUME NEW i \in 1..N PROVE \E x \in C : K[x] = i
    OBVIOUS
  <2>1. i - 1 \in 0..(N - 1)
    BY <1>2
  <2>2. PICK x \in C : Cardinality(Before(x, C, R)) = i - 1
    BY <1>3, <2>1
  <2>3. QED
    BY <1>1, <2>2
<1>6. K \in [C -> 1..N] /\ {K[p] : p \in C} = 1..N
  BY <1>2, <1>4, <1>5
<1>7. QED
  BY <1>6 DEF K, N

\* Without rotation, a candidate that is no worse than another in any respect and
\* first by name is ahead of it.
LEMMA FitterIsAhead ==
  ASSUME NEW C \in SUBSET Providers, NEW strategy \in Strategies \ {"round_robin"},
         NEW sh \in [Providers -> Score], NEW chain, NEW n \in Nat,
         NEW p \in C, NEW q \in C, p < q, NoWorse(sh[p], sh[q])
  PROVE  Ahead(p, q, C, strategy, sh, chain, n)
<1>1. p \in Nat /\ q \in Nat /\ sh[p] \in Score /\ sh[q] \in Score
  BY EngineAssumption
<1>2. Eligible(sh[q]) => Eligible(sh[p])
  BY <1>1 DEF NoWorse, Eligible, HealthRank, Score, HealthStatuses
<1>3. CASE ~ (Eligible(sh[q]) <=> Eligible(sh[p]))
  BY <1>2, <1>3 DEF Ahead
<1>4. CASE Eligible(sh[q]) <=> Eligible(sh[p])
  <2> DEFINE K(x) == Key(x, C, strategy, sh, chain, n)
  <2>1. K(p) \in Keys /\ K(q) \in Keys
    BY KeyType
  <2> SUFFICES Precedes(K(p), K(q))
    BY <1>4 DEF Ahead
  <2>2. CASE strategy = "priority"
    BY <1>1, <1>4, <2>1, <2>2, PrecedesCases DEF Key, PriorityKey, Score, NoWorse
  <2>3. CASE strategy = "weighted"
    BY <1>1, <1>4, <2>1, <2>3, PrecedesCases DEF Key, WeightKey, Score, NoWorse
  <2>4. CASE strategy = "latency_aware"
    BY <1>1, <1>4, <2>1, <2>4, PrecedesCases DEF Key, LatencyKey, Score, NoWorse
  <2>5. CASE strategy = "cost_aware"
    <3>1. K(p) = CostKey(p, sh[p]) /\ K(q) = CostKey(q, sh[q])
      BY <2>5 DEF Key
    <3>2. /\ sh[q].price = -1 \/ (sh[p].price # -1 /\ sh[p].price <= sh[q].price)
          /\ sh[p].price \in Int /\ sh[q].price \in Int
          /\ sh[p].priority \in Nat /\ sh[q].priority \in Nat
          /\ sh[p].priority <= sh[q].priority
      BY <1>1 DEF Score, NoWorse
    <3>3. CASE ~ Eligible(sh[p])
      BY <1>1, <1>4, <2>1, <3>1, <3>3, PrecedesCases DEF CostKey
    <3>4. CASE Eligible(sh[p]) /\ sh[q].price = -1 /\ sh[p].price = -1
      BY <1>1, <1>4, <2>1, <3>1, <3>2, <3>4, PrecedesCases DEF CostKey
    <3>5. CASE Eligible(sh[p]) /\ sh[p].price # -1
      BY <1>1, <1>4, <2>1, <3>1, <3>2, <3>5, PrecedesCases DEF CostKey
    <3>6. QED
      BY <3>2, <3>3, <3>4, <3>5
  <2>6. CASE strategy = "failover"
    BY <1>1, <1>4, <2>1, <2>6, PrecedesCases
       DEF Key, HealthKey, Score, NoWorse, HealthRank, HealthStatuses
  <2>7. QED
    BY <2>2, <2>3, <2>4, <2>5, <2>6 DEF Strategies
<1>5. QED
  BY <1>3, <1>4

\* Without rotation, a better line never gives a later key.
LEMMA BetterKey ==
  ASSUME NEW C \in SUBSET Providers, NEW strategy \in Strategies \ {"round_robin"},
         NEW s \in [Providers -> Score], NEW t \in [Providers -> Score],
         NEW chain, NEW n \in Nat, NEW p \in C,
         NoWorse(t[p], s[p]), Eligible(s[p]) <=> Eligible(t[p])
  PROVE  ~ Precedes(Key(p, C, strategy, s, chain, n), Key(p, C, strategy, t, chain, n))
<1> DEFINE K(x) == Key(p, C, strategy, x, chain, n)
<1>1. p \in Nat /\ s[p] \in Score /\ t[p] \in Score /\ K(s) \in Keys /\ K(t) \in Keys
  BY EngineAssumption, KeyType
<1>2. CASE strategy = "priority"
  BY <1>1, <1>2, PrecedesCases DEF Key, PriorityKey, Score, NoWorse
<1>3. CASE strategy = "weighted"
  BY <1>1, <1>3, PrecedesCases DEF Key, WeightKey, Score, NoWorse
<1>4. CASE strategy = "latency_aware"
  <2>1. K(t) = LatencyKey(p, t[p]) /\ K(s) = LatencyKey(p, s[p])
    BY <1>4 DEF Key
  <2>2. /\ s[p].latency = 0 \/ (t[p].latency # 0 /\ t[p].latency <= s[p].latency)
        /\ s[p].latency \in Nat /\ t[p].latency \in Nat
        /\ s[p].priority \in Nat /\ t[p].priority \in Nat
        /\ t[p].priority <= s[p].priority
    BY <1>1 DEF Score, NoWorse
  <2>3. CASE ~ Eligible(s[p])
    BY <1>1, <2>1, <2>3, PrecedesTotal DEF LatencyKey
  <2>4. CASE Eligible(s[p])
    BY <1>1, <2>1, <2>2, <2>4, PrecedesCases DEF LatencyKey
  <2>5. QED
    BY <2>3, <2>4
<1>5. CASE strategy = "cost_aware"
  <2>1. K(t) = CostKey(p, t[p]) /\ K(s) = CostKey(p, s[p])
    BY <1>5 DEF Key
  <2>2. /\ s[p].price = -1 \/ (t[p].price # -1 /\ t[p].price <= s[p].price)
        /\ s[p].price \in Int /\ t[p].price \in Int
        /\ s[p].priority \in Nat /\ t[p].priority \in Nat
        /\ t[p].priority <= s[p].priority
    BY <1>1 DEF Score, NoWorse
  <2>3. CASE ~ Eligible(s[p])
    BY <1>1, <2>1, <2>3, PrecedesTotal DEF CostKey
  <2>4. CASE Eligible(s[p]) /\ s[p].price = -1 /\ t[p].price = -1
    BY <1>1, <2>1, <2>2, <2>4, PrecedesCases DEF CostKey
  <2>5. CASE Eligible(s[p]) /\ t[p].price # -1
    BY <1>1, <2>1, <2>2, <2>5, PrecedesCases DEF CostKey
  <2>6. QED
    BY <2>2, <2>3, <2>4, <2>5
<1>6. CASE strategy = "failover"
  <2>1. K(t) = HealthKey(p, t[p]) /\ K(s) = HealthKey(p, s[p])
    BY <1>6 DEF Key
  <2>2. /\ HealthRank(t[p].health) <= HealthRank(s[p].health)
        /\ s[p].priority \in Nat /\ t[p].priority \in Nat
        /\ t[p].priority <= s[p].priority
    BY <1>1 DEF Score, NoWorse
  <2>3. HealthRank(t[p].health) \in Int /\ HealthRank(s[p].health) \in Int
    BY <1>1 DEF Score, HealthRank, HealthStatuses
  <2>4. QED
    BY <1>1, <2>1, <2>2, <2>3, PrecedesCases DEF HealthKey
<1>7. QED
  BY <1>2, <1>3, <1>4, <1>5, <1>6 DEF Strategies

\* A better line never gives a later place, if in a rotation it leaves alone the
\* columns that the resolved order goes by.
LEMMA BetterIsNoLater ==
  ASSUME NEW C \in SUBSET Providers, NEW strategy \in Strategies,
         NEW s \in [Providers -> Score], NEW t \in [Providers -> Score],
         NEW chain, NEW n \in Nat, NEW p \in C,
         NoWorse(t[p], s[p]),
         strategy = "round_robin" => t[p].priority = s[p].priority /\ t[p].weight = s[p].weight,
         \A q \in C \ {p} : s[q] = t[q]
  PROVE  Rank(C, strategy, t, chain, n)[p] <= Rank(C, strategy, s, chain, n)[p]
<1> DEFINE A(q, x) == Ahead(q, p, C, strategy, x, chain, n)
           K(q, x) == Key(q, C, strategy, x, chain, n)
<1>1. Eligible(s[p]) => Eligible(t[p])
  <2>1. s[p] \in Score /\ t[p] \in Score
    OBVIOUS
  <2>2. QED
    BY <2>1 DEF NoWorse, Eligible, HealthRank, Score, HealthStatuses
<1>2. ASSUME ~ (Eligible(s[p]) <=> Eligible(t[p]))
      PROVE  \A q \in C : A(q, t) => A(q, s)
  <2>1. ~ A(p, t)
    BY AheadOrder
  <2>2. \A q \in C \ {p} : A(q, t) => A(q, s)
    BY <1>1, <1>2 DEF Ahead
  <2>3. QED
    BY <2>1, <2>2
<1>3. ASSUME Eligible(s[p]) <=> Eligible(t[p]), strategy # "round_robin"
      PROVE  \A q \in C : A(q, t) => A(q, s)
  <2>1. \A q \in C \ {p} : K(q, t) = K(q, s)
    BY <1>3 DEF Key, Strategies
  <2>2. ~ Precedes(K(p, s), K(p, t))
    BY <1>3, BetterKey
  <2>3. \A q \in C : K(q, t) \in Keys /\ K(q, s) \in Keys
    BY KeyType
  <2>4. \A q \in C : A(q, t) <=>
          \/ Eligible(t[q]) /\ ~ Eligible(t[p])
          \/ (Eligible(t[q]) <=> Eligible(t[p])) /\ Precedes(K(q, t), K(p, t))
    BY DEF Ahead
  <2>5. \A q \in C : A(q, s) <=>
          \/ Eligible(s[q]) /\ ~ Eligible(s[p])
          \/ (Eligible(s[q]) <=> Eligible(s[p])) /\ Precedes(K(q, s), K(p, s))
    BY DEF Ahead
  <2>6. ~ A(p, t)
    BY AheadOrder
  <2> HIDE DEF K, A
  <2>7. \A q \in C \ {p} : Precedes(K(q, t), K(p, t)) => Precedes(K(q, s), K(p, s))
    BY <2>1, <2>2, <2>3, PrecedesWeakly
  <2>8. QED
    BY <1>3, <2>4, <2>5, <2>6, <2>7
<1>4. ASSUME Eligible(s[p]) <=> Eligible(t[p]), strategy = "round_robin"
      PROVE  \A q \in C : A(q, t) => A(q, s)
  <2>1. \A q \in C : Eligible(s[q]) <=> Eligible(t[q])
    BY <1>4
  <2>2. \A q \in C : ResolvedKey(q, s[q], chain) = ResolvedKey(q, t[q], chain)
    BY <1>4 DEF ResolvedKey
  <2>3. \A D \in SUBSET C : \A q \in D :
          ResolvedIndex(q, D, s, chain) = ResolvedIndex(q, D, t, chain)
    BY <2>2 DEF ResolvedIndex
  <2>4. {c \in C : Eligible(s[c])} = {c \in C : Eligible(t[c])}
    BY <2>1
  <2>5. \A q \in C : RotationKey(q, C, s, chain, n) = RotationKey(q, C, t, chain, n)
    BY <2>3, <2>4 DEF RotationKey
  <2>6. \A q \in C : A(q, t) => A(q, s)
    BY <1>4, <2>1, <2>5 DEF Ahead, Key
  <2>7. QED
    BY <2>6
<1>5. \A q \in C : A(q, t) => A(q, s)
  BY <1>2, <1>3, <1>4
<1>6. QED
  <2> DEFINE Bt == {q \in C : A(q, t)}
             Bs == {q \in C : A(q, s)}
  <2>1. Bt \subseteq Bs /\ Bs \subseteq C
    BY <1>5
  <2>2. Rank(C, strategy, t, chain, n)[p] = 1 + Cardinality(Bt)
    BY DEF Rank
  <2>3. Rank(C, strategy, s, chain, n)[p] = 1 + Cardinality(Bs)
    BY DEF Rank
  <2> HIDE DEF Bt, Bs
  <2>4. IsFiniteSet(Bs)
    BY <2>1, EngineAssumption, FS_Subset
  <2>5. Cardinality(Bt) <= Cardinality(Bs) /\ Cardinality(Bt) \in Nat /\ Cardinality(Bs) \in Nat
    BY <2>1, <2>4, FS_Subset, FS_CardinalityType
  <2>6. QED
    BY <2>2, <2>3, <2>5

-----------------------------------------------------------------------------
(* Rotation. *)

\* The remainder is the one number below n that differs by a multiple of n.
LEMMA ModUnique ==
  ASSUME NEW n \in Nat \ {0}, NEW x \in Int, NEW k \in Int, NEW r \in 0..(n - 1), x = n * k + r
  PROVE  x % n = r
  OBVIOUS

\* Quotient and remainder.
LEMMA ModSplit ==
  ASSUME NEW n \in Nat \ {0}, NEW x \in Int
  PROVE  /\ x % n \in 0..(n - 1)
         /\ x \div n \in Int
         /\ x = n * (x \div n) + (x % n)
  OBVIOUS

\* Taking off the remainder leaves a multiple.
LEMMA ModOfRest ==
  ASSUME NEW n \in Nat \ {0}, NEW x \in Int
  PROVE  ((x % n) - x) % n = 0
<1> DEFINE q == x \div n
           r == x % n
<1>1. r \in 0..(n - 1) /\ q \in Int /\ x = n * q + r
  BY ModSplit
<1> HIDE DEF q, r
<1>2. r - x = n * (-q) + 0 /\ r - x \in Int /\ -q \in Int /\ 0 \in 0..(n - 1)
  BY <1>1
<1>3. (r - x) % n = 0
  BY <1>2, ModUnique
<1>4. QED
  BY <1>3 DEF r

\* One less than a multiple leaves the greatest remainder.
LEMMA ModOneLess ==
  ASSUME NEW n \in Nat \ {0}, NEW x \in Int, x % n = 0
  PROVE  (x - 1) % n = n - 1
<1> DEFINE q == x \div n
<1>1. q \in Int /\ x = n * q
  BY ModSplit
<1> HIDE DEF q
<1>2. x - 1 = n * (q - 1) + (n - 1) /\ q - 1 \in Int /\ x - 1 \in Int /\ n - 1 \in 0..(n - 1)
  BY <1>1
<1>3. QED
  BY <1>2, ModUnique

\* The indices in the resolved order are 0..n-1, each once: a slug is unique, and no
\* two model rows have the same age.
LEMMA ResolvedIndexOnto ==
  ASSUME NEW D \in SUBSET Providers, NEW sh \in [Providers -> Score], NEW chain \in Seq(Providers)
  PROVE  /\ \A p \in D : ResolvedIndex(p, D, sh, chain) \in 0..(Cardinality(D) - 1)
         /\ \A i \in 0..(Cardinality(D) - 1) : \E p \in D : ResolvedIndex(p, D, sh, chain) = i
<1> DEFINE K(p) == ResolvedKey(p, sh[p], chain)
           R == {pr \in D \X D : Precedes(K(pr[1]), K(pr[2]))}
<1>1. \A p \in D : K(p) \in Keys /\ K(p)[4] = Age[p]
  BY ChainPositionType, EngineAssumption DEF ResolvedKey, Keys, Score
<1>2. \A p, q \in D : p # q => Age[p] # Age[q]
  BY EngineAssumption
<1>3. \A p, q \in D : <<p, q>> \in R <=> Precedes(K(p), K(q))
  OBVIOUS
<1>4. \A p \in D : ResolvedIndex(p, D, sh, chain) = Cardinality(Before(p, D, R))
  BY DEF ResolvedIndex, Before
<1> HIDE DEF K, R
<1>5. \A p \in D : <<p, p>> \notin R
  BY <1>1, <1>3, PrecedesTotal
<1>6. \A p, q \in D : p # q => <<p, q>> \in R \/ <<q, p>> \in R
  BY <1>1, <1>2, <1>3, PrecedesTotal
<1>7. \A p, q, r \in D : <<p, q>> \in R /\ <<q, r>> \in R => <<p, r>> \in R
  BY <1>1, <1>3, PrecedesTransitive
<1>8. IsFiniteSet(D)
  BY EngineAssumption, FS_Subset
<1>9. /\ \A p \in D : Cardinality(Before(p, D, R)) \in 0..(Cardinality(D) - 1)
      /\ \A i \in 0..(Cardinality(D) - 1) : \E p \in D : Cardinality(Before(p, D, R)) = i
  BY <1>5, <1>6, <1>7, <1>8, PlacesOnto
<1>10. QED
  BY <1>4, <1>9

\* Some eligible candidate stands at the front of the rotation.
LEMMA RotationFront ==
  ASSUME NEW C \in SUBSET Providers, NEW sh \in [Providers -> Score],
         NEW chain \in Seq(Providers), NEW n \in Nat,
         NEW c \in C, Eligible(sh[c])
  PROVE  \E p \in C : Eligible(sh[p]) /\ RotationKey(p, C, sh, chain, n)[1] = 0
                      /\ RotationKey(p, C, sh, chain, n)[2] = 0
<1> DEFINE E == {x \in C : Eligible(sh[x])}
           N == Cardinality(E)
<1>1. N \in Nat \ {0}
  BY EngineAssumption, FS_Subset, FS_CardinalityType, FS_EmptySet
<1>2. n % N \in 0..(N - 1)
  <2> HIDE DEF N
  <2>1. QED
    BY <1>1, ModSplit
<1>3. E \in SUBSET Providers
  OBVIOUS
<1>4. PICK p \in E : ResolvedIndex(p, E, sh, chain) = n % N
  <2> HIDE DEF E
  <2>1. QED
    BY <1>2, <1>3, ResolvedIndexOnto
<1>5. RotationKey(p, C, sh, chain, n) = <<0, (ResolvedIndex(p, E, sh, chain) - n) % N, 0, p>>
  BY DEF RotationKey
<1>6. ((n % N) - n) % N = 0
  <2>1. N \in Nat \ {0} /\ n \in Int
    BY <1>1
  <2> HIDE DEF N, E
  <2>2. QED
    BY ONLY <2>1, ModOfRest, Zenon
<1>7. QED
  BY <1>4, <1>5, <1>6

\* The candidate tried first with one offset is not tried first with the next.
LEMMA RotationMoves ==
  ASSUME NEW C \in SUBSET Providers, NEW sh \in [Providers -> Score],
         NEW chain \in Seq(Providers), NEW n \in Nat,
         Cardinality({x \in C : Eligible(sh[x])}) > 1, NEW p \in C,
         Rank(C, "round_robin", sh, chain, n)[p] = 1
  PROVE  Rank(C, "round_robin", sh, chain, n + 1)[p] # 1
<1> DEFINE E == {x \in C : Eligible(sh[x])}
           N == Cardinality(E)
           st == "round_robin"
           K(x, m) == RotationKey(x, C, sh, chain, m)
<1>1. IsFiniteSet(E) /\ N \in Nat \ {0} /\ N > 1 /\ E # {}
  <2>1. IsFiniteSet(E) /\ E \in SUBSET C
    BY EngineAssumption, FS_Subset
  <2>2. N > 1
    OBVIOUS
  <2> HIDE DEF E
  <2>3. N \in Nat
    BY <2>1, FS_CardinalityType
  <2>4. E # {}
    <3>1. E = {} => N = 0
      BY FS_EmptySet
    <3> HIDE DEF N
    <3>2. QED
      BY <2>2, <2>3, <3>1
  <2>5. QED
    BY <2>1, <2>2, <2>3, <2>4
<1>2. \A m \in Nat : \A x, y \in C : Ahead(y, x, C, st, sh, chain, m) <=>
        \/ y \in E /\ x \notin E
        \/ (y \in E <=> x \in E) /\ Precedes(K(y, m), K(x, m))
  BY DEF Ahead, Key
<1>3. \A m \in Nat : \A x \in C : K(x, m) \in Keys
  BY RotationKeyType
<1>4. \A m \in Nat : \A x \in E :
        K(x, m)[1] = 0 /\ K(x, m)[2] = (ResolvedIndex(x, E, sh, chain) - m) % N
  BY DEF RotationKey
<1>5. \A m \in Nat : \A x, y \in C :
        Ahead(y, x, C, st, sh, chain, m) =>
          Rank(C, st, sh, chain, m)[y] < Rank(C, st, sh, chain, m)[x]
  BY RankOrder DEF Strategies
<1>6. \A m \in Nat : \A x \in C : Rank(C, st, sh, chain, m)[x] \in 1..Cardinality(C)
  <2>1. \A m \in Nat : Rank(C, st, sh, chain, m) \in [C -> 1..Cardinality(C)]
    BY RankOnce, Zenon DEF Strategies
  <2>2. QED
    BY <2>1
<1>7. \A m \in Nat : \E x \in E : K(x, m)[1] = 0 /\ K(x, m)[2] = 0
  BY <1>1, RotationFront
<1>8. \A x \in E : ResolvedIndex(x, E, sh, chain) \in Nat
  BY ResolvedIndexType
<1>9. n + 1 \in Nat
  OBVIOUS
<1>10. \A y \in C : ~ Ahead(y, p, C, st, sh, chain, n)
  <2> SUFFICES ASSUME NEW y \in C, Ahead(y, p, C, st, sh, chain, n) PROVE FALSE
    OBVIOUS
  <2>1. Rank(C, st, sh, chain, n)[y] < 1
    BY <1>5
  <2>2. QED
    BY <1>6, <2>1, FS_CardinalityType
<1> HIDE DEF K, E
<1>11. p \in E
  BY <1>1, <1>2, <1>10 DEF E
<1>12. (ResolvedIndex(p, E, sh, chain) - n) % N = 0
  <2>1. PICK x \in E : K(x, n)[1] = 0 /\ K(x, n)[2] = 0
    BY <1>7
  <2>2. x \in C /\ ~ Precedes(K(x, n), K(p, n))
    BY <1>2, <1>10, <1>11 DEF E
  <2>3. ~ (K(p, n)[2] > 0)
    BY <1>3, <1>4, <1>11, <2>1, <2>2, PrecedesCases DEF Keys
  <2> HIDE DEF N
  <2>4. (ResolvedIndex(p, E, sh, chain) - n) % N \in 0..(N - 1)
    BY <1>1, <1>8, <1>11
  <2>5. QED
    BY <1>1, <1>4, <1>11, <2>3, <2>4
<1>13. (ResolvedIndex(p, E, sh, chain) - (n + 1)) % N = N - 1
  <2> HIDE DEF N
  <2>1. ((ResolvedIndex(p, E, sh, chain) - n) - 1) % N = N - 1
    BY <1>1, <1>8, <1>11, <1>12, ModOneLess
  <2>2. (ResolvedIndex(p, E, sh, chain) - n) - 1 = ResolvedIndex(p, E, sh, chain) - (n + 1)
    BY <1>8, <1>11
  <2>3. QED
    BY <2>1, <2>2
<1>14. PICK y \in E : K(y, n + 1)[1] = 0 /\ K(y, n + 1)[2] = 0
  BY <1>7, <1>9
<1>15. K(p, n + 1)[1] = 0 /\ K(p, n + 1)[2] > 0
  BY <1>1, <1>4, <1>9, <1>11, <1>13
<1>16. y \in C /\ Precedes(K(y, n + 1), K(p, n + 1))
  BY <1>3, <1>9, <1>14, <1>15, PrecedesCases DEF Keys, E
<1>17. Ahead(y, p, C, st, sh, chain, n + 1)
  BY <1>2, <1>9, <1>11, <1>16
<1>18. Rank(C, st, sh, chain, n + 1)[y] < Rank(C, st, sh, chain, n + 1)[p]
  BY <1>5, <1>9, <1>16, <1>17
<1>19. Rank(C, st, sh, chain, n + 1)[y] >= 1 /\ Rank(C, st, sh, chain, n + 1)[y] \in Int
  BY <1>6, <1>9, <1>16
<1>20. QED
  BY <1>18, <1>19

-----------------------------------------------------------------------------
(* The inductive invariant. *)

Choice == [strategy: Strategies, chain: Seq(Providers)]

\* chosen, unread and decision, more precisely than TypeOK has them.
Shapes ==
  /\ chosen \in [Askers -> Choice]
  /\ unread \in [Askers -> SUBSET Providers]
  /\ DOMAIN decision = Askers
  /\ \A a \in Askers : pc[a] # "done" => decision[a] = <<>>

\* A decision is the ranking of what its asker has read.
RankedAsRead ==
  \A a \in Askers : Decided(a) =>
    decision[a] = Rank(found[a], chosen[a].strategy, sheet[a], chosen[a].chain, offset[a])

\* What was read about a provider's health is what the tables say, unless the
\* health changed since the asker began; and a decision has read everything.
HonestReads ==
  \A a \in Askers :
    /\ pc[a] = "matching" => unread[a] = found[a]
    /\ pc[a] = "done" => unread[a] = {}
    /\ pc[a] \in {"reading", "done"} =>
         \A p \in (found[a] \ unread[a]) \ moved[a] : sheet[a][p].health = check[p].status

RInv == TypeOK /\ Shapes /\ RankedAsRead /\ HonestReads

\* The first matching rule exists whenever a rule matches, and is a rule.
LEMMA StrategyForType ==
  ASSUME TypeOK, NEW p
  PROVE  StrategyFor(p) \in Choice
<1>1. CASE Matching(p) = {}
  BY <1>1 DEF StrategyFor, Choice, Strategies
<1>2. CASE Matching(p) # {}
  <2> DEFINE M == Matching(p)
             s == CHOOSE s \in M : \A t \in M : s <= t
  <2>1. M \subseteq Nat /\ M \subseteq Slots
    BY RoutingAssumption DEF Matching
  <2>2. \E m \in M : \A t \in M : m <= t
    <3> HIDE DEF M
    <3>1. M # {}
      BY <1>2 DEF M
    <3>2. QED
      BY <2>1, <3>1, LeastExists
  <2>3. s \in M
    BY <2>2
  <2>4. rules[s] # NoRule /\ s \in Slots
    BY <2>1, <2>3 DEF Matching
  <2>5. rules[s] \in Rule
    BY <2>4, RoutingAssumption DEF TypeOK
  <2>6. StrategyFor(p) = [strategy |-> rules[s].strategy, chain |-> rules[s].chain]
    BY <1>2 DEF StrategyFor
  <2> HIDE DEF s
  <2>7. QED
    BY <2>5, <2>6 DEF Rule, Choice
<1>3. QED
  BY <1>1, <1>2

\* The latency of a provider's signals is a number: no average is taken of nothing.
LEMMA LatencyType ==
  ASSUME TypeOK, NEW p \in Providers
  PROVE  Latency(p) \in Nat
<1>1. check[p].latency \in Nat /\ usage[p].sum \in Nat /\ usage[p].count \in Nat
  BY DEF TypeOK, Observation
<1>2. usage[p].count # 0 => usage[p].sum \div usage[p].count \in Nat
  BY <1>1
<1>3. QED
  BY <1>1, <1>2 DEF Latency

\* The invariant holds before anyone has asked.
LEMMA RInvInit == Init => RInv
<1> SUFFICES ASSUME Init PROVE RInv
  OBVIOUS
<1> USE RoutingAssumption DEF Init
<1>1. Blank \in [Providers -> Score]
  BY DEF Blank, Score, HealthStatuses
<1>2. Shapes
  BY DEF Shapes, Choice, Strategies
<1>3. TypeOK
  <2>1. serving \subseteq Providers /\ profile \in [Providers -> Profile]
    OBVIOUS
  <2>2. check \in [Providers -> Observation] /\ usage \in [Providers -> [sum: Nat, count: Nat]]
    BY DEF Observation, HealthStatuses
  <2>3. /\ attempts \in Nat /\ edits \in 0..MaxEdits
        /\ rules \in [Slots -> RuleChoices \cup {NoRule}]
    OBVIOUS
  <2>4. /\ pc \in [Askers -> {"idle", "resolving", "matching", "reading", "done"}]
        /\ offset \in [Askers -> Nat] /\ asked \in [Askers -> Strategies \cup {"none"}]
        /\ found \in [Askers -> SUBSET Providers] /\ moved \in [Askers -> SUBSET Providers]
    OBVIOUS
  <2>5. \A a \in Askers : /\ chosen[a].strategy \in Strategies
                          /\ chosen[a].chain \in Seq(Providers)
                          /\ unread[a] \subseteq found[a] /\ pc[a] # "done"
    <3>1. \A a \in Askers : unread[a] = {} /\ pc[a] = "idle"
      OBVIOUS
    <3>2. QED
      BY <1>2, <3>1 DEF Shapes, Choice
  <2>6. sheet \in [Askers -> [Providers -> Score]]
    BY <1>1
  <2>7. QED
    BY <2>1, <2>2, <2>3, <2>4, <2>5, <2>6 DEF TypeOK
<1>4. RankedAsRead /\ HonestReads
  BY DEF RankedAsRead, HonestReads, Decided
<1>5. QED
  BY <1>2, <1>3, <1>4 DEF RInv

\* A change of the tables that leaves what has been asked alone.
LEMMA EditKeeps ==
  ASSUME RInv, NEW p \in Providers,
         \/ RecordUsage(p) \/ AlterProvider(p) \/ AlterModel(p) \/ AlterCredential(p)
  PROVE  RInv'
<1>1. edits' \in 0..MaxEdits
  BY RoutingAssumption
     DEF RInv, TypeOK, RecordUsage, AlterProvider, AlterModel, AlterCredential, Edit
<1>2. UNCHANGED <<check, rules, asking, moved>>
  BY DEF RecordUsage, AlterProvider, AlterModel, AlterCredential
<1>3. /\ serving' \subseteq Providers /\ attempts' \in Nat
      /\ profile' \in [Providers -> Profile]
      /\ usage' \in [Providers -> [sum: Nat, count: Nat]]
  <2>1. CASE RecordUsage(p)
    <3>1. attempts' \in Nat /\ UNCHANGED <<serving, profile>>
      BY <2>1 DEF RecordUsage, RInv, TypeOK
    <3>2. usage' \in [Providers -> [sum: Nat, count: Nat]]
      <4>1. usage \in [Providers -> [sum: Nat, count: Nat]] /\ Samples \subseteq Nat
        BY RoutingAssumption DEF RInv, TypeOK
      <4>2. PICK l \in Samples :
              \/ usage' = usage
              \/ usage' = [usage EXCEPT ![p] = [sum |-> usage[p].sum + l,
                                                count |-> usage[p].count + 1]]
        BY <2>1, <4>1 DEF RecordUsage
      <4>3. usage[p].sum + l \in Nat /\ usage[p].count + 1 \in Nat
        BY <4>1
      <4>4. QED
        BY <4>1, <4>2, <4>3
    <3>3. QED
      BY <3>1, <3>2 DEF RInv, TypeOK
  <2>2. CASE AlterProvider(p)
    <3>1. PICK wanted \in Profiles :
            profile' = [profile EXCEPT ![p].priority = wanted[p].priority,
                                       ![p].weight = wanted[p].weight]
      BY <2>2 DEF AlterProvider
    <3>2. wanted[p] \in Profile /\ profile[p] \in Profile
      BY RoutingAssumption DEF RInv, TypeOK
    <3>3. profile' \in [Providers -> Profile]
      BY <3>1, <3>2 DEF RInv, TypeOK, Profile
    <3>4. QED
      BY <2>2, <3>3 DEF AlterProvider, MayServe, RInv, TypeOK
  <2>3. CASE AlterModel(p)
    <3>1. PICK wanted \in Profiles : profile' = [profile EXCEPT ![p].price = wanted[p].price]
      BY <2>3 DEF AlterModel
    <3>2. wanted[p] \in Profile /\ profile[p] \in Profile
      BY RoutingAssumption DEF RInv, TypeOK
    <3>3. profile' \in [Providers -> Profile]
      BY <3>1, <3>2 DEF RInv, TypeOK, Profile
    <3>4. QED
      BY <2>3, <3>3 DEF AlterModel, MayServe, RInv, TypeOK
  <2>4. CASE AlterCredential(p)
    BY <2>4 DEF AlterCredential, MayServe, RInv, TypeOK
  <2>5. QED
    BY <2>1, <2>2, <2>3, <2>4
<1>4. TypeOK'
  BY <1>1, <1>2, <1>3 DEF RInv, TypeOK, asking
<1>5. Shapes' /\ RankedAsRead' /\ HonestReads'
  BY <1>2 DEF RInv, Shapes, RankedAsRead, HonestReads, Decided, asking
<1>6. QED
  BY <1>4, <1>5 DEF RInv

\* An edit of a rule leaves what has been asked alone.
LEMMA WriteRuleKeeps ==
  ASSUME RInv, NEW s \in Slots, WriteRule(s)
  PROVE  RInv'
<1> USE DEF WriteRule
<1>1. TypeOK'
  BY RoutingAssumption DEF RInv, TypeOK, Edit, asking
<1>2. Shapes' /\ RankedAsRead' /\ HonestReads'
  BY DEF RInv, Shapes, RankedAsRead, HonestReads, Decided, asking
<1>3. QED
  BY <1>1, <1>2 DEF RInv

\* A health check makes what was read of the provider old news, and says so in moved.
LEMMA ObserveKeeps ==
  ASSUME RInv, NEW p \in Providers, Observe(p)
  PROVE  RInv'
<1> USE DEF Observe
<1>1. PICK seen \in Observations : check' = [check EXCEPT ![p] = seen]
  OBVIOUS
<1>2. check' \in [Providers -> Observation]
  BY <1>1, RoutingAssumption DEF RInv, TypeOK
<1>3. TypeOK'
  BY <1>2, RoutingAssumption DEF RInv, TypeOK, Edit, asking
<1>4. Shapes' /\ RankedAsRead'
  BY DEF RInv, Shapes, RankedAsRead, Decided, asking
<1>5. HonestReads'
  <2>1. \A q \in Providers \ {p} : check'[q] = check[q]
    BY <1>1 DEF RInv, TypeOK
  <2>2. \A a \in Askers : pc[a] \in {"reading", "done"} => moved'[a] = moved[a] \cup {p}
    OBVIOUS
  <2>3. \A a \in Askers : found[a] \subseteq Providers
    BY DEF RInv, TypeOK
  <2>4. QED
    BY <2>1, <2>2, <2>3 DEF RInv, HonestReads, asking
<1>6. QED
  BY <1>3, <1>4, <1>5 DEF RInv

\* The simulator's first query only notes an offset.
LEMMA SimulateKeeps ==
  ASSUME RInv, NEW a \in Askers, Simulate(a)
  PROVE  RInv'
<1>1. PICK asks \in Requested :
        /\ asked' = [asked EXCEPT ![a] = asks]
        /\ offset' = [offset EXCEPT ![a] = RoundRobinOffset(asks)]
  BY DEF Simulate
<1>2. RoundRobinOffset(asks) \in Nat
  BY DEF RoundRobinOffset, RInv, TypeOK
<1>3. asks \in Strategies \cup {"none"}
  BY RoutingAssumption
<1>4. /\ pc[a] = "idle" /\ pc' = [pc EXCEPT ![a] = "resolving"]
      /\ UNCHANGED <<tables, edits, found, chosen, unread, sheet, decision, moved>>
  BY DEF Simulate
<1>5. TypeOK'
  BY <1>1, <1>2, <1>3, <1>4 DEF RInv, TypeOK, tables
<1>6. Shapes' /\ RankedAsRead' /\ HonestReads'
  BY <1>1, <1>4 DEF RInv, TypeOK, Shapes, RankedAsRead, HonestReads, Decided, tables
<1>7. QED
  BY <1>5, <1>6 DEF RInv

\* Resolving starts a sheet that nobody's health was read into.
LEMMA ResolveCandidatesKeeps ==
  ASSUME RInv, NEW a \in Askers, ResolveCandidates(a)
  PROVE  RInv'
<1> DEFINE line(p) == [Blank[p] EXCEPT !.priority = profile[p].priority,
                                       !.weight = profile[p].weight,
                                       !.price = profile[p].price]
           read == [p \in Providers |-> line(p)]
<1>1. /\ pc[a] \in {"idle", "resolving"}
      /\ found' = [found EXCEPT ![a] = serving]
      /\ unread' = [unread EXCEPT ![a] = serving]
      /\ sheet' = [sheet EXCEPT ![a] = read]
      /\ pc' = [pc EXCEPT ![a] = IF serving = {} THEN "done" ELSE "matching"]
      /\ UNCHANGED <<tables, edits, offset, asked, chosen, decision, moved>>
  BY DEF ResolveCandidates
<1>2. read \in [Providers -> Score]
  <2> SUFFICES ASSUME NEW p \in Providers PROVE line(p) \in Score
    OBVIOUS
  <2>1. profile[p] \in Profile
    BY DEF RInv, TypeOK
  <2>2. QED
    BY <2>1 DEF Blank, Score, Profile, HealthStatuses
<1> HIDE DEF read
<1>3. decision'[a] = <<>> /\ serving \subseteq Providers
  BY <1>1 DEF RInv, TypeOK, Shapes
<1>4. TypeOK'
  <2>1. found' \in [Askers -> SUBSET Providers] /\ sheet' \in [Askers -> [Providers -> Score]]
    BY <1>1, <1>2, <1>3 DEF RInv, TypeOK
  <2>2. \A b \in Askers : unread'[b] \subseteq found'[b]
    BY <1>1 DEF RInv, TypeOK, Shapes
  <2>3. pc' \in [Askers -> {"idle", "resolving", "matching", "reading", "done"}]
    BY <1>1 DEF RInv, TypeOK
  <2>4. \A b \in Askers : pc'[b] = "done" => DOMAIN decision'[b] = found'[b]
    <3>1. DOMAIN decision'[a] = {}
      BY <1>3
    <3>2. \A b \in Askers \ {a} : /\ pc'[b] = pc[b] /\ found'[b] = found[b]
                                  /\ decision'[b] = decision[b]
      BY <1>1 DEF RInv, TypeOK
    <3>3. pc'[a] = "done" => found'[a] = {}
      BY <1>1 DEF RInv, TypeOK
    <3>4. QED
      BY <3>1, <3>2, <3>3 DEF RInv, TypeOK
  <2>5. QED
    BY <1>1, <2>1, <2>2, <2>3, <2>4 DEF RInv, TypeOK, tables
<1>5. Shapes'
  BY <1>1, <1>3 DEF RInv, TypeOK, Shapes
<1>6. RankedAsRead' /\ HonestReads'
  BY <1>1 DEF RInv, TypeOK, Shapes, RankedAsRead, HonestReads, Decided, tables
<1>7. QED
  BY <1>4, <1>5, <1>6 DEF RInv

\* Matching a rule finds nothing read yet.
LEMMA MatchRuleKeeps ==
  ASSUME RInv, NEW a \in Askers, MatchRule(a)
  PROVE  RInv'
<1> DEFINE choice == Strategy(asked[a], FirstOf(found[a], sheet[a], <<>>))
<1>1. /\ pc[a] = "matching" /\ pc' = [pc EXCEPT ![a] = "reading"]
      /\ chosen' = [chosen EXCEPT ![a] = choice]
      /\ UNCHANGED <<tables, edits, offset, asked, found, unread, sheet, decision, moved>>
  BY DEF MatchRule
<1>2. choice \in Choice
  <2>1. asked[a] \in Strategies \cup {"none"}
    BY DEF RInv, TypeOK
  <2>2. StrategyFor(FirstOf(found[a], sheet[a], <<>>)) \in Choice
    BY StrategyForType DEF RInv
  <2>3. QED
    BY <2>1, <2>2 DEF Strategy, Choice
<1> HIDE DEF choice
<1>3. chosen' \in [Askers -> Choice]
  BY <1>1, <1>2 DEF RInv, Shapes
<1>4. TypeOK'
  <2>1. \A b \in Askers : chosen'[b].strategy \in Strategies /\ chosen'[b].chain \in Seq(Providers)
    BY <1>3 DEF Choice
  <2>2. QED
    BY <1>1, <2>1 DEF RInv, TypeOK, tables
<1>5. Shapes'
  BY <1>1, <1>3 DEF RInv, TypeOK, Shapes
<1>6. RankedAsRead' /\ HonestReads'
  <2>1. \A b \in Askers : pc'[b] = "done" => b # a /\ pc[b] = "done" /\ chosen'[b] = chosen[b]
    BY <1>1 DEF RInv, TypeOK, Shapes
  <2>2. RankedAsRead'
    BY <1>1, <2>1 DEF RInv, RankedAsRead, Decided
  <2>3. \A p \in (found[a] \ unread[a]) \ moved[a] : sheet[a][p].health = check[p].status
    BY <1>1 DEF RInv, HonestReads
  <2>4. QED
    BY <1>1, <2>1, <2>2, <2>3 DEF RInv, TypeOK, HonestReads, tables
<1>7. QED
  BY <1>4, <1>5, <1>6 DEF RInv

\* One provider's signals are read as the tables have them at that moment, and the
\* last ones complete the ranking.
LEMMA ReadSignalsKeeps ==
  ASSUME RInv, NEW a \in Askers, ReadSignals(a)
  PROVE  RInv'
<1> DEFINE p == FirstOf(unread[a], sheet[a], chosen[a].chain)
           read == [sheet[a] EXCEPT ![p].health = check[p].status, ![p].latency = Latency(p)]
           places == Rank(found[a], chosen[a].strategy, read, chosen[a].chain, offset[a])
<1>1. /\ pc[a] = "reading"
      /\ sheet' = [sheet EXCEPT ![a] = read]
      /\ unread' = [unread EXCEPT ![a] = unread[a] \ {p}]
      /\ UNCHANGED <<tables, edits, offset, asked, found, chosen, moved>>
      /\ \/ unread[a] # {p} /\ UNCHANGED <<pc, decision>>
         \/ /\ unread[a] = {p}
            /\ pc' = [pc EXCEPT ![a] = "done"]
            /\ decision' = [decision EXCEPT ![a] = places]
  BY DEF ReadSignals
<1>2. /\ read \in [Providers -> Score]
      /\ \A q \in Providers : read[q].health =
           IF q = p THEN check[q].status ELSE sheet[a][q].health
  <2>1. CASE p \in Providers
    <3>1. Latency(p) \in Nat /\ check[p].status \in HealthStatuses
      BY <2>1, LatencyType DEF RInv, TypeOK, Observation
    <3>2. sheet[a] \in [Providers -> Score]
      BY DEF RInv, TypeOK
    <3> HIDE DEF p
    <3>3. QED
      BY <2>1, <3>1, <3>2 DEF Score
  <2>2. CASE p \notin Providers
    <3>1. sheet[a] \in [Providers -> Score]
      BY DEF RInv, TypeOK
    <3> HIDE DEF p
    <3>2. QED
      BY <2>2, <3>1
  <2>3. QED
    BY <2>1, <2>2
<1>3. DOMAIN places = found[a]
  BY DEF Rank
<1> HIDE DEF p, read, places
<1>4. TypeOK'
  <2>1. sheet' \in [Askers -> [Providers -> Score]]
    BY <1>1, <1>2 DEF RInv, TypeOK
  <2>2. \A b \in Askers : unread'[b] \subseteq found'[b]
    BY <1>1 DEF RInv, TypeOK, Shapes
  <2>3. pc' \in [Askers -> {"idle", "resolving", "matching", "reading", "done"}]
    BY <1>1 DEF RInv, TypeOK
  <2>4. \A b \in Askers : pc'[b] = "done" => DOMAIN decision'[b] = found'[b]
    BY <1>1, <1>3 DEF RInv, TypeOK, Shapes
  <2>5. QED
    BY <1>1, <2>1, <2>2, <2>3, <2>4 DEF RInv, TypeOK, tables
<1>5. Shapes'
  BY <1>1 DEF RInv, TypeOK, Shapes
<1>6. RankedAsRead'
  <2>1. \A b \in Askers \ {a} : /\ sheet'[b] = sheet[b] /\ pc'[b] = pc[b]
                                /\ decision'[b] = decision[b]
    BY <1>1 DEF RInv, TypeOK, Shapes
  <2>2. pc'[a] = "done" => sheet'[a] = read /\ decision'[a] = places
    BY <1>1 DEF RInv, TypeOK, Shapes
  <2>3. QED
    BY <1>1, <2>1, <2>2 DEF RInv, RankedAsRead, Decided, places
<1>7. HonestReads'
  <2>1. \A b \in Askers \ {a} : /\ sheet'[b] = sheet[b] /\ pc'[b] = pc[b]
                                /\ unread'[b] = unread[b]
    BY <1>1 DEF RInv, TypeOK, Shapes
  <2>2. sheet'[a] = read /\ unread'[a] = unread[a] \ {p} /\ pc'[a] \in {"reading", "done"}
        /\ (pc'[a] = "done" => unread'[a] = {})
    BY <1>1 DEF RInv, TypeOK, Shapes
  <2>3. found[a] \subseteq Providers
    BY DEF RInv, TypeOK
  <2>4. \A q \in (found[a] \ unread'[a]) \ moved[a] : read[q].health = check[q].status
    BY <1>1, <1>2, <2>2, <2>3 DEF RInv, HonestReads
  <2>5. QED
    BY <1>1, <2>1, <2>2, <2>4 DEF RInv, HonestReads, tables
<1>8. QED
  BY <1>4, <1>5, <1>6, <1>7 DEF RInv

\* Every step of the askers and of the tables keeps the invariant.
LEMMA RInvNext == RInv /\ [Next]_vars => RInv'
<1> SUFFICES ASSUME RInv, [Next]_vars PROVE RInv'
  OBVIOUS
<1>1. CASE \E a \in Askers : Query(a)
  BY <1>1, SimulateKeeps, ResolveCandidatesKeeps, MatchRuleKeeps, ReadSignalsKeeps DEF Query
<1>2. CASE \E p \in Providers : Observe(p) \/ RecordUsage(p)
  BY <1>2, ObserveKeeps, EditKeeps
<1>3. CASE \E p \in Providers : AlterProvider(p) \/ AlterModel(p) \/ AlterCredential(p)
  BY <1>3, EditKeeps
<1>4. CASE \E s \in Slots : WriteRule(s)
  BY <1>4, WriteRuleKeeps
<1>5. CASE UNCHANGED vars
  BY <1>5 DEF RInv, TypeOK, Shapes, RankedAsRead, HonestReads, Decided, vars, tables, asking
<1>6. QED
  BY <1>1, <1>2, <1>3, <1>4, <1>5 DEF Next

\* The inductive invariant holds throughout.
THEOREM Inductive == Spec => []RInv
  BY RInvInit, RInvNext, PTL DEF Spec

\* Every reachable state is well typed: in particular a decision places the
\* candidates that were found, and an asker never waits for signals of others.
THEOREM TypeCorrect == Spec => []TypeOK
<1>1. RInv => TypeOK
  BY DEF RInv
<1>2. QED
  BY <1>1, Inductive, PTL

\* What RInv says of one decision, in the form the theorems use.
LEMMA DecisionFacts ==
  ASSUME RInv, NEW a \in Askers, Decided(a)
  PROVE  /\ found[a] \in SUBSET Providers /\ chosen[a].strategy \in Strategies
         /\ chosen[a].chain \in Seq(Providers)
         /\ sheet[a] \in [Providers -> Score] /\ offset[a] \in Nat
         /\ decision[a] =
              Rank(found[a], chosen[a].strategy, sheet[a], chosen[a].chain, offset[a])
         /\ \A p \in found[a] \ moved[a] : sheet[a][p].health = check[p].status
  BY DEF RInv, TypeOK, RankedAsRead, HonestReads, Decided

\* Decision.ordered is a permutation of the candidates for any number of them and any
\* scores, whichever strategy ranks them: no candidate is lost and none tried twice.
THEOREM EveryCandidateIsTriedOnce == Spec => []EveryCandidateOnce
<1>1. RInv => EveryCandidateOnce
  <2> SUFFICES ASSUME RInv, NEW a \in Askers, Decided(a)
               PROVE  {decision[a][p] : p \in found[a]} = 1..Cardinality(found[a])
    BY DEF EveryCandidateOnce
  <2>1. QED
    BY DecisionFacts, RankOnce
<1>2. QED
  BY <1>1, Inductive, PTL

\* A provider that was down all the while a decision was made comes after every one
\* that was not, however the edits of the tables fall between the decision's queries.
THEOREM DownComesLast == Spec => []DownIsLastResort
<1>1. RInv => DownIsLastResort
  <2> SUFFICES ASSUME RInv, NEW a \in Askers, Decided(a),
                      NEW p \in found[a] \ moved[a], NEW q \in found[a] \ moved[a],
                      check[p].status = "down", check[q].status # "down"
               PROVE  decision[a][q] < decision[a][p]
    BY DEF DownIsLastResort
  <2>1. sheet[a][p].health = "down" /\ sheet[a][q].health # "down"
    BY DecisionFacts
  <2>2. Ahead(q, p, found[a], chosen[a].strategy, sheet[a], chosen[a].chain, offset[a])
    BY <2>1 DEF Ahead, Eligible
  <2>3. QED
    BY <2>2, DecisionFacts, RankOrder
<1>2. QED
  BY <1>1, Inductive, PTL

\* Within one decision of any strategy but rotation: a candidate that is no worse than
\* another in health and in latency and in price and in priority and in weight, and
\* before it by name, is tried before it, whatever the strategy's sorted() looks at.
THEOREM FitterIsTriedFirst == Spec => []FitterComesFirst
<1>1. RInv => FitterComesFirst
  <2> SUFFICES ASSUME RInv, NEW a \in Askers, Decided(a), chosen[a].strategy # "round_robin",
                      NEW p \in found[a], NEW q \in found[a],
                      NoWorse(sheet[a][p], sheet[a][q]), p < q
               PROVE  decision[a][p] < decision[a][q]
    BY DEF FitterComesFirst
  <2>1. Ahead(p, q, found[a], chosen[a].strategy, sheet[a], chosen[a].chain, offset[a])
    BY DecisionFacts, FitterIsAhead
  <2>2. QED
    BY <2>1, DecisionFacts, RankOrder
<1>2. QED
  BY <1>1, Inductive, PTL

\* Between two decisions on the same question (candidates, rule, offset) that read the
\* same of every provider but one, and of that one nothing worse the second time (for
\* round robin: with the same priority and weight), its place is no later the second time.
THEOREM BetterHealthNeverHurts == Spec => []HealthNeverHurts
<1>1. RInv => HealthNeverHurts
  <2> SUFFICES ASSUME RInv, NEW a \in Askers, NEW b \in Askers, SameQuestion(a, b),
                      offset[a] = offset[b], NEW p \in found[a],
                      NoWorse(sheet[b][p], sheet[a][p]),
                      chosen[a].strategy = "round_robin" =>
                        /\ sheet[b][p].priority = sheet[a][p].priority
                        /\ sheet[b][p].weight = sheet[a][p].weight,
                      \A q \in found[a] \ {p} : sheet[a][q] = sheet[b][q]
               PROVE  decision[b][p] <= decision[a][p]
    BY DEF HealthNeverHurts
  <2>1. Decided(a) /\ Decided(b) /\ found[a] = found[b] /\ chosen[a] = chosen[b]
    BY DEF SameQuestion
  <2> DEFINE C == found[a]
             st == chosen[a].strategy
             chain == chosen[a].chain
             n == offset[a]
  <2>2. /\ C \in SUBSET Providers /\ st \in Strategies /\ n \in Nat /\ p \in C
        /\ sheet[a] \in [Providers -> Score] /\ sheet[b] \in [Providers -> Score]
        /\ decision[a] = Rank(C, st, sheet[a], chain, n)
        /\ decision[b] = Rank(C, st, sheet[b], chain, n)
    BY <2>1, DecisionFacts
  <2>3. /\ st = "round_robin" => /\ sheet[b][p].priority = sheet[a][p].priority
                                 /\ sheet[b][p].weight = sheet[a][p].weight
        /\ \A q \in C \ {p} : sheet[a][q] = sheet[b][q]
    OBVIOUS
  <2> HIDE DEF C, st, chain, n
  <2>4. Rank(C, st, sheet[b], chain, n)[p] <= Rank(C, st, sheet[a], chain, n)[p]
    BY <2>2, <2>3, BetterIsNoLater
  <2>5. QED
    BY <2>2, <2>4
<1>2. QED
  BY <1>1, Inductive, PTL

\* _next_round_robin_offset's count, one higher, starts the rotation elsewhere, for any
\* number of eligible candidates above one: the wrap of the modulus loses no turn.
THEOREM RotationTurns == Spec => []RotationAdvances
<1>1. RInv => RotationAdvances
  <2> SUFFICES ASSUME RInv, NEW a \in Askers, NEW b \in Askers, SameQuestion(a, b),
                      sheet[a] = sheet[b], chosen[a].strategy = "round_robin",
                      Cardinality({p \in found[a] : Eligible(sheet[a][p])}) > 1,
                      offset[b] = offset[a] + 1,
                      NEW p \in found[a], decision[a][p] = 1
               PROVE  decision[b][p] # 1
    BY DEF RotationAdvances
  <2>1. Decided(a) /\ Decided(b) /\ found[a] = found[b] /\ chosen[a] = chosen[b]
    BY DEF SameQuestion
  <2> DEFINE C == found[a]
             chain == chosen[a].chain
             n == offset[a]
  <2>2. /\ C \in SUBSET Providers /\ chain \in Seq(Providers) /\ n \in Nat /\ p \in C
        /\ sheet[a] \in [Providers -> Score]
        /\ decision[a] = Rank(C, "round_robin", sheet[a], chain, n)
        /\ decision[b] = Rank(C, "round_robin", sheet[a], chain, n + 1)
    BY <2>1, DecisionFacts
  <2>3. Cardinality({x \in C : Eligible(sheet[a][x])}) > 1
    OBVIOUS
  <2> HIDE DEF C, chain, n
  <2>4. Rank(C, "round_robin", sheet[a], chain, n + 1)[p] # 1
    BY <2>2, <2>3, RotationMoves
  <2>5. QED
    BY <2>2, <2>4
<1>2. QED
  BY <1>1, Inductive, PTL

\* What is left of docs/api.md's promise that a simulated decision cannot disagree with
\* reality: it holds of every strategy but rotation, and of rotation if the offsets
\* agree, which for a call's, never passed, means at 0 only.
AgreeApartFromRotation ==
  \A a, b \in Askers :
    /\ SameQuestion(a, b) /\ sheet[a] = sheet[b]
    /\ chosen[a].strategy # "round_robin" \/ offset[a] = offset[b]
    => decision[a] = decision[b]

\* A simulation and a call that read the same sheet decide alike, rotation apart.
THEOREM SimulationAgrees == Spec => []AgreeApartFromRotation
<1>1. ASSUME RInv, NEW a \in Askers, NEW b \in Askers, SameQuestion(a, b), sheet[a] = sheet[b],
             chosen[a].strategy # "round_robin" \/ offset[a] = offset[b]
      PROVE  decision[a] = decision[b]
  <2> DEFINE C == found[a]
             st == chosen[a].strategy
             chain == chosen[a].chain
  <2>1. /\ found[b] = C /\ chosen[b] = chosen[a] /\ st \in Strategies
        /\ decision[a] = Rank(C, st, sheet[a], chain, offset[a])
        /\ decision[b] = Rank(C, st, sheet[a], chain, offset[b])
    BY <1>1, DecisionFacts DEF SameQuestion
  <2> HIDE DEF C, st, chain
  <2>2. CASE st # "round_robin"
    <3>1. \A p \in C : Key(p, C, st, sheet[a], chain, offset[a]) =
                       Key(p, C, st, sheet[a], chain, offset[b])
      BY <2>1, <2>2 DEF Key, Strategies
    <3>2. \A p, q \in C : Ahead(q, p, C, st, sheet[a], chain, offset[a]) <=>
                          Ahead(q, p, C, st, sheet[a], chain, offset[b])
      BY <3>1 DEF Ahead
    <3>3. QED
      BY <2>1, <3>2 DEF Rank
  <2>3. CASE offset[a] = offset[b]
    BY <2>1, <2>3
  <2>4. QED
    BY <1>1, <2>2, <2>3 DEF st
<1>2. RInv => AgreeApartFromRotation
  BY <1>1 DEF AgreeApartFromRotation
<1>3. QED
  BY <1>2, Inductive, PTL
=============================================================================
