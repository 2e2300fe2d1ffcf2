---------------------------- MODULE TokenCounts ----------------------------
(***************************************************************************)
(* Sums of whole tokens as counts.  The bond's quantities are whole, so    *)
(* "the sum of f over S" is the number of pairs <<s, n>> with n in         *)
(* 1..f[s].  These lemmas say what one update of f does to that number;    *)
(* the proofs about balances and about locks both rest on them.            *)
(***************************************************************************)
EXTENDS Integers, FiniteSets, FiniteSetTheorems, TLAPS

Count(S, f, M) == {p \in S \X (1..M) : p[2] <= f[p[1]]}

\* The tokens of one element number as many as the element has.
LEMMA CountOfOne ==
    ASSUME NEW s, NEW k \in Nat
    PROVE  /\ IsFiniteSet({s} \X (1..k))
           /\ Cardinality({s} \X (1..k)) = k
<1>1. IsFiniteSet({s}) /\ Cardinality({s}) = 1
  BY FS_Singleton
<1>2. IsFiniteSet(1..k) /\ Cardinality(1..k) = k
  <2>1. IsFiniteSet(1..k) /\ Cardinality(1..k) = IF 1 > k THEN 0 ELSE k - 1 + 1
    BY FS_Interval
  <2>2. QED
    BY <2>1
<1>3. /\ IsFiniteSet({s} \X (1..k))
      /\ Cardinality({s} \X (1..k)) = Cardinality({s}) * Cardinality(1..k)
  BY <1>1, <1>2, FS_Product, Zenon
<1>4. QED
  BY <1>1, <1>2, <1>3

\* A count is a natural number.
LEMMA CountFinite ==
    ASSUME NEW S, IsFiniteSet(S), NEW M \in Nat, NEW f
    PROVE  IsFiniteSet(Count(S, f, M)) /\ Cardinality(Count(S, f, M)) \in Nat
<1>1. IsFiniteSet(1..M)
  BY FS_Interval
<1>2. IsFiniteSet(S \X (1..M))
  BY <1>1, FS_Product, Zenon
<1>3. Count(S, f, M) \in SUBSET (S \X (1..M))
  BY DEF Count
<1>4. IsFiniteSet(Count(S, f, M))
  BY <1>2, <1>3, FS_Subset, Zenon
<1>5. QED
  BY <1>4, FS_CardinalityType, Zenon

\* The count splits into what one element has and what the others have.
LEMMA CountSplit ==
    ASSUME NEW S, IsFiniteSet(S), NEW M \in Nat, NEW f \in [S -> 0..M], NEW s \in S
    PROVE  LET others == {p \in Count(S, f, M) : p[1] # s}
           IN  /\ IsFiniteSet(others)
               /\ Cardinality(others) \in Nat
               /\ Cardinality(Count(S, f, M)) = Cardinality(others) + f[s]
<1> DEFINE all == Count(S, f, M)
           others == {p \in all : p[1] # s}
           own == {s} \X (1..f[s])
<1>1. IsFiniteSet(all)
  BY CountFinite
<1>2. IsFiniteSet(others)
  <2>1. others \in SUBSET all
    OBVIOUS
  <2>2. QED
    BY <1>1, <2>1, FS_Subset, Zenon
<1>3. f[s] \in Nat
  OBVIOUS
<1>4. IsFiniteSet(own) /\ Cardinality(own) = f[s]
  BY <1>3, CountOfOne
<1>5. all = others \cup own
  BY DEF Count
<1>6. others \cap own = {}
  OBVIOUS
<1>7. Cardinality(all) = Cardinality(others) + Cardinality(own) - Cardinality(others \cap own)
  BY <1>2, <1>4, <1>5, FS_Union, Zenon
<1>8. Cardinality(others \cap own) = 0
  BY <1>6, FS_EmptySet, Zenon
<1>9. Cardinality(others) \in Nat
  BY <1>2, FS_CardinalityType, Zenon
<1>10. Cardinality(all) = Cardinality(others) + f[s]
  BY <1>3, <1>4, <1>7, <1>8, <1>9
<1>11. QED
  BY <1>2, <1>9, <1>10

\* No element has more than all have together.
LEMMA CountBoundsEach ==
    ASSUME NEW S, IsFiniteSet(S), NEW M \in Nat, NEW f \in [S -> 0..M], NEW s \in S
    PROVE  f[s] <= Cardinality(Count(S, f, M))
<1>1. f[s] \in Nat
  OBVIOUS
<1>2. /\ Cardinality({p \in Count(S, f, M) : p[1] # s}) \in Nat
      /\ Cardinality(Count(S, f, M)) = Cardinality({p \in Count(S, f, M) : p[1] # s}) + f[s]
  BY CountSplit
<1>3. QED
  BY <1>1, <1>2

\* Changing one element changes the count by as much.
LEMMA CountUpdate ==
    ASSUME NEW S, IsFiniteSet(S), NEW M \in Nat, NEW f \in [S -> 0..M],
           NEW g \in [S -> 0..M], NEW s \in S, \A r \in S \ {s} : g[r] = f[r]
    PROVE  Cardinality(Count(S, g, M)) = Cardinality(Count(S, f, M)) - f[s] + g[s]
<1> DEFINE rest(h) == Cardinality({p \in Count(S, h, M) : p[1] # s})
           total(h) == Cardinality(Count(S, h, M))
<1>1. rest(g) = rest(f)
  <2>1. {p \in Count(S, g, M) : p[1] # s} = {p \in Count(S, f, M) : p[1] # s}
    BY DEF Count
  <2>2. QED
    BY <2>1
<1>2. f[s] \in Nat /\ g[s] \in Nat
  OBVIOUS
<1>3. rest(f) \in Nat /\ total(f) = rest(f) + f[s]
  BY CountSplit
<1>4. total(g) = rest(g) + g[s]
  BY CountSplit
<1> HIDE DEF rest, total
<1>5. total(g) = total(f) - f[s] + g[s]
  BY <1>1, <1>2, <1>3, <1>4
<1>6. QED
  BY <1>5 DEF total

\* If all elements but one have nothing, the count is what that one has.
LEMMA CountSingle ==
    ASSUME NEW S, IsFiniteSet(S), NEW M \in Nat, NEW f \in [S -> 0..M], NEW s \in S,
           \A r \in S \ {s} : f[r] = 0
    PROVE  Cardinality(Count(S, f, M)) = f[s]
<1>1. {p \in Count(S, f, M) : p[1] # s} = {}
  BY DEF Count
<1>2. Cardinality({p \in Count(S, f, M) : p[1] # s}) = 0
  BY <1>1, FS_EmptySet, Zenon
<1>3. Cardinality(Count(S, f, M)) = Cardinality({p \in Count(S, f, M) : p[1] # s}) + f[s]
  BY CountSplit
<1>4. f[s] \in Nat
  OBVIOUS
<1>5. QED
  BY <1>2, <1>3, <1>4

\* The tokens, when the positions of a list k stand for its elements.
ListCount(I, k, f, M) == {p \in I \X (1..M) : p[2] <= f[k[p[1]]]}

\* Counting over a list that names once every element that has something
\* counts the same: the pairs <<position, n>> and <<element, n>> correspond.
LEMMA CountByList ==
    ASSUME NEW S, IsFiniteSet(S), NEW M \in Nat, NEW f \in [S -> 0..M],
           NEW I, NEW k \in [I -> S],
           \A i, j \in I : k[i] = k[j] => i = j,
           \A s \in S : f[s] > 0 => \E i \in I : k[i] = s
    PROVE  Cardinality(ListCount(I, k, f, M)) = Cardinality(Count(S, f, M))
<1> DEFINE all == Count(S, f, M)
           listed == ListCount(I, k, f, M)
           position(s) == CHOOSE i \in I : k[i] = s
           toList == [p \in all |-> <<position(p[1]), p[2]>>]
<1>1. \A p \in all : /\ p[1] \in S /\ p[2] \in 1..M /\ p[2] <= f[p[1]]
                      /\ p = <<p[1], p[2]>>
  BY DEF Count
<1>2. \A p \in all : position(p[1]) \in I /\ k[position(p[1])] = p[1]
  <2>1. ASSUME NEW p \in all PROVE \E i \in I : k[i] = p[1]
    BY <1>1
  <2>2. QED
    BY <2>1
<1> HIDE DEF position
<1>3. toList \in [all -> listed]
  BY <1>1, <1>2 DEF ListCount
<1>4. \A p, q \in all : toList[p] = toList[q] => p = q
  BY <1>1, <1>2
<1>5. \A l \in listed : \E p \in all : toList[p] = l
  <2> SUFFICES ASSUME NEW l \in listed PROVE \E p \in all : toList[p] = l
    OBVIOUS
  <2>1. l = <<l[1], l[2]>> /\ l[1] \in I /\ l[2] \in 1..M /\ k[l[1]] \in S /\ l[2] <= f[k[l[1]]]
    BY DEF ListCount
  <2>2. <<k[l[1]], l[2]>> \in all
    BY <2>1 DEF Count
  <2>3. position(k[l[1]]) = l[1]
    BY <1>2, <2>1, <2>2
  <2>4. QED
    BY <2>1, <2>2, <2>3
<1>6. toList \in Bijection(all, listed)
  <2>1. DOMAIN toList = all
    OBVIOUS
  <2> HIDE DEF toList, all, listed
  <2>2. QED
    BY <1>3, <1>4, <1>5, <2>1 DEF Bijection, Injection, Surjection, IsInjective
<1>7. IsFiniteSet(all)
  BY CountFinite
<1>8. QED
  <2> HIDE DEF toList, all, listed
  <2>1. ExistsBijection(all, listed)
    BY <1>6 DEF ExistsBijection
  <2>2. Cardinality(listed) = Cardinality(all)
    BY <1>7, <2>1, FS_Bijection, Zenon
  <2>3. QED
    BY <2>2 DEF all, listed
=============================================================================
