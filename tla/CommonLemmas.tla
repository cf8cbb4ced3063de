---------------------------- MODULE CommonLemmas ----------------------------
(***************************************************************************)
(* Facts that the proofs of several components rest on: a linear search    *)
(* from the lowest index returns the least matching index, a finite set    *)
(* has an element of least value, a one-to-one image has the size of its   *)
(* domain, and the replacement policy keeps the ways of a set ranked and   *)
(* always finds a victim.                                                  *)
(***************************************************************************)
EXTENDS LruPolicy, FiniteSetTheorems, WellFoundedInduction, TLAPS

(***************************************************************************)
(* A nonempty set of natural numbers has a least element.                  *)
(***************************************************************************)
LEMMA NatLeast ==
  ASSUME NEW T \in SUBSET Nat, T # {}
  PROVE  \E n \in T : \A m \in T : n <= m
<1> DEFINE Less == {pair \in Nat \X Nat : pair[1] < pair[2]}
<1>1. IsWellFoundedOn(Less, Nat)
  BY NatLessThanWellFounded DEF OpToRel
<1>2. PICK n \in T : \A m \in T : ~(<<m, n>> \in Less)
  <2> HIDE DEF Less
  <2> QED
    BY <1>1, WFMin
<1>3. \A m \in T : ~(m < n)
  BY <1>2
<1> QED
  BY <1>3

(***************************************************************************)
(* A finite nonempty set has an element with the least integer value: one  *)
(* that the fewest others are below.                                       *)
(***************************************************************************)
LEMMA LeastValue ==
  ASSUME NEW S, IsFiniteSet(S), S # {}, NEW f \in [S -> Int]
  PROVE  \E i \in S : \A j \in S : f[i] <= f[j]
<1> DEFINE Below(i) == {j \in S : f[j] < f[i]}
           Counts == {Cardinality(Below(i)) : i \in S}
<1>1. ASSUME NEW i \in S
      PROVE  IsFiniteSet(Below(i)) /\ Cardinality(Below(i)) \in Nat
  BY FS_Subset, FS_CardinalityType
<1>2. Counts \in SUBSET Nat /\ Counts # {}
  BY <1>1
<1>3. PICK n \in Counts : \A m \in Counts : n <= m
  <2> HIDE DEF Counts
  <2> QED
    BY <1>2, NatLeast
<1>4. PICK i \in S : n = Cardinality(Below(i))
  BY <1>3
<1>5. ASSUME NEW j \in S, f[j] < f[i]
      PROVE  FALSE
  <2>1. Below(j) \in SUBSET Below(i)
    <3>1. ASSUME NEW k \in S, f[k] < f[j]
          PROVE  f[k] < f[i]
      BY <1>5, <3>1
    <3> QED
      BY <3>1
  <2>2. j \in Below(i) /\ j \notin Below(j)
    BY <1>5
  <2>3. Cardinality(Below(i)) <= Cardinality(Below(j))
    BY <1>3, <1>4
  <2> HIDE DEF Below
  <2>4. Cardinality(Below(j)) <= Cardinality(Below(i))
    BY <1>1, <2>1, FS_Subset
  <2>5. Cardinality(Below(j)) = Cardinality(Below(i))
    BY <1>1, <2>3, <2>4
  <2>6. Below(j) = Below(i)
    BY <1>1, <2>1, <2>5, FS_Subset
  <2> QED
    BY <2>2, <2>6
<1>6. \A j \in S : f[i] <= f[j]
  BY <1>5
<1> QED
  BY <1>6

(***************************************************************************)
(* The image of a finite set under a one-to-one function has its size.     *)
(***************************************************************************)
LEMMA ImageSize ==
  ASSUME NEW S, IsFiniteSet(S), NEW f,
         f = [x \in S |-> f[x]],
         \A x, y \in S : f[x] = f[y] => x = y
  PROVE  LET T == {f[x] : x \in S}
         IN  IsFiniteSet(T) /\ Cardinality(T) = Cardinality(S)
<1> DEFINE T == {f[x] : x \in S}
<1>1. f \in [S -> T]
  OBVIOUS
<1>2. f \in Surjection(S, T) /\ f \in Injection(S, T)
  BY <1>1 DEF Surjection, Injection, IsInjective
<1> QED
  BY <1>2, FS_Surjection

(***************************************************************************)
(* Promoting any way of a ranked set leaves the set ranked: the ranks      *)
(* below the promoted one move up by one, and rank 0 is free for it.       *)
(***************************************************************************)
LEMMA UpdateRanking ==
  ASSUME NEW n \in Nat \ {0}, NEW counters, IsRanking(n, counters),
         NEW way \in 0 .. n - 1
  PROVE  IsRanking(n, lru_update(n, counters, way))
<1> DEFINE new == lru_update(n, counters, way)
<1>0. \A i \in 0 .. n - 1 : counters[i] \in 0 .. n - 1
  BY DEF IsRanking
<1>1. new \in [0 .. n - 1 -> 0 .. n - 1]
  <2>1. ASSUME NEW i \in 0 .. n - 1
        PROVE  new[i] \in 0 .. n - 1
    <3>1. CASE i = way
      BY <3>1 DEF lru_update
    <3>2. CASE i # way /\ counters[i] < counters[way]
      <4>1. new[i] = counters[i] + 1
        BY <3>2 DEF lru_update
      <4> QED
        BY <1>0, <3>2, <4>1
    <3>3. CASE i # way /\ ~(counters[i] < counters[way])
      BY <1>0, <3>3 DEF lru_update
    <3> QED
      BY <3>1, <3>2, <3>3
  <2> QED
    BY <2>1 DEF lru_update
<1>2. ASSUME NEW i \in 0 .. n - 1, NEW j \in 0 .. n - 1, new[i] = new[j]
      PROVE  i = j
  <2>1. counters[i] = counters[j] => i = j
    BY DEF IsRanking
  <2>2. /\ counters[i] = counters[way] => i = way
        /\ counters[j] = counters[way] => j = way
    BY DEF IsRanking
  <2> QED
    BY <1>0, <1>2, <2>1, <2>2 DEF lru_update
<1>3. ASSUME NEW rank \in 0 .. n - 1
      PROVE  \E other \in 0 .. n - 1 : new[other] = rank
  <2>1. CASE rank = 0
    BY <2>1 DEF lru_update
  <2>2. CASE rank # 0 /\ rank <= counters[way]
    <3>1. PICK other \in 0 .. n - 1 : counters[other] = rank - 1
      BY <2>2 DEF IsRanking
    <3>2. other # way /\ counters[other] < counters[way]
      BY <1>0, <2>2, <3>1
    <3> QED
      BY <1>0, <2>2, <3>1, <3>2 DEF lru_update
  <2>3. CASE rank > counters[way]
    <3>1. PICK other \in 0 .. n - 1 : counters[other] = rank
      BY DEF IsRanking
    <3>2. other # way /\ ~(counters[other] < counters[way])
      BY <1>0, <2>3, <3>1
    <3> QED
      BY <3>1, <3>2 DEF lru_update
  <2>4. counters[way] \in 0 .. n - 1
    BY DEF IsRanking
  <2> QED
    BY <2>1, <2>2, <2>3, <2>4
<1> HIDE DEF new
<1>4. IsRanking(n, new)
  BY <1>1, <1>2, <1>3 DEF IsRanking
<1> QED
  BY <1>4 DEF new

(***************************************************************************)
(* lru_victim returns a way of the set: an invalid one if there is one,    *)
(* otherwise the way of the highest rank.  Its "no victim!" assert is out  *)
(* of reach.                                                               *)
(***************************************************************************)
LEMMA VictimExists ==
  ASSUME NEW n \in Nat \ {0}, NEW bits \in [0 .. n - 1 -> BOOLEAN],
         NEW counters, IsRanking(n, counters)
  PROVE  LET victim == lru_victim(n, bits, counters)
         IN  /\ victim \in 0 .. n - 1
             /\ \/ ~bits[victim]
                \/ counters[victim] = n - 1 /\ \A way \in 0 .. n - 1 : bits[way]
<1> DEFINE invalid == {way \in 0 .. n - 1 : ~bits[way]}
<1>1. CASE invalid # {}
  <2>1. PICK way \in invalid : \A other \in invalid : way <= other
    <3>1. invalid \in SUBSET Nat
      OBVIOUS
    <3> HIDE DEF invalid
    <3> QED
      BY <1>1, <3>1, NatLeast
  <2>2. lru_victim(n, bits, counters)
          = CHOOSE w \in invalid : \A other \in invalid : w <= other
    BY <1>1 DEF lru_victim
  <2>3. lru_victim(n, bits, counters) \in invalid
    <3> HIDE DEF invalid
    <3> QED
      BY <2>1, <2>2
  <2> QED
    BY <2>3
<1>2. CASE invalid = {}
  <2>1. lru_victim(n, bits, counters) = CHOOSE w \in 0 .. n - 1 : counters[w] = n - 1
    BY <1>2 DEF lru_victim
  <2>2. \E way \in 0 .. n - 1 : counters[way] = n - 1
    BY DEF IsRanking
  <2> QED
    BY <1>2, <2>1, <2>2
<1> QED
  BY <1>1, <1>2

=============================================================================
