----------------------------- MODULE LruPolicy -----------------------------
(***************************************************************************)
(* The baseline replacement policy of replacement/base_replacement.cc, on  *)
(* one set of a CACHE.  valid and lru map the ways 0 .. n - 1 of the set   *)
(* to the valid bit and to the lru counter of the block in that way; the   *)
(* counter 0 is the most recently used block.                              *)
(***************************************************************************)
EXTENDS Integers

\* Mutant: the search for the LRU block comes before the one for an invalid way.
lru_victimStale(n, valid, lru) ==
  CHOOSE way \in 0 .. n - 1 : lru[way] = n - 1

\* The way a new block goes to: the first invalid one, else the LRU one.
lru_victim(n, valid, lru) ==
  LET invalid == {way \in 0 .. n - 1 : ~valid[way]}
  IN  IF invalid # {}
      THEN CHOOSE way \in invalid : \A other \in invalid : way <= other
      ELSE CHOOSE way \in 0 .. n - 1 : lru[way] = n - 1

\* Mutant: no other block ages.
lru_updateNoAging(n, lru, way) == [lru EXCEPT ![way] = 0]

\* The block in way becomes the most recent; those that were more recent age.
lru_update(n, lru, way) ==
  [i \in 0 .. n - 1 |->
     IF i = way THEN 0 ELSE IF lru[i] < lru[way] THEN lru[i] + 1 ELSE lru[i]]

\* Every rank from most to least recent is held by exactly one way.
IsRanking(n, lru) ==
  /\ lru \in [0 .. n - 1 -> 0 .. n - 1]
  /\ \A i, j \in 0 .. n - 1 : lru[i] = lru[j] => i = j
  /\ \A rank \in 0 .. n - 1 : \E way \in 0 .. n - 1 : lru[way] = rank

=============================================================================
