-------------------------- MODULE CorrelationProofs --------------------------
(***************************************************************************)
(* Theorems about CorrelationTable, for every number of slots: its types,  *)
(* that the predictions of a call are distinct, and that the counters of a *)
(* list tell its entries apart.                                            *)
(***************************************************************************)
EXTENDS CorrelationHistory, WellFoundedInduction, TLAPS

\* What is invariant of the list of a page.
GoodList(list, page) ==
  /\ list \in Seq(Entries)
  /\ Len(list) <= S
  /\ \A i \in 1 .. Len(list) : list[i].address # page
  /\ \A i, j \in 1 .. Len(list) : list[i].address = list[j].address => i = j

\* What is invariant of its counters.
Ordered(list) ==
  /\ list # << >> => \E i \in 1 .. Len(list) : list[i].lru = 0
  /\ \A i, j \in 1 .. Len(list) : list[i].lru = list[j].lru /\ list[i].lru < S => i = j

(***************************************************************************)
(* The first of a nonempty set of indices is one of them.                  *)
(***************************************************************************)
LEMMA FirstOfIn ==
  ASSUME NEW n \in Nat, NEW indices \in SUBSET (1 .. n), indices # {}
  PROVE  FirstOf(indices) \in indices
<1> DEFINE Less == {pair \in Nat \X Nat : pair[1] < pair[2]}
<1>0. indices \in SUBSET Nat
  OBVIOUS
<1>1. IsWellFoundedOn(Less, Nat)
  BY NatLessThanWellFounded DEF OpToRel
<1>2. PICK i \in indices : \A j \in indices : ~(<<j, i>> \in Less)
  <2> HIDE DEF Less
  <2> QED
    BY <1>0, <1>1, WFMin
<1>3. \A j \in indices : ~(j < i)
  BY <1>0, <1>2
<1>4. \A j \in indices : i <= j
  BY <1>0, <1>3
<1> QED
  BY <1>4 DEF FirstOf

(***************************************************************************)
(* lru_update changes counters only.                                       *)
(***************************************************************************)
LEMMA UpdateKeeps ==
  ASSUME NEW list \in Seq(Entries), NEW index \in 1 .. Len(list)
  PROVE  LET new == lru_update(list, index)
         IN  /\ new \in Seq(Entries)
             /\ Len(new) = Len(list)
             /\ \A i \in 1 .. Len(list) :
                  /\ new[i].address = list[i].address
                  /\ new[i].lru = IF i = index THEN 0 ELSE Incremented(list[i].lru)
<1> DEFINE new == lru_update(list, index)
<1>1. \A i \in 1 .. Len(list) : list[i] \in Entries
  OBVIOUS
<1>2. \A i \in 1 .. Len(list) :
        new[i] = [list[i] EXCEPT !.lru = IF i = index THEN 0 ELSE Incremented(list[i].lru)]
  BY DEF lru_update
<1>3. \A i \in 1 .. Len(list) :
        /\ new[i] \in Entries
        /\ new[i].address = list[i].address
        /\ new[i].lru = IF i = index THEN 0 ELSE Incremented(list[i].lru)
  <2> TAKE i \in 1 .. Len(list)
  <2> DEFINE count == IF i = index THEN 0 ELSE Incremented(list[i].lru)
  <2>1. list[i] = [address |-> list[i].address, lru |-> list[i].lru]
        /\ list[i].address \in Pages /\ list[i].lru \in 0 .. S
    BY <1>1 DEF Entries
  <2>2. count \in 0 .. S
    BY <2>1, SlotsAssumption DEF Incremented
  <2>3. new[i] = [list[i] EXCEPT !.lru = count]
    BY <1>2
  <2> HIDE DEF count, new
  <2>4. new[i] = [address |-> list[i].address, lru |-> count]
    BY <2>1, <2>3
  <2>5. new[i] \in Entries
    BY <2>1, <2>2, <2>4 DEF Entries
  <2> QED
    BY <2>4, <2>5 DEF count
<1>4. new \in Seq(Entries) /\ Len(new) = Len(list)
  <2>1. Len(list) \in Nat
    OBVIOUS
  <2>2. new = [i \in 1 .. Len(list) |-> new[i]]
    BY DEF lru_update
  <2> HIDE DEF new
  <2> QED
    BY <1>3, <2>1, <2>2
<1> QED
  BY <1>3, <1>4

(***************************************************************************)
(* lru_update makes exactly one entry the most recent and keeps apart the  *)
(* counters that were, so it establishes the order even when the entry it  *)
(* promotes was not in order before.                                       *)
(***************************************************************************)
LEMMA UpdateOrders ==
  ASSUME NEW list \in Seq(Entries), NEW index \in 1 .. Len(list),
         \A i, j \in (1 .. Len(list)) \ {index} :
           list[i].lru = list[j].lru /\ list[i].lru < S => i = j
  PROVE  Ordered(lru_update(list, index))
<1> DEFINE new == lru_update(list, index)
<1>1. /\ Len(new) = Len(list)
      /\ new[index].lru = 0
      /\ \A i \in (1 .. Len(list)) \ {index} : new[i].lru = Incremented(list[i].lru)
  BY UpdateKeeps
<1>2. \A i \in 1 .. Len(list) : list[i].lru \in 0 .. S
  <2>1. \A i \in 1 .. Len(list) : list[i] \in Entries
    OBVIOUS
  <2> QED
    BY <2>1 DEF Entries
<1> HIDE DEF new
<1>3. \A i \in (1 .. Len(list)) \ {index} :
        /\ new[i].lru \in 1 .. S
        /\ new[i].lru < S => list[i].lru = new[i].lru - 1
  BY <1>1, <1>2, SlotsAssumption DEF Incremented
<1>4. ASSUME NEW i \in 1 .. Len(list), NEW j \in 1 .. Len(list),
             new[i].lru = new[j].lru, new[i].lru < S
      PROVE  i = j
  <2>1. CASE i = index
    BY <1>1, <1>3, <1>4, <2>1
  <2>2. CASE j = index
    BY <1>1, <1>3, <1>4, <2>2
  <2>3. CASE i # index /\ j # index
    <3>1. /\ list[i].lru = new[i].lru - 1
          /\ list[j].lru = new[j].lru - 1
          /\ new[i].lru \in 1 .. S
      BY <1>3, <1>4, <2>3
    <3>2. list[i].lru = list[j].lru /\ list[i].lru < S
      BY <1>4, <3>1, SlotsAssumption
    <3> QED
      BY <2>3, <3>2
  <2> QED
    BY <2>1, <2>2, <2>3
<1> QED
  BY <1>1, <1>4 DEF Ordered, new

(***************************************************************************)
(* Promotion keeps a list good and in order.                               *)
(***************************************************************************)
LEMMA PromotionGood ==
  ASSUME NEW list, NEW page, NEW index \in 1 .. Len(list),
         GoodList(list, page), Ordered(list)
  PROVE  GoodList(lru_update(list, index), page) /\ Ordered(lru_update(list, index))
<1>1. list \in Seq(Entries)
  BY DEF GoodList
<1>2. GoodList(lru_update(list, index), page)
  <2> DEFINE new == lru_update(list, index)
  <2>1. /\ new \in Seq(Entries)
        /\ Len(new) = Len(list)
        /\ \A i \in 1 .. Len(list) : new[i].address = list[i].address
    BY <1>1, UpdateKeeps
  <2> HIDE DEF new
  <2> QED
    BY <2>1 DEF GoodList, new
<1>3. \A i, j \in (1 .. Len(list)) \ {index} :
        list[i].lru = list[j].lru /\ list[i].lru < S => i = j
  BY DEF Ordered
<1> QED
  BY <1>1, <1>2, <1>3, UpdateOrders

(***************************************************************************)
(* A new entry keeps a list good and in order.                             *)
(***************************************************************************)
LEMMA PushGood ==
  ASSUME NEW list, NEW page, NEW q \in Pages, q # page,
         GoodList(list, page), Ordered(list), Len(list) < S,
         \A i \in 1 .. Len(list) : list[i].address # q
  PROVE  LET longer == Append(list, [address |-> q, lru |-> 0])
         IN  /\ GoodList(lru_update(longer, Len(list) + 1), page)
             /\ Ordered(lru_update(longer, Len(list) + 1))
<1> DEFINE entry == [address |-> q, lru |-> 0]
           longer == Append(list, entry)
           new == lru_update(longer, Len(list) + 1)
<1>1. list \in Seq(Entries) /\ Len(list) \in Nat
  BY DEF GoodList
<1>2. entry \in Entries /\ entry.address = q
  BY SlotsAssumption DEF Entries
<1> HIDE DEF entry
<1>3. /\ longer \in Seq(Entries)
      /\ Len(longer) = Len(list) + 1
      /\ \A i \in 1 .. Len(list) : longer[i] = list[i]
      /\ longer[Len(list) + 1] = entry
  BY <1>1, <1>2
<1> HIDE DEF longer
<1>4. /\ new \in Seq(Entries)
      /\ Len(new) = Len(longer)
      /\ \A i \in 1 .. Len(longer) : new[i].address = longer[i].address
  <2>1. Len(list) + 1 \in 1 .. Len(longer)
    BY <1>1, <1>3
  <2> QED
    BY <1>3, <2>1, UpdateKeeps
<1>5. \A i, j \in (1 .. Len(longer)) \ {Len(list) + 1} :
        longer[i].lru = longer[j].lru /\ longer[i].lru < S => i = j
  <2>1. (1 .. Len(longer)) \ {Len(list) + 1} = 1 .. Len(list)
    BY <1>1, <1>3
  <2> QED
    BY <1>3, <2>1 DEF Ordered
<1>6. Ordered(new)
  <2>1. Len(list) + 1 \in 1 .. Len(longer)
    BY <1>1, <1>3
  <2> QED
    BY <1>3, <1>5, <2>1, UpdateOrders
<1> HIDE DEF new
<1>7. \A i \in 1 .. Len(new) :
        new[i].address = IF i = Len(list) + 1 THEN q ELSE list[i].address
  BY <1>1, <1>2, <1>3, <1>4
<1>8. GoodList(new, page)
  <2>1. Len(new) = Len(list) + 1 /\ Len(new) <= S
    BY <1>1, <1>3, <1>4, SlotsAssumption
  <2> QED
    BY <1>1, <1>4, <1>7, <2>1 DEF GoodList
<1> QED
  BY <1>6, <1>8 DEF new, longer, entry

(***************************************************************************)
(* Replacing the address of an entry keeps a list good and in order.       *)
(***************************************************************************)
LEMMA ReplaceGood ==
  ASSUME NEW list, NEW page, NEW q \in Pages, q # page,
         GoodList(list, page), Ordered(list), NEW index \in 1 .. Len(list),
         \A i \in 1 .. Len(list) : list[i].address # q
  PROVE  LET other == [list EXCEPT ![index].address = q]
         IN  GoodList(lru_update(other, index), page) /\ Ordered(lru_update(other, index))
<1> DEFINE other == [list EXCEPT ![index].address = q]
           entry == [list[index] EXCEPT !.address = q]
<1>1. list \in Seq(Entries) /\ Len(list) \in Nat /\ list[index] \in Entries
  BY DEF GoodList
<1>2. entry \in Entries /\ entry.address = q /\ entry.lru = list[index].lru
  <2>1. list[index] = [address |-> list[index].address, lru |-> list[index].lru]
        /\ list[index].lru \in 0 .. S
    BY <1>1 DEF Entries
  <2>2. entry = [address |-> q, lru |-> list[index].lru]
    BY <2>1
  <2> HIDE DEF entry
  <2> QED
    BY <2>1, <2>2 DEF Entries
<1>3. other = [list EXCEPT ![index] = entry]
  OBVIOUS
<1> HIDE DEF entry, other
<1>4. /\ other \in Seq(Entries)
      /\ Len(other) = Len(list)
      /\ \A i \in 1 .. Len(list) : other[i] = IF i = index THEN entry ELSE list[i]
  BY <1>1, <1>2, <1>3
<1>5. GoodList(other, page)
  BY <1>2, <1>4 DEF GoodList
<1>6. Ordered(other)
  <2>1. \A i \in 1 .. Len(list) : other[i].lru = list[i].lru
    BY <1>2, <1>4
  <2>2. list # << >> /\ other # << >>
    BY <1>1, <1>4
  <2> QED
    BY <1>4, <2>1, <2>2 DEF Ordered
<1> QED
  BY <1>4, <1>5, <1>6, PromotionGood DEF other

(***************************************************************************)
(* Whatever is learnt, a list stays good and in order.                     *)
(***************************************************************************)
LEMMA LearningGood ==
  ASSUME NEW list, NEW page, NEW q \in Pages, q # page, GoodList(list, page), Ordered(list)
  PROVE  /\ GoodList(update_prev_correlation(list, q), page)
         /\ Ordered(update_prev_correlation(list, q))
<1> DEFINE exists == {i \in 1 .. Len(list) : list[i].address = q}
           victims == lru_evict(list)
<1>1. list \in Seq(Entries) /\ Len(list) \in Nat
  BY DEF GoodList
<1>2. CASE exists # {}
  <2>1. FirstOf(exists) \in 1 .. Len(list)
    BY <1>1, <1>2, FirstOfIn
  <2>2. update_prev_correlation(list, q) = lru_update(list, FirstOf(exists))
    BY <1>2 DEF update_prev_correlation
  <2> QED
    BY <2>1, <2>2, PromotionGood
<1>3. CASE exists = {} /\ Len(list) < S
  <2>1. \A i \in 1 .. Len(list) : list[i].address # q
    BY <1>3
  <2>2. update_prev_correlation(list, q)
          = lru_update(Append(list, [address |-> q, lru |-> 0]), Len(list) + 1)
    BY <1>3 DEF update_prev_correlation
  <2> QED
    BY <1>3, <2>1, <2>2, PushGood
<1>4. CASE exists = {} /\ ~(Len(list) < S) /\ victims # {}
  <2>1. \A i \in 1 .. Len(list) : list[i].address # q
    BY <1>4
  <2>2. FirstOf(victims) \in 1 .. Len(list)
    BY <1>1, <1>4, FirstOfIn DEF lru_evict
  <2>3. update_prev_correlation(list, q)
          = lru_update([list EXCEPT ![FirstOf(victims)].address = q], FirstOf(victims))
    BY <1>4 DEF update_prev_correlation
  <2> HIDE DEF victims
  <2> QED
    BY <2>1, <2>2, <2>3, ReplaceGood
<1>5. CASE exists = {} /\ ~(Len(list) < S) /\ victims = {}
  <2>1. 1 \in 1 .. Len(list)
    BY <1>1, <1>5, SlotsAssumption
  <2>2. update_prev_correlation(list, q) = lru_update(list, 1)
    BY <1>5 DEF update_prev_correlation
  <2> QED
    BY <2>1, <2>2, PromotionGood
<1> QED
  BY <1>2, <1>3, <1>4, <1>5

\* The inductive invariant: every list is good and in order.
IInv ==
  /\ last_accessed_page \in [Pcs -> Pages \cup {0}]
  /\ DOMAIN corr_map = Pcs
  /\ \A pc \in Pcs : /\ corr_map[pc] = [page \in Pages \cup {0} |-> corr_map[pc][page]]
                     /\ \A page \in Pages \cup {0} : /\ GoodList(corr_map[pc][page], page)
                                                     /\ Ordered(corr_map[pc][page])

(***************************************************************************)
(* The empty tables satisfy the invariant.                                 *)
(***************************************************************************)
LEMMA InitInvariant == Init => IInv
<1>1. \A page : GoodList(<< >>, page)
  BY SlotsAssumption DEF GoodList
<1>2. Ordered(<< >>)
  BY DEF Ordered
<1> QED
  BY <1>1, <1>2 DEF Init, IInv

(***************************************************************************)
(* An access preserves the invariant.                                      *)
(***************************************************************************)
LEMMA StepInvariant == IInv /\ [Next]_vars => IInv'
<1> SUFFICES ASSUME IInv, [Next]_vars PROVE IInv'
  OBVIOUS
<1>1. CASE UNCHANGED vars
  BY <1>1 DEF IInv, vars
<1>2. ASSUME NEW pc \in Pcs, NEW q \in Pages, find_prefetch_addrs(pc, q)
      PROVE  IInv'
  <2> DEFINE page == last_accessed_page[pc]
             list == corr_map[pc][page]
  <2>1. last_accessed_page' \in [Pcs -> Pages \cup {0}] /\ page \in Pages \cup {0}
    BY <1>2 DEF IInv, find_prefetch_addrs
  <2>2. CASE q = page
    BY <1>2, <2>1, <2>2 DEF IInv, find_prefetch_addrs
  <2>3. CASE q # page
    <3> DEFINE learnt == update_prev_correlation(list, q)
    <3>1. GoodList(learnt, page) /\ Ordered(learnt)
      BY <2>1, <2>3, LearningGood DEF IInv
    <3>2. corr_map' = [corr_map EXCEPT ![pc][page] = learnt]
      BY <1>2, <2>3 DEF find_prefetch_addrs
    <3> HIDE DEF learnt, page
    <3>3. DOMAIN corr_map' = Pcs
      BY <3>2 DEF IInv
    <3>4. \A p \in Pcs : /\ DOMAIN corr_map'[p] = Pages \cup {0}
                         /\ corr_map'[p] = [r \in Pages \cup {0} |-> corr_map'[p][r]]
      BY <3>2 DEF IInv
    <3>5. \A p \in Pcs, r \in Pages \cup {0} :
            corr_map'[p][r] = IF p = pc /\ r = page THEN learnt ELSE corr_map[p][r]
      BY <2>1, <3>2 DEF IInv
    <3>6. \A p \in Pcs, r \in Pages \cup {0} :
            GoodList(corr_map'[p][r], r) /\ Ordered(corr_map'[p][r])
      BY <3>1, <3>5 DEF IInv
    <3> QED
      BY <2>1, <3>3, <3>4, <3>6 DEF IInv
  <2> QED
    BY <2>2, <2>3
<1> QED
  BY <1>1, <1>2 DEF Next

(***************************************************************************)
(* The invariant implies the three properties.                             *)
(***************************************************************************)
LEMMA InvariantImplies == IInv => TypeOK /\ DistinctPredictions /\ RecencyOrder
<1> SUFFICES ASSUME IInv PROVE TypeOK /\ DistinctPredictions /\ RecencyOrder
  OBVIOUS
<1>1. TypeOK
  BY DEF IInv, TypeOK, GoodList
<1>2. DistinctPredictions
  <2> SUFFICES ASSUME NEW pc \in Pcs, NEW page \in Pages \cup {0}
               PROVE  /\ IsInjective(freq_to_addresses(pc, page))
                      /\ page \notin Range(freq_to_addresses(pc, page))
    BY DEF DistinctPredictions
  <2> DEFINE list == corr_map[pc][page]
             addrs == freq_to_addresses(pc, page)
  <2>1. GoodList(list, page)
    BY DEF IInv
  <2>2. DOMAIN addrs = 1 .. Len(list) /\ \A i \in 1 .. Len(list) : addrs[i] = list[i].address
    BY DEF freq_to_addresses
  <2> HIDE DEF addrs, list
  <2>3. IsInjective(addrs) /\ page \notin Range(addrs)
    BY <2>1, <2>2 DEF IsInjective, Range, GoodList
  <2> QED
    BY <2>3 DEF addrs
<1>3. RecencyOrder
  BY DEF IInv, RecencyOrder, Ordered
<1> QED
  BY <1>1, <1>2, <1>3

(***************************************************************************)
(* For every number of slots, the lists of the address-correlating         *)
(* prefetchers name distinct pages, never the page itself, and their       *)
(* counters tell their entries apart, through pushes, replacements and     *)
(* replacements that find no victim.                                       *)
(***************************************************************************)
THEOREM CorrelationCorrect == Spec => [](TypeOK /\ DistinctPredictions /\ RecencyOrder)
<1>1. Spec => []IInv
  BY InitInvariant, StepInvariant, PTL DEF Spec
<1> QED
  BY <1>1, InvariantImplies, PTL

(***************************************************************************)
(* The counters alone: no list ever has two entries that are equally       *)
(* recent, short of the bound, so lru_evict never has a choice.            *)
(***************************************************************************)
THEOREM CorrelationRecency == Spec => []RecencyOrder
BY CorrelationCorrect, PTL

(***************************************************************************)
(* The types: no list outgrows its S slots, though a push is guarded by    *)
(* the size of the list before it only.                                    *)
(***************************************************************************)
THEOREM CorrelationTypeOK == Spec => []TypeOK
BY CorrelationCorrect, PTL
-----------------------------------------------------------------------------
(***************************************************************************)
(* Why the lists are managed with LRU while their history is orderly: the  *)
(* counters are then the ranks in the history.                             *)
(***************************************************************************)
Ranked(list, recent) ==
  /\ recent \in Seq(Pages) /\ Len(recent) = Len(list)
  /\ \A i \in 1 .. Len(list) :
       /\ list[i].lru + 1 \in 1 .. Len(list)
       /\ list[i].address = recent[list[i].lru + 1]
  /\ \A rank \in 0 .. Len(list) - 1 : \E i \in 1 .. Len(list) : list[i].lru = rank

\* The entry at index is for the page that follows, the others have the ranks but the last.
Promotable(list, recent, q, index) ==
  /\ list \in Seq(Entries) /\ recent \in Seq(Pages)
  /\ Len(list) <= S /\ Len(list) - 1 <= Len(recent)
  /\ Staying(recent, q) = Len(list) - 1
  /\ index \in 1 .. Len(list) /\ list[index].address = q
  /\ \A i \in (1 .. Len(list)) \ {index} :
       /\ list[i].lru + 1 \in 1 .. Len(list) - 1
       /\ list[i].address = recent[list[i].lru + 1]
  /\ \A rank \in 0 .. Len(list) - 2 :
       \E i \in (1 .. Len(list)) \ {index} : list[i].lru = rank

(***************************************************************************)
(* Once the entry at index is promoted, the history ranks the list.        *)
(***************************************************************************)
LEMMA PromotionRanks ==
  ASSUME NEW list, NEW recent, NEW q \in Pages, NEW index, Promotable(list, recent, q, index)
  PROVE  Ranked(lru_update(list, index), Newest(recent, q))
<1> DEFINE n == Len(list)
           new == lru_update(list, index)
           newest == Newest(recent, q)
<1>0. /\ list \in Seq(Entries) /\ recent \in Seq(Pages) /\ n \in Nat /\ Len(recent) \in Nat
      /\ n <= S /\ n - 1 <= Len(recent) /\ Staying(recent, q) = n - 1
      /\ index \in 1 .. n /\ list[index].address = q
      /\ \A i \in (1 .. n) \ {index} :
           list[i].lru + 1 \in 1 .. n - 1 /\ list[i].address = recent[list[i].lru + 1]
      /\ \A rank \in 0 .. n - 2 : \E i \in (1 .. n) \ {index} : list[i].lru = rank
  <2>1. /\ list \in Seq(Entries) /\ recent \in Seq(Pages)
        /\ n <= S /\ n - 1 <= Len(recent) /\ Staying(recent, q) = n - 1
        /\ index \in 1 .. n /\ list[index].address = q
        /\ \A i \in (1 .. n) \ {index} :
             list[i].lru + 1 \in 1 .. n - 1 /\ list[i].address = recent[list[i].lru + 1]
        /\ \A rank \in 0 .. n - 2 : \E i \in (1 .. n) \ {index} : list[i].lru = rank
    BY Zenon DEF Promotable
  <2>2. n \in Nat
    BY <2>1
  <2>3. Len(recent) \in Nat
    BY <2>1
  <2> QED
    BY <2>1, <2>2, <2>3, Zenon
<1>1. /\ Len(new) = n
      /\ \A i \in 1 .. n : /\ new[i].address = list[i].address
                           /\ new[i].lru = IF i = index THEN 0 ELSE Incremented(list[i].lru)
  BY <1>0, UpdateKeeps
<1>2. newest = [k \in 1 .. n |-> IF k = 1 THEN q ELSE recent[k - 1]]
  BY <1>0 DEF Newest
<1>3. newest \in Seq(Pages) /\ Len(newest) = n
  <2>1. \A k \in 2 .. n : recent[k - 1] \in Pages
    BY <1>0
  <2>2. \A k \in 1 .. n : newest[k] \in Pages
    BY <1>2, <2>1
  <2> HIDE DEF newest
  <2> QED
    BY <1>2, <2>2
<1> HIDE DEF new, newest, n
<1>4. \A i \in (1 .. n) \ {index} :
        list[i].lru \in Nat /\ new[i].lru = list[i].lru + 1 /\ list[i].lru + 2 \in 2 .. n
  <2>1. \A i \in 1 .. n : list[i].lru \in 0 .. S
    <3>1. \A i \in 1 .. n : list[i] \in Entries
      BY <1>0 DEF n
    <3> QED
      BY <3>1 DEF Entries
  <2> TAKE i \in (1 .. n) \ {index}
  <2>2. list[i].lru \in Int /\ list[i].lru + 1 \in 1 .. n - 1 /\ n <= S /\ n \in Nat
    BY <1>0, <2>1
  <2>3. new[i].lru = Incremented(list[i].lru)
    BY <1>1
  <2> QED
    BY <2>2, <2>3, SlotsAssumption DEF Incremented
<1>5. \A i \in 1 .. n : new[i].lru + 1 \in 1 .. n /\ new[i].address = newest[new[i].lru + 1]
  <2>1. CASE n > 0
    <3>1. new[index].lru + 1 = 1 /\ new[index].address = q /\ newest[1] = q
      BY <1>0, <1>1, <1>2, <2>1
    <3>2. ASSUME NEW i \in (1 .. n) \ {index}
          PROVE  new[i].lru + 1 \in 1 .. n /\ new[i].address = newest[new[i].lru + 1]
      <4> DEFINE k == list[i].lru + 2
      <4>1. new[i].lru + 1 = k /\ k \in 1 .. n /\ k # 1 /\ k - 1 = list[i].lru + 1
        <5>1. list[i].lru \in Nat /\ new[i].lru = list[i].lru + 1 /\ list[i].lru + 2 \in 2 .. n
          BY <1>4
        <5>2. n \in Nat
          BY <1>0
        <5> QED
          BY <5>1, <5>2
      <4> HIDE DEF k
      <4>2. newest[k] = recent[k - 1]
        BY <1>2, <4>1
      <4> QED
        BY <1>0, <1>1, <4>1, <4>2
    <3> QED
      BY <1>0, <2>1, <3>1, <3>2
  <2> QED
    BY <1>0, <2>1
<1>6. \A rank \in 0 .. n - 1 : \E i \in 1 .. n : new[i].lru = rank
  <2> TAKE rank \in 0 .. n - 1
  <2>1. CASE rank = 0
    BY <1>0, <1>1, <2>1
  <2>2. CASE rank # 0
    <3>1. rank - 1 \in 0 .. n - 2 /\ rank - 1 + 1 = rank
      BY <1>0, <2>2
    <3>2. PICK i \in (1 .. n) \ {index} : list[i].lru = rank - 1
      BY <1>0, <3>1
    <3> QED
      BY <1>4, <3>1, <3>2
  <2> QED
    BY <2>1, <2>2
<1> QED
  BY <1>1, <1>3, <1>5, <1>6 DEF Ranked, new, newest, n

(***************************************************************************)
(* Only the entry of the last rank has it.                                 *)
(***************************************************************************)
LEMMA LastRank ==
  ASSUME NEW page, NEW list, GoodList(list, page), Ordered(list), NEW recent,
         Ranked(list, recent), NEW index \in 1 .. Len(list), list[index].lru = Len(list) - 1
  PROVE  /\ \A i \in (1 .. Len(list)) \ {index} : list[i].lru + 1 \in 1 .. Len(list) - 1
         /\ \A rank \in 0 .. Len(list) - 2 :
              \E i \in (1 .. Len(list)) \ {index} : list[i].lru = rank
<1>1. Len(list) \in Nat /\ Len(list) <= S
  BY DEF GoodList
<1>2. \A i \in 1 .. Len(list) : list[i].lru \in Nat
  <2>1. \A i \in 1 .. Len(list) : list[i] \in Entries
    BY DEF GoodList
  <2> QED
    BY <2>1, SlotsAssumption DEF Entries
<1>3. \A i \in (1 .. Len(list)) \ {index} : list[i].lru # Len(list) - 1
  BY <1>1, <1>2, SlotsAssumption DEF Ordered
<1>4. \A i \in 1 .. Len(list) : list[i].lru + 1 \in 1 .. Len(list)
  BY DEF Ranked
<1>5. \A rank \in 0 .. Len(list) - 2 : \E i \in (1 .. Len(list)) \ {index} : list[i].lru = rank
  <2> TAKE rank \in 0 .. Len(list) - 2
  <2>1. PICK i \in 1 .. Len(list) : list[i].lru = rank
    BY <1>1 DEF Ranked
  <2> QED
    BY <1>1, <2>1
<1> QED
  BY <1>1, <1>2, <1>3, <1>4, <1>5

(***************************************************************************)
(* Whatever follows in order, the list stays ranked by its history: an     *)
(* entry that is used was the last, one that is pushed comes before all,   *)
(* and one that is replaced was the last.                                  *)
(***************************************************************************)
LEMMA LearningRanked ==
  ASSUME NEW page, NEW list, NEW recent, NEW q \in Pages, GoodList(list, page), Ordered(list),
         Ranked(list, recent), ~ComesEarly(recent, q)
  PROVE  Ranked(update_prev_correlation(list, q), Newest(recent, q))
<1> DEFINE exists == {i \in 1 .. Len(list) : list[i].address = q}
           victims == lru_evict(list)
           n == Len(list)
<1>1. /\ list \in Seq(Entries) /\ n \in Nat /\ n <= S
      /\ recent \in Seq(Pages) /\ Len(recent) = n
  BY DEF GoodList, Ranked
<1>2. \A i \in 1 .. n : /\ list[i].lru + 1 \in 1 .. n /\ list[i].lru \in Nat
                        /\ list[i].address = recent[list[i].lru + 1]
  <2>1. \A i \in 1 .. n : list[i] \in Entries
    BY <1>1
  <2>2. \A i \in 1 .. n : list[i].lru \in Nat
    BY <2>1, SlotsAssumption DEF Entries
  <2> QED
    BY <2>2 DEF Ranked
<1>3. CASE exists # {}
  <2> DEFINE index == FirstOf(exists)
  <2>1. index \in 1 .. n /\ list[index].address = q
    <3>1. index \in exists
      BY <1>1, <1>3, FirstOfIn
    <3> QED
      BY <3>1
  <2>2. update_prev_correlation(list, q) = lru_update(list, index)
    BY <1>3 DEF update_prev_correlation
  <2> HIDE DEF index
  <2>3. list[index].lru = n - 1 /\ recent[n] = q
    <3>1. list[index].lru + 1 \notin 1 .. n - 1
      BY <1>1, <1>2, <2>1 DEF ComesEarly
    <3>2. list[index].lru + 1 = n
      BY <1>1, <1>2, <2>1, <3>1
    <3> QED
      BY <1>1, <1>2, <2>1, <3>2
  <2>4. Staying(recent, q) = n - 1
    BY <1>1, <2>1, <2>3 DEF Staying
  <2> HIDE DEF exists
  <2>5. /\ \A i \in (1 .. n) \ {index} : list[i].lru + 1 \in 1 .. n - 1
        /\ \A rank \in 0 .. n - 2 : \E i \in (1 .. n) \ {index} : list[i].lru = rank
    BY <2>1, <2>3, LastRank
  <2>6. \A i \in (1 .. n) \ {index} :
          list[i].lru + 1 \in 1 .. n - 1 /\ list[i].address = recent[list[i].lru + 1]
    BY <1>2, <2>5
  <2>7. Promotable(list, recent, q, index)
    BY <1>1, <2>1, <2>4, <2>5, <2>6 DEF Promotable
  <2> QED
    BY <2>2, <2>7, PromotionRanks
<1>4. CASE exists = {} /\ Len(list) < S
  <2> DEFINE entry == [address |-> q, lru |-> 0]
             longer == Append(list, entry)
  <2>1. update_prev_correlation(list, q) = lru_update(longer, n + 1)
    BY <1>4 DEF update_prev_correlation
  <2>2. entry \in Entries /\ entry.address = q
    BY SlotsAssumption DEF Entries
  <2> HIDE DEF entry
  <2>3. /\ longer \in Seq(Entries) /\ Len(longer) = n + 1
        /\ \A i \in 1 .. n : longer[i] = list[i]
        /\ longer[n + 1] = entry
    BY <1>1, <2>2
  <2> HIDE DEF longer
  <2>4. Staying(recent, q) = n
    <3>1. ASSUME n > 0
          PROVE  recent[n] # q
      <4>1. PICK i \in 1 .. n : list[i].lru = n - 1
        BY <1>1, <3>1 DEF Ranked
      <4>2. list[i].address = recent[n]
        BY <1>1, <1>2, <4>1
      <4> QED
        BY <1>4, <4>2
    <3> QED
      BY <1>1, <1>4, <3>1 DEF Staying
  <2> DEFINE m == n + 1
  <2>5. /\ (1 .. m) \ {m} = 1 .. n /\ m \in 1 .. m /\ m - 1 = n /\ m - 2 = n - 1
        /\ m <= S /\ m - 1 <= Len(recent)
    BY <1>1, <1>4, SlotsAssumption
  <2>6. /\ \A i \in 1 .. n : /\ longer[i].lru + 1 \in 1 .. n
                             /\ longer[i].address = recent[longer[i].lru + 1]
        /\ \A rank \in 0 .. n - 1 : \E i \in 1 .. n : longer[i].lru = rank
    BY <1>2, <2>3 DEF Ranked
  <2>7. /\ update_prev_correlation(list, q) = lru_update(longer, m)
        /\ m = Len(longer) /\ Staying(recent, q) = m - 1 /\ longer[m].address = q
    BY <2>1, <2>2, <2>3, <2>4, <2>5
  <2> HIDE DEF n, m
  <2>8. /\ \A i \in (1 .. m) \ {m} :
             longer[i].lru + 1 \in 1 .. m - 1 /\ longer[i].address = recent[longer[i].lru + 1]
        /\ \A rank \in 0 .. m - 2 : \E i \in (1 .. m) \ {m} : longer[i].lru = rank
    BY <2>5, <2>6
  <2>9. Promotable(longer, recent, q, m)
    BY <1>1, <2>3, <2>5, <2>7, <2>8 DEF Promotable
  <2> QED
    BY <2>7, <2>9, PromotionRanks
<1>5. CASE exists = {} /\ ~(Len(list) < S)
  <2> DEFINE index == FirstOf(victims)
             other == [list EXCEPT ![index].address = q]
  <2>1. n = S
    BY <1>1, <1>5, SlotsAssumption
  <2>2. victims # {}
    BY <2>1, SlotsAssumption DEF Ranked, lru_evict
  <2>3. index \in 1 .. n /\ list[index].lru = n - 1
    <3>1. index \in victims
      BY <1>1, <2>2, FirstOfIn DEF lru_evict
    <3> QED
      BY <2>1, <3>1 DEF lru_evict
  <2>4. update_prev_correlation(list, q) = lru_update(other, index)
    BY <1>5, <2>2 DEF update_prev_correlation
  <2> HIDE DEF index, victims
  <2>5. /\ \A i \in (1 .. n) \ {index} : list[i].lru + 1 \in 1 .. n - 1
        /\ \A rank \in 0 .. n - 2 : \E i \in (1 .. n) \ {index} : list[i].lru = rank
    BY <2>3, LastRank
  <2>6. /\ other \in Seq(Entries) /\ Len(other) = n /\ other[index].address = q
        /\ \A i \in (1 .. n) \ {index} : other[i] = list[i]
    <3> DEFINE entry == [list[index] EXCEPT !.address = q]
    <3>1. entry \in Entries /\ entry.address = q
      <4>1. list[index] \in Entries
        BY <1>1, <2>3
      <4>2. list[index] = [address |-> list[index].address, lru |-> list[index].lru]
            /\ list[index].lru \in 0 .. S
        BY <4>1 DEF Entries
      <4>3. entry = [address |-> q, lru |-> list[index].lru]
        BY <4>2
      <4> HIDE DEF entry
      <4> QED
        BY <4>2, <4>3 DEF Entries
    <3>2. other = [list EXCEPT ![index] = entry]
      OBVIOUS
    <3> HIDE DEF entry, other
    <3> QED
      BY <1>1, <2>3, <3>1, <3>2
  <2>7. Staying(recent, q) = n - 1
    BY <1>1, <2>1 DEF Staying
  <2> HIDE DEF other
  <2>8. /\ \A i \in (1 .. n) \ {index} : /\ other[i].lru + 1 \in 1 .. n - 1
                                         /\ other[i].address = recent[other[i].lru + 1]
        /\ \A rank \in 0 .. n - 2 : \E i \in (1 .. n) \ {index} : other[i].lru = rank
    BY <1>2, <2>5, <2>6
  <2>9. n - 1 <= Len(recent) /\ n = Len(other)
    BY <1>1, <2>6
  <2> HIDE DEF n
  <2>10. Promotable(other, recent, q, index)
    BY <1>1, <2>3, <2>6, <2>7, <2>8, <2>9 DEF Promotable
  <2> QED
    BY <2>4, <2>10, PromotionRanks
<1> QED
  BY <1>3, <1>4, <1>5

\* The inductive invariant with the history.
RecordedInv ==
  /\ IInv
  /\ orderly \in [Pcs -> [Pages \cup {0} -> BOOLEAN]]
  /\ DOMAIN followers = Pcs /\ \A pc \in Pcs : DOMAIN followers[pc] = Pages \cup {0}
  /\ \A pc \in Pcs, page \in Pages \cup {0} :
       orderly[pc][page] => Ranked(corr_map[pc][page], followers[pc][page])

(***************************************************************************)
(* The history is only added: each step is one of CorrelationTable.        *)
(***************************************************************************)
LEMMA RecordedSteps == [RecordedNext]_recorded_vars => [Next]_vars
BY DEF RecordedNext, Next, recorded_vars, vars

(***************************************************************************)
(* Without a history the empty lists are ranked.                           *)
(***************************************************************************)
LEMMA InitRecorded == RecordedInit => RecordedInv
<1> SUFFICES ASSUME RecordedInit PROVE RecordedInv
  OBVIOUS
<1>1. Ranked(<< >>, << >>)
  BY DEF Ranked
<1>2. IInv
  BY InitInvariant DEF RecordedInit
<1> QED
  BY <1>1, <1>2 DEF RecordedInit, Init, RecordedInv

(***************************************************************************)
(* An access keeps the lists ranked by what is recorded of it.             *)
(***************************************************************************)
LEMMA StepRecorded == RecordedInv /\ [RecordedNext]_recorded_vars => RecordedInv'
<1> SUFFICES ASSUME RecordedInv, [RecordedNext]_recorded_vars PROVE RecordedInv'
  OBVIOUS
<1>1. IInv'
  BY StepInvariant, RecordedSteps DEF RecordedInv
<1>2. CASE UNCHANGED recorded_vars
  BY <1>1, <1>2 DEF RecordedInv, recorded_vars, vars
<1>3. ASSUME NEW pc \in Pcs, NEW q \in Pages, find_prefetch_addrs(pc, q), Recorded(pc, q)
      PROVE  RecordedInv'
  <2> DEFINE page == last_accessed_page[pc]
             list == corr_map[pc][page]
             recent == followers[pc][page]
             inOrder == orderly[pc][page] /\ ~ComesEarly(recent, q)
  <2>1. page \in Pages \cup {0}
    BY DEF RecordedInv, IInv
  <2>2. CASE q = page
    <3>1. UNCHANGED <<corr_map, orderly, followers>>
      BY <1>3, <2>2 DEF find_prefetch_addrs, Recorded
    <3> QED
      BY <1>1, <3>1 DEF RecordedInv
  <2>3. CASE q # page
    <3>1. /\ corr_map' = [corr_map EXCEPT ![pc][page] = update_prev_correlation(@, q)]
          /\ orderly' = [orderly EXCEPT ![pc][page] = inOrder]
          /\ followers' = [followers EXCEPT ![pc][page] =
                             IF inOrder THEN Newest(recent, q) ELSE << >>]
      BY <1>3, <2>3 DEF find_prefetch_addrs, Recorded
    <3> HIDE DEF inOrder, page
    <3>2. inOrder \in BOOLEAN
      BY DEF inOrder
    <3>3. /\ DOMAIN corr_map = Pcs /\ \A p \in Pcs : DOMAIN corr_map[p] = Pages \cup {0}
      BY DEF RecordedInv, IInv
    <3>4. /\ orderly' \in [Pcs -> [Pages \cup {0} -> BOOLEAN]]
          /\ DOMAIN followers' = Pcs /\ \A p \in Pcs : DOMAIN followers'[p] = Pages \cup {0}
      BY <2>1, <3>1, <3>2 DEF RecordedInv
    <3>5. ASSUME NEW p \in Pcs, NEW r \in Pages \cup {0}, orderly'[p][r]
          PROVE  Ranked(corr_map'[p][r], followers'[p][r])
      <4>1. CASE p = pc /\ r = page
        <5>1. inOrder
          BY <2>1, <3>1, <3>5, <4>1 DEF RecordedInv
        <5>2. /\ corr_map'[p][r] = update_prev_correlation(list, q)
              /\ followers'[p][r] = Newest(recent, q)
          BY <2>1, <3>1, <3>3, <4>1, <5>1 DEF RecordedInv
        <5>3. Ranked(list, recent) /\ ~ComesEarly(recent, q)
          BY <2>1, <5>1 DEF RecordedInv, inOrder
        <5>4. GoodList(list, page) /\ Ordered(list)
          BY <2>1 DEF RecordedInv, IInv
        <5> HIDE DEF list, recent
        <5> QED
          BY <5>2, <5>3, <5>4, LearningRanked
      <4>2. CASE p # pc \/ r # page
        <5>1. /\ orderly'[p][r] = orderly[p][r] /\ corr_map'[p][r] = corr_map[p][r]
              /\ followers'[p][r] = followers[p][r]
          BY <2>1, <3>1, <3>3, <4>2 DEF RecordedInv
        <5> QED
          BY <3>5, <5>1 DEF RecordedInv
      <4> QED
        BY <4>1, <4>2
    <3> QED
      BY <1>1, <3>4, <3>5 DEF RecordedInv
  <2> QED
    BY <2>2, <2>3
<1> QED
  BY <1>2, <1>3 DEF RecordedNext

(***************************************************************************)
(* For every number of slots: until a page follows again that has not      *)
(* waited longest, a list holds the last S distinct pages that followed,   *)
(* ranked by recency, and lru_evict finds the one to replace.              *)
(***************************************************************************)
THEOREM CorrelationManaged == RecordedSpec => []ManagedWithLru
<1>1. RecordedInv => ManagedWithLru
  <2> SUFFICES ASSUME RecordedInv, NEW pc \in Pcs, NEW page \in Pages \cup {0},
                      orderly[pc][page]
               PROVE  /\ Range(freq_to_addresses(pc, page)) = Range(followers[pc][page])
                      /\ \A i \in 1 .. Len(corr_map[pc][page]) :
                           corr_map[pc][page][i].address =
                             followers[pc][page][corr_map[pc][page][i].lru + 1]
                      /\ Len(corr_map[pc][page]) = S => lru_evict(corr_map[pc][page]) # {}
    BY DEF ManagedWithLru
  <2> DEFINE list == corr_map[pc][page]
             recent == followers[pc][page]
             addresses == freq_to_addresses(pc, page)
  <2>1. Ranked(list, recent)
    BY DEF RecordedInv
  <2>2. DOMAIN addresses = 1 .. Len(list) /\ \A i \in 1 .. Len(list) : addresses[i] = list[i].address
    BY DEF freq_to_addresses
  <2>3. \A i \in 1 .. Len(list) : list[i].lru \in Nat
    <3>1. list \in Seq(Entries)
      BY DEF RecordedInv, IInv, GoodList
    <3>2. \A i \in 1 .. Len(list) : list[i] \in Entries
      BY <3>1
    <3> QED
      BY <3>2, SlotsAssumption DEF Entries
  <2> HIDE DEF list, recent, addresses
  <2>4. DOMAIN recent = 1 .. Len(list)
    BY <2>1 DEF Ranked
  <2>5. Range(addresses) = Range(recent)
    <3>1. ASSUME NEW i \in 1 .. Len(list)
          PROVE  addresses[i] \in Range(recent)
      <4>1. list[i].lru + 1 \in 1 .. Len(list) /\ list[i].address = recent[list[i].lru + 1]
        BY <2>1, Zenon DEF Ranked
      <4>2. addresses[i] = list[i].address
        BY <2>2, Zenon
      <4> QED
        BY <2>4, <4>1, <4>2, Zenon DEF Range
    <3>2. ASSUME NEW k \in 1 .. Len(list)
          PROVE  recent[k] \in Range(addresses)
      <4>0. k - 1 \in 0 .. Len(list) - 1 /\ k - 1 + 1 = k
        BY <2>1 DEF Ranked
      <4>1. PICK i \in 1 .. Len(list) : list[i].lru = k - 1
        BY <2>1, <4>0 DEF Ranked
      <4>2. addresses[i] = recent[k]
        BY <2>1, <2>2, <4>0, <4>1 DEF Ranked
      <4> QED
        BY <2>2, <4>2 DEF Range
    <3> QED
      BY <2>2, <2>4, <3>1, <3>2 DEF Range
  <2>6. Len(list) = S => lru_evict(list) # {}
    BY <2>1, SlotsAssumption DEF Ranked, lru_evict
  <2> QED
    BY <2>1, <2>5, <2>6 DEF Ranked, list, recent, addresses
<1> QED
  BY <1>1, InitRecorded, StepRecorded, PTL DEF RecordedSpec

=============================================================================
