-------------------------- MODULE CorrelationTable --------------------------
(***************************************************************************)
(* The address-correlating TLB prefetchers: GAC keeps, for every page, a   *)
(* list of at most S pages that were accessed right after it; PLAC keeps   *)
(* one such table for every instruction address.  GAC is the instance with *)
(* a single member of Pcs.  An access teaches the list of the page before  *)
(* it and predicts what the list of its own page names.                    *)
(***************************************************************************)
EXTENDS Integers, Sequences, Functions

CONSTANTS
  Pcs,      \* the instruction addresses, none of them the dummy address 0
  Pages,    \* the pages accessed
  S,        \* slots of a list
  Follows   \* bound: the pairs of pages that may be accessed in a row

ASSUME SlotsAssumption == S \in Nat \ {0}
\* The page 0 stands for "no access yet".
ASSUME PageAssumption == Pages \subseteq Nat \ {0} /\ Follows \subseteq Pages \X Pages

VARIABLES
  last_accessed_page,  \* instruction address -> page
  corr_map             \* instruction address -> page -> its list

vars == <<last_accessed_page, corr_map>>

Entries == [address : Pages, lru : 0 .. S]
-----------------------------------------------------------------------------
\* The counters only grow between resets and are only ever compared with S - 1, so
\* S stands for every larger value.
Incremented(count) == IF count < S THEN count + 1 ELSE S

\* Every entry ages by one, then the one at index becomes the most recent.
lru_update(list, index) ==
  [i \in 1 .. Len(list) |->
     [list[i] EXCEPT !.lru = IF i = index THEN 0 ELSE Incremented(@)]]

\* Mutant: the most recent entry is taken instead of the least recent.
lru_evictRecent(list) == {i \in 1 .. Len(list) : list[i].lru = 0}

\* The entries lru_evict would take.
lru_evict(list) == {i \in 1 .. Len(list) : list[i].lru = S - 1}

FirstOf(indices) == CHOOSE i \in indices : \A j \in indices : i <= j

\* Mutant: an access that is already in the list is put in again.
update_prev_correlationTwice(list, page) ==
  IF Len(list) < S
  THEN lru_update(Append(list, [address |-> page, lru |-> 0]), Len(list) + 1)
  ELSE IF lru_evict(list) # {}
  THEN LET index == FirstOf(lru_evict(list))
       IN  lru_update([list EXCEPT ![index].address = page], index)
  ELSE lru_update(list, 1)

\* Mutant: the new entry of a list with room does not age the others.
update_prev_correlationNoAging(list, page) ==
  LET exists == {i \in 1 .. Len(list) : list[i].address = page}
  IN  IF exists # {}
      THEN lru_update(list, FirstOf(exists))
      ELSE IF Len(list) < S
      THEN Append(list, [address |-> page, lru |-> 0])
      ELSE IF lru_evict(list) # {}
      THEN LET index == FirstOf(lru_evict(list))
           IN  lru_update([list EXCEPT ![index].address = page], index)
      ELSE lru_update(list, 1)

\* Mutant: the test for a full list is off by one.
update_prev_correlationLong(list, page) ==
  LET exists == {i \in 1 .. Len(list) : list[i].address = page}
  IN  IF exists # {}
      THEN lru_update(list, FirstOf(exists))
      ELSE IF Len(list) <= S
      THEN lru_update(Append(list, [address |-> page, lru |-> 0]), Len(list) + 1)
      ELSE lru_update(list, 1)

\* The list of the page before, after an access to another page.  When lru_evict
\* finds nothing it returns index 0: nothing is replaced, and the first entry is
\* promoted all the same.
update_prev_correlation(list, page) ==
  LET exists == {i \in 1 .. Len(list) : list[i].address = page}
  IN  IF exists # {}
      THEN lru_update(list, FirstOf(exists))
      ELSE IF Len(list) < S
      THEN lru_update(Append(list, [address |-> page, lru |-> 0]), Len(list) + 1)
      ELSE IF lru_evict(list) # {}
      THEN LET index == FirstOf(lru_evict(list))
           IN  lru_update([list EXCEPT ![index].address = page], index)
      ELSE lru_update(list, 1)

\* What an access to page predicts.  The lists of the page before and of the page
\* itself differ, or nothing is learnt: the order of learning and predicting does
\* not show.
freq_to_addresses(pc, page) ==
  [i \in 1 .. Len(corr_map[pc][page]) |-> corr_map[pc][page][i].address]
-----------------------------------------------------------------------------
Init ==
  /\ last_accessed_page = [pc \in Pcs |-> 0]
  /\ corr_map = [pc \in Pcs |-> [page \in Pages \cup {0} |-> << >>]]

\* PLAC::find_prefetch_addrs, or GAC's, on an access to page by instruction pc.
find_prefetch_addrs(pc, page) ==
  /\ last_accessed_page[pc] = 0 \/ <<last_accessed_page[pc], page>> \in Follows
  /\ corr_map' = IF page = last_accessed_page[pc]
                 THEN corr_map
                 ELSE [corr_map EXCEPT ![pc][last_accessed_page[pc]] =
                         update_prev_correlation(@, page)]
  /\ last_accessed_page' = [last_accessed_page EXCEPT ![pc] = page]

Next == \E pc \in Pcs, page \in Pages : find_prefetch_addrs(pc, page)

Spec == Init /\ [][Next]_vars
-----------------------------------------------------------------------------
(***************************************************************************)
(* Types, with no list longer than its slots.                              *)
(***************************************************************************)
TypeOK ==
  /\ last_accessed_page \in [Pcs -> Pages \cup {0}]
  /\ DOMAIN corr_map = Pcs
  /\ \A pc \in Pcs : /\ DOMAIN corr_map[pc] = Pages \cup {0}
                     /\ \A page \in Pages \cup {0} : /\ corr_map[pc][page] \in Seq(Entries)
                                                     /\ Len(corr_map[pc][page]) <= S

(***************************************************************************)
(* Neither pushing nor replacing ever makes a list name a page twice, or   *)
(* the page whose list it is: no prediction of a call repeats another or   *)
(* the page that is being looked up.                                       *)
(***************************************************************************)
DistinctPredictions ==
  \A pc \in Pcs, page \in Pages \cup {0} :
    /\ IsInjective(freq_to_addresses(pc, page))
    /\ page \notin Range(freq_to_addresses(pc, page))

(***************************************************************************)
(* The counters of a list tell its entries apart: one is at 0, and no two  *)
(* are equal short of the bound S.  So lru_evict never has a choice.       *)
(***************************************************************************)
RecencyOrder ==
  \A pc \in Pcs, page \in Pages \cup {0} :
    LET list == corr_map[pc][page]
    IN  /\ list # << >> => \E i \in 1 .. Len(list) : list[i].lru = 0
        /\ \A i, j \in 1 .. Len(list) : list[i].lru = list[j].lru /\ list[i].lru < S => i = j

(***************************************************************************)
(* "The predicted values are supposed to be managed with LRU": in a full   *)
(* list lru_evict finds the least recent entry, the one with lru == S - 1. *)
(***************************************************************************)
EvictionFindsVictim ==
  \A pc \in Pcs, page \in Pages \cup {0} :
    Len(corr_map[pc][page]) = S => lru_evict(corr_map[pc][page]) # {}

=============================================================================
