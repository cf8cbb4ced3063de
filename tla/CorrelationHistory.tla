------------------------- MODULE CorrelationHistory -------------------------
(***************************************************************************)
(* CorrelationTable with a history of what really followed each page, kept *)
(* without a look at the lists, to say what their lru counters are worth.  *)
(***************************************************************************)
EXTENDS CorrelationTable

VARIABLES
  orderly,   \* instruction address -> page -> whether only the page that waited longest
             \* ever followed again
  followers  \* instruction address -> page -> as long as that is so, the last S
             \* distinct pages that followed, newest first

recorded_vars == <<vars, orderly, followers>>

\* The page follows again, though another of the last ones has waited longer.
ComesEarly(recent, page) == \E k \in 1 .. Len(recent) - 1 : recent[k] = page

\* How many stay behind the page that follows now.
Staying(recent, page) ==
  IF Len(recent) = S \/ (recent # << >> /\ recent[Len(recent)] = page)
  THEN Len(recent) - 1
  ELSE Len(recent)

Newest(recent, page) ==
  [k \in 1 .. Staying(recent, page) + 1 |-> IF k = 1 THEN page ELSE recent[k - 1]]

\* What an access to page by instruction pc adds to the history of the page before.
Recorded(pc, page) ==
  LET last == last_accessed_page[pc]
      early == ComesEarly(followers[pc][last], page)
  IN  IF page = last
      THEN UNCHANGED <<orderly, followers>>
      ELSE /\ orderly' = [orderly EXCEPT ![pc][last] = @ /\ ~early]
           /\ followers' = [followers EXCEPT ![pc][last] =
                              IF orderly[pc][last] /\ ~early THEN Newest(@, page) ELSE << >>]
-----------------------------------------------------------------------------
RecordedInit ==
  /\ Init
  /\ orderly = [pc \in Pcs |-> [page \in Pages \cup {0} |-> TRUE]]
  /\ followers = [pc \in Pcs |-> [page \in Pages \cup {0} |-> << >>]]

RecordedNext ==
  \E pc \in Pcs, page \in Pages : find_prefetch_addrs(pc, page) /\ Recorded(pc, page)

RecordedSpec == RecordedInit /\ [][RecordedNext]_recorded_vars
-----------------------------------------------------------------------------
(***************************************************************************)
(* The lists are managed with LRU as far as they can be: until a page      *)
(* follows again that has not waited longest, a list predicts exactly the  *)
(* last S distinct pages that followed, its counters rank them by recency, *)
(* and lru_evict finds a victim when the list is full.  After that it may  *)
(* not, and EvictionFindsVictim shows the first time.                      *)
(***************************************************************************)
ManagedWithLru ==
  \A pc \in Pcs, page \in Pages \cup {0} :
    orderly[pc][page] =>
      LET list == corr_map[pc][page]
          recent == followers[pc][page]
      IN  /\ Range(freq_to_addresses(pc, page)) = Range(recent)
          /\ \A i \in 1 .. Len(list) : list[i].address = recent[list[i].lru + 1]
          /\ Len(list) = S => lru_evict(list) # {}

=============================================================================
