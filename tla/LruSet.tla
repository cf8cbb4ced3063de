------------------------------- MODULE LruSet -------------------------------
(***************************************************************************)
(* One set of a TLB or of an L1 or L2 cache under the baseline policy:     *)
(* the blocks' valid bits, tags and lru counters, and every operation of   *)
(* cache.cc and of the TLB prefetchers that changes them.                  *)
(***************************************************************************)
EXTENDS LruPolicy

CONSTANTS
  NUM_WAY,  \* ways of the set
  Tags,     \* the addresses blocks are about
  NoTag     \* the tag of a block never filled

ASSUME WayAssumption == NUM_WAY \in Nat \ {0}
ASSUME TagAssumption == NoTag \notin Tags

VARIABLES
  valid,
  tag,
  lru

set_vars == <<valid, tag, lru>>

Ways == 0 .. NUM_WAY - 1

BlocksTypeOK ==
  /\ valid \in [Ways -> BOOLEAN]
  /\ tag \in [Ways -> Tags \cup {NoTag}]
  /\ lru \in [Ways -> Ways]
-----------------------------------------------------------------------------
\* CACHE::check_hit and invalidate_entry look for the first matching way.
Matching(t) == {way \in Ways : valid[way] /\ tag[way] = t}

check_hit(t) ==
  IF Matching(t) = {}
  THEN -1
  ELSE CHOOSE way \in Matching(t) : \A other \in Matching(t) : way <= other

\* The constructors of BLOCK and CACHE: nothing is valid, counters numbered by way.
InitSet ==
  /\ valid = [way \in Ways |-> FALSE]
  /\ tag = [way \in Ways |-> NoTag]
  /\ lru = [way \in Ways |-> way]

\* A read, RFO or prefetch request hits: update_replacement_state promotes it.
Hit(t) ==
  /\ check_hit(t) # -1
  /\ lru' = lru_update(NUM_WAY, lru, check_hit(t))
  /\ UNCHANGED <<valid, tag>>

\* CACHE::fill_cache, as far as the set goes.
fill_cache(way, t) ==
  /\ valid' = [valid EXCEPT ![way] = TRUE]
  /\ tag' = [tag EXCEPT ![way] = t]

\* handle_fill: the returned block replaces the victim and is promoted.  The
\* block may already be resident, when a prefetcher was faster.
Fill(t) ==
  LET way == lru_victim(NUM_WAY, valid, lru)
  IN  /\ fill_cache(way, t)
      /\ lru' = lru_update(NUM_WAY, lru, way)

\* tlb_prefetcher_operate: a predicted page that is not resident replaces the
\* victim; update_replacement_state is not called.
PrefetchFill(t) ==
  /\ check_hit(t) = -1
  /\ fill_cache(lru_victim(NUM_WAY, valid, lru), t)
  /\ UNCHANGED lru

\* CACHE::invalidate_entry, for a page that va_to_pa swaps out.
invalidate_entry(t) ==
  /\ check_hit(t) # -1
  /\ valid' = [valid EXCEPT ![check_hit(t)] = FALSE]
  /\ UNCHANGED <<tag, lru>>

\* handle_read's hit path after its prefetcher callback: the way found before the
\* callback is promoted, whatever block the callback has put there meanwhile, and
\* even if va_to_pa has invalidated it.
StaleHit(way) ==
  /\ lru' = lru_update(NUM_WAY, lru, way)
  /\ UNCHANGED <<valid, tag>>

NextSet ==
  \/ \E t \in Tags :
       Hit(t) \/ Fill(t) \/ PrefetchFill(t) \/ invalidate_entry(t)
  \/ \E way \in Ways : StaleHit(way)

SetSpec == InitSet /\ [][NextSet]_set_vars
-----------------------------------------------------------------------------
(***************************************************************************)
(* The counters of a set always rank its ways: no two blocks share a rank  *)
(* and no rank is missing.  Were a rank lost, a full set would have no     *)
(* block with lru == NUM_WAY-1 and lru_victim would stop the simulation at *)
(* its "no victim!" assert.                                                *)
(***************************************************************************)
Ranking == IsRanking(NUM_WAY, lru)

\* The ways from most to least recent, and the ways that hold a block.
Order == [rank \in Ways |-> CHOOSE way \in Ways : lru[way] = rank]

Full == {way \in Ways : valid[way]}

(***************************************************************************)
(* The counters implement the recency list: blocks leave in the order of   *)
(* their last use, invalid ways are filled first, a prefetched block       *)
(* inherits the rank of the block it displaces.                            *)
(***************************************************************************)
Recency ==
  INSTANCE RecencyList
    WITH Tags <- Tags \cup {NoTag}, order <- Order, full <- Full

ImplementsRecencyList == Recency!Spec

=============================================================================
