---------------------------- MODULE RecencyList ----------------------------
(***************************************************************************)
(* What least-recently-used replacement promises for one set: the ways     *)
(* form a list ordered by recency; using a block moves its way to the      *)
(* front, and once every way holds a block the one at the back is replaced.*)
(* A block a prefetcher puts in stays where it is in the list, so that a   *)
(* useless prefetch is the next to leave.                                  *)
(***************************************************************************)
EXTENDS Integers

CONSTANTS
  NUM_WAY,  \* ways of the set
  Tags      \* the addresses blocks are about

VARIABLES
  order,    \* rank (0 is the most recent) -> way
  full,     \* the ways that hold a block
  tag       \* way -> the block it holds, or last held

Ranks == 0 .. NUM_WAY - 1

Init ==
  /\ order = [rank \in Ranks |-> rank]
  /\ full = {}
  /\ tag \in [Ranks -> Tags]

\* The list after the way at rank has moved to the front.
MoveToFront(rank) ==
  [i \in Ranks |-> IF i = 0 THEN order[rank]
                   ELSE IF i <= rank THEN order[i - 1] ELSE order[i]]

\* A way is used; its block may have left while it was being read.
Use ==
  \E rank \in Ranks :
    /\ order' = MoveToFront(rank)
    /\ UNCHANGED <<full, tag>>

\* A way may be filled if it is empty, or the least recent one of a full set.
Replaceable(rank) ==
  \/ order[rank] \notin full
  \/ full = Ranks /\ rank = NUM_WAY - 1

\* A missing block is put in and used.
Fill(t) ==
  \E rank \in Ranks :
    /\ Replaceable(rank)
    /\ order' = MoveToFront(rank)
    /\ full' = full \cup {order[rank]}
    /\ tag' = [tag EXCEPT ![order[rank]] = t]

\* A predicted block is put in without being used.
Prefetch(t) ==
  \E rank \in Ranks :
    /\ Replaceable(rank)
    /\ order' = order
    /\ full' = full \cup {order[rank]}
    /\ tag' = [tag EXCEPT ![order[rank]] = t]

\* A block is dropped: its page has been swapped out.
Drop ==
  \E way \in full :
    /\ full' = full \ {way}
    /\ UNCHANGED <<order, tag>>

Next ==
  \/ Use
  \/ Drop
  \/ \E t \in Tags : Fill(t) \/ Prefetch(t)

Spec == Init /\ [][Next]_<<order, full, tag>>

=============================================================================
