------------------------------- MODULE FastSet -------------------------------
(***************************************************************************)
(* fastset (set.h): a set of indices into a queue, kept with a packet or   *)
(* an instruction.  Few members lie in a sorted array; the SMALL_SIZE-th   *)
(* turns the same memory into a bit set.  A set joins that of a packet it  *)
(* is merged with, is copied with its packet, and is emptied with it.      *)
(*                                                                         *)
(* The array and the bits share their memory; the model keeps the part     *)
(* that is in use and leaves the other one empty.                          *)
(***************************************************************************)
EXTENDS Integers, Sequences, FiniteSets, Bitwise, SequencesExt

CONSTANTS
  Names,                     \* the sets
  MAX_SIZE,                  \* ROB_SIZE, a multiple of WORD
  SMALL_SIZE, SMALLER_SIZE,  \* 0 < SMALLER_SIZE <= SMALL_SIZE <= MAX_SIZE
  WORD,                      \* bits of a word, a power of two
  QueueSizes                 \* sizes, up to MAX_SIZE, of the queues of the indices

VARIABLES
  set,         \* name -> its fastset
  n            \* the size of the queue the indices of the sets belong to

vars == <<set, n>>

\* The constructor.
Fresh == [card |-> 0, values |-> << >>, bits |-> {}]

Small(s) == s.card < SMALL_SIZE
-----------------------------------------------------------------------------
\* The search for the place of x stops at the first value that is not smaller.
insert_small(s, x) ==
  LET stop == SelectInSeq(s.values, LAMBDA y : y >= x)
      place == IF stop = 0 THEN s.card + 1 ELSE stop
  IN  IF stop # 0 /\ s.values[stop] = x THEN s
      ELSE [s EXCEPT !.values = InsertAt(@, place, x), !.card = @ + 1]

smalltobit(s) == [s EXCEPT !.values = << >>, !.bits = Range(s.values)]

\* A set that has grown to SMALL_SIZE becomes a bit set.
insert(s, x) ==
  IF Small(s)
  THEN LET grown == insert_small(s, x)
       IN  IF grown.card = SMALL_SIZE THEN smalltobit(grown) ELSE grown
  ELSE [s EXCEPT !.bits = @ \cup {x}]

search_small_linear(s, x) ==
  LET stop == SelectInSeq(s.values, LAMBDA y : y >= x)
  IN  stop # 0 /\ s.values[stop] = x

\* Binary search between two positions of the sorted array.
Bisect(s, x) ==
  LET between[begin \in 0 .. s.card, end \in -1 .. s.card - 1] ==
        LET middle == (begin + end) \div 2
            y == s.values[middle + 1]
        IN  /\ begin <= end
            /\ \/ x = y
               \/ x < y /\ between[begin, middle - 1]
               \/ x > y /\ between[middle + 1, end]
  IN  between[0, s.card - 1]

search(s, x) ==
  IF ~Small(s) THEN x \in s.bits
  ELSE IF s.card < SMALLER_SIZE THEN search_small_linear(s, x)
  ELSE Bisect(s, x)

\* Mutant: a last word that is not full is left out.
WordsFull(size) == size \div WORD

\* lim: one word more than n needs when n is a multiple of WORD.
Words(size) == ((size | (WORD - 1)) + 1) \div WORD

\* Word by word.  The word after the last one is card, which lies behind the bits.
JoinedBits(s, other) ==
  [s EXCEPT !.bits = @ \cup {x \in other.bits : x \div WORD < Words(n)},
            !.card = IF Words(n) > MAX_SIZE \div WORD THEN @ | other.card ELSE @]

join(s, other) ==
  IF Small(other) THEN FoldLeft(insert, s, other.values)
  ELSE IF Small(s) THEN JoinedBits([smalltobit(s) EXCEPT !.card = SMALL_SIZE], other)
  ELSE JoinedBits(s, other)

\* The list that ITERATE_SET walks, taken before its body changes the set.
expand(s) ==
  IF Small(s) THEN s.values
  ELSE SelectSeq([k \in 1 .. n |-> k - 1], LAMBDA x : x \in s.bits)
-----------------------------------------------------------------------------
Init ==
  /\ set = [a \in Names |-> Fresh]
  /\ n \in QueueSizes

Insert(a) == \E x \in 0 .. n - 1 : set' = [set EXCEPT ![a] = insert(@, x)]

\* A request that is merged into a miss hands its sets over.
Join(a, b) == a # b /\ set' = [set EXCEPT ![a] = join(@, set[b])]

\* A packet is copied to another queue.
Copy(a, b) == set' = [set EXCEPT ![a] = set[b]]

\* Its slot is emptied.
Clear(a) == set' = [set EXCEPT ![a] = Fresh]

Next ==
  /\ \E a \in Names :
       \/ Insert(a)
       \/ Clear(a)
       \/ \E b \in Names : Join(a, b) \/ Copy(a, b)
  /\ UNCHANGED n

Spec == Init /\ [][Next]_vars
-----------------------------------------------------------------------------
(***************************************************************************)
(* fastset implements sets of indices, whatever inserts and joins take it  *)
(* past the change of representation: search() finds exactly the members,  *)
(* linearly, by bisection or by bit, and expand() lists them once each, so *)
(* that no dependent instruction is released twice or never.  The word     *)
(* that join() reads and writes behind the bits, for a queue as long as    *)
(* MAX_SIZE, leaves the cardinality as it is.                              *)
(***************************************************************************)
Sets == INSTANCE IndexSets WITH
  Indices <- 0 .. MAX_SIZE - 1,
  members <- [a \in Names |-> ToSet(expand(set[a]))],
  answers <- [a \in Names |->
                [search |-> [x \in 0 .. MAX_SIZE - 1 |-> search(set[a], x)],
                 expand |-> expand(set[a])]]

ImplementsSets == Sets!Spec
=============================================================================
