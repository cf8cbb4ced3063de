---------------------------- MODULE PacketQueue ----------------------------
(***************************************************************************)
(* PACKET_QUEUE (inc/block.h, src/block.cc) as the RQ, WQ, PQ and PROCESSED *)
(* queues of a CACHE use it: a ring of SIZE slots with a head, a tail and  *)
(* an occupancy that are kept separately.  A packet is abstracted to the   *)
(* address it is about; NoAddr is the address 0 of an empty slot.          *)
(*                                                                         *)
(* The request queues are filled by CACHE::add_rq, add_wq and add_pq,      *)
(* which merge a packet whose address is already queued; PROCESSED is      *)
(* filled by add_queue, whose callers first test the occupancy.  The       *)
(* variable usage says which of the two this queue is.                     *)
(***************************************************************************)
EXTENDS Integers, Sequences

CONSTANTS
  SIZE,     \* number of slots
  Addr,     \* the addresses packets are about
  NoAddr    \* the address field of an empty slot

ASSUME SizeAssumption == SIZE \in Nat \ {0}
ASSUME AddrAssumption == NoAddr \notin Addr

VARIABLES
  usage,      \* "request": RQ, WQ or PQ;  "processed": PROCESSED
  head,
  tail,
  occupancy,
  entry       \* the slots

vars == <<usage, head, tail, occupancy, entry>>

Slots == 0 .. SIZE - 1

TypeOK ==
  /\ usage \in {"request", "processed"}
  /\ head \in Slots
  /\ tail \in Slots
  /\ occupancy \in 0 .. SIZE
  /\ entry \in [Slots -> Addr \cup {NoAddr}]
-----------------------------------------------------------------------------
\* Mutant: the wrap test is off by one.
AdvanceLate(i) == IF i + 1 > SIZE THEN 0 ELSE i + 1

\* Advancing a cursor: "head++; if (head >= SIZE) head = 0;".
Advance(i) == IF i + 1 >= SIZE THEN 0 ELSE i + 1

\* How many slots i lies behind the head: the order in which check_queue scans.
Age(i) == IF i >= head THEN i - head ELSE i - head + SIZE

\* Mutant: the second loop of check_queue, over the wrapped part, is missing.
ScannedNoWrap ==
  IF head = tail /\ occupancy = 0 THEN {} ELSE head .. tail - 1

\* The slots check_queue scans.
Scanned ==
  IF head = tail /\ occupancy = 0
  THEN {}
  ELSE IF head < tail
       THEN head .. tail - 1
       ELSE (head .. SIZE - 1) \cup (0 .. tail - 1)

\* PACKET_QUEUE::check_queue: the first scanned slot that holds the address, or -1.
check_queue(a) ==
  LET found == {i \in Scanned : entry[i] = a}
  IN  IF found = {}
      THEN -1
      ELSE CHOOSE i \in found : \A j \in found : Age(i) <= Age(j)
-----------------------------------------------------------------------------
Init ==
  /\ usage \in {"request", "processed"}
  /\ head = 0
  /\ tail = 0
  /\ occupancy = 0
  /\ entry = [i \in Slots |-> NoAddr]

\* The common tail of add_queue and of add_rq, add_wq and add_pq.
Insert(a) ==
  /\ entry' = [entry EXCEPT ![tail] = a]
  /\ tail' = Advance(tail)
  /\ occupancy' = occupancy + 1
  /\ UNCHANGED <<usage, head>>

\* Mutant: the caller forgets the occupancy test.
add_queueUnguarded(a) ==
  /\ usage = "processed"
  /\ occupancy <= SIZE
  /\ Insert(a)

\* PACKET_QUEUE::add_queue under the guard of its callers in cache.cc.
add_queue(a) ==
  /\ usage = "processed"
  /\ occupancy < SIZE
  /\ Insert(a)

\* Mutant: the search for a duplicate is dropped.
add_rqNoMerge(a) ==
  /\ usage = "request"
  /\ occupancy # SIZE
  /\ Insert(a)

\* CACHE::add_rq: a queued address is merged (the queue is unchanged), a full
\* queue refuses the packet, anything else is inserted at the tail.
add_rq(a) ==
  /\ usage = "request"
  /\ check_queue(a) = -1
  /\ occupancy # SIZE
  /\ Insert(a)

\* Mutant: the removed slot is not blanked.
remove_queueNoReset ==
  /\ occupancy > 0
  /\ occupancy' = occupancy - 1
  /\ head' = Advance(head)
  /\ UNCHANGED <<usage, tail, entry>>

\* PACKET_QUEUE::remove_queue of the head entry, as handle_read, handle_writeback,
\* handle_prefetch and the core's complete_*_fetch call it when occupancy > 0.
remove_queue ==
  /\ occupancy > 0
  /\ entry' = [entry EXCEPT ![head] = NoAddr]
  /\ occupancy' = occupancy - 1
  /\ head' = Advance(head)
  /\ UNCHANGED <<usage, tail>>

Next ==
  \/ \E a \in Addr : add_queue(a) \/ add_rq(a)
  \/ remove_queue

Spec == Init /\ [][Next]_vars
-----------------------------------------------------------------------------
\* The k-th oldest slot, and the packets from oldest to newest.
Slot(k) == IF head + k < SIZE THEN head + k ELSE head + k - SIZE

Contents == [k \in 1 .. occupancy |-> entry[Slot(k - 1)]]

(***************************************************************************)
(* The three cursors agree and every slot outside the window from head to  *)
(* tail is blank.  This is what the asserts "occupancy && (head == tail)"  *)
(* of add_queue and "is not empty index" of add_rq, add_wq and add_pq      *)
(* rely on; it is the inductive invariant of module ContainerProofs.       *)
(***************************************************************************)
RingInvariant ==
  /\ tail = Slot(occupancy)
  /\ \A i \in Slots : entry[i] # NoAddr <=> Age(i) < occupancy

(***************************************************************************)
(* check_queue finds an address exactly when a queued packet is about it,  *)
(* and then returns the oldest such packet: the scan neither misses the    *)
(* part of the ring that has wrapped nor looks at stale slots, whether the *)
(* ring is empty, full or in between.                                      *)
(***************************************************************************)
CheckQueueExact ==
  \A a \in Addr :
    LET positions == {k \in 1 .. occupancy : Contents[k] = a}
    IN  IF positions = {}
        THEN check_queue(a) = -1
        ELSE \E k \in positions :
               /\ \A l \in positions : k <= l
               /\ check_queue(a) = Slot(k - 1)

(***************************************************************************)
(* A request queue never holds two packets about the same address, which   *)
(* is what makes "merged" requests share a single access to the cache.     *)
(***************************************************************************)
NoDuplicateRequest ==
  usage = "request" =>
    \A k, l \in 1 .. occupancy : Contents[k] = Contents[l] => k = l

(***************************************************************************)
(* The ring buffer behaves as a bounded first-in first-out queue.          *)
(***************************************************************************)
Fifo == INSTANCE BoundedFifo
          WITH queue <- Contents, Capacity <- SIZE, Values <- Addr

ImplementsFifo == Fifo!Spec

=============================================================================
