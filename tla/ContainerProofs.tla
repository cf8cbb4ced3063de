-------------------------- MODULE ContainerProofs --------------------------
(***************************************************************************)
(* Proofs about what a cache is built from.  The ring buffer, for every    *)
(* size: cursors and blank slots agree, check_queue is exact, requests are *)
(* merged, and the ring is a bounded queue.  A set of blocks under the     *)
(* baseline policy, for every number of ways: the lru counters always rank *)
(* the ways, so a victim always exists, and implement the recency list.    *)
(***************************************************************************)
EXTENDS PacketQueue, LruSet, SequenceTheorems, CommonLemmas

IInv == TypeOK /\ RingInvariant

USE SizeAssumption, AddrAssumption DEF Slots

(***************************************************************************)
(* Inserting at the tail of a ring that is not full keeps the invariant:   *)
(* the tail slot is the one just past the newest packet, so no packet that *)
(* is still queued is overwritten.                                         *)
(***************************************************************************)
LEMMA InsertPreserves ==
  ASSUME IInv, NEW a \in Addr, occupancy < SIZE, Insert(a)
  PROVE  IInv'
<1>1. TypeOK'
  BY DEF IInv, TypeOK, Insert, Advance
<1>2. tail' = Slot(occupancy)'
  BY DEF IInv, TypeOK, RingInvariant, Insert, Advance, Slot
<1>3. ASSUME NEW i \in Slots
      PROVE  (entry[i] # NoAddr <=> Age(i) < occupancy)'
  <2>1. CASE i = tail
    BY <2>1 DEF IInv, TypeOK, RingInvariant, Insert, Slot, Age
  <2>2. CASE i # tail
    <3>1. entry'[i] = entry[i] /\ Age(i)' = Age(i)
      BY <2>2 DEF IInv, TypeOK, Insert, Age
    <3>2. Age(i) # occupancy
      BY <2>2 DEF IInv, TypeOK, RingInvariant, Slot, Age
    <3> QED
      BY <3>1, <3>2 DEF IInv, TypeOK, RingInvariant, Insert, Age
  <2> QED
    BY <2>1, <2>2
<1> QED
  BY <1>1, <1>2, <1>3 DEF IInv, RingInvariant

(***************************************************************************)
(* Removing the head of a ring that is not empty keeps the invariant.      *)
(***************************************************************************)
LEMMA RemovePreserves ==
  ASSUME IInv, remove_queue
  PROVE  IInv'
<1>1. TypeOK'
  BY DEF IInv, TypeOK, remove_queue, Advance
<1>2. tail' = Slot(occupancy)'
  BY DEF IInv, TypeOK, RingInvariant, remove_queue, Advance, Slot
<1>3. ASSUME NEW i \in Slots
      PROVE  (entry[i] # NoAddr <=> Age(i) < occupancy)'
  <2>1. CASE i = head
    BY <2>1 DEF IInv, TypeOK, RingInvariant, remove_queue, Advance, Age
  <2>2. CASE i # head
    <3>1. entry'[i] = entry[i]
      BY <2>2 DEF IInv, TypeOK, remove_queue
    <3>2. Age(i)' = Age(i) - 1
      BY <2>2 DEF IInv, TypeOK, remove_queue, Advance, Age
    <3> QED
      BY <3>1, <3>2 DEF IInv, TypeOK, RingInvariant, remove_queue, Age
  <2> QED
    BY <2>1, <2>2
<1> QED
  BY <1>1, <1>2, <1>3 DEF IInv, RingInvariant

(***************************************************************************)
(* The type invariant and the agreement of head, tail, occupancy and slot  *)
(* contents hold in every reachable state.                                 *)
(***************************************************************************)
THEOREM RingCorrect == Spec => [](TypeOK /\ RingInvariant)
<1>1. Init => IInv
  BY DEF Init, IInv, TypeOK, RingInvariant, Slot, Age
<1>2. IInv /\ [Next]_vars => IInv'
  <2> SUFFICES ASSUME IInv, [Next]_vars
               PROVE  IInv'
    OBVIOUS
  <2>1. ASSUME NEW a \in Addr, add_queue(a)
        PROVE  IInv'
    BY <2>1, InsertPreserves DEF add_queue
  <2>2. ASSUME NEW a \in Addr, add_rq(a)
        PROVE  IInv'
    <3>1. occupancy < SIZE
      BY <2>2 DEF add_rq, IInv, TypeOK
    <3> QED
      BY <2>2, <3>1, InsertPreserves DEF add_rq
  <2>3. CASE remove_queue
    BY <2>3, RemovePreserves
  <2>4. CASE UNCHANGED vars
    BY <2>4 DEF vars, IInv, TypeOK, RingInvariant, Slot, Age
  <2> QED
    BY <2>1, <2>2, <2>3, <2>4 DEF Next
<1>3. QED
  BY <1>1, <1>2, PTL DEF Spec, IInv

(***************************************************************************)
(* The cursors and the occupancy of a queue of any size stay within it:    *)
(* add_queue and remove_queue wrap them before they can index past the     *)
(* entries.                                                                *)
(***************************************************************************)
THEOREM RingTypeOK == Spec => []TypeOK
BY RingCorrect, PTL
-----------------------------------------------------------------------------
(***************************************************************************)
(* Slot and Age are inverse to each other, whatever the head.              *)
(***************************************************************************)
LEMMA SlotAge ==
  ASSUME head \in Slots
  PROVE  /\ \A k \in 0 .. SIZE - 1 : Slot(k) \in Slots /\ Age(Slot(k)) = k
         /\ \A i \in Slots : Age(i) \in 0 .. SIZE - 1 /\ Slot(Age(i)) = i
BY DEF Slot, Age

(***************************************************************************)
(* check_queue looks at the slots in use and at no other, in all of its    *)
(* three cases: empty, not wrapped, and wrapped or full.                   *)
(***************************************************************************)
LEMMA ScannedInUse ==
  ASSUME IInv
  PROVE  Scanned = {i \in Slots : Age(i) < occupancy}
<1>1. CASE head = tail /\ occupancy = 0
  BY <1>1, SlotAge DEF Scanned, IInv, TypeOK
<1>2. CASE head < tail
  <2>1. occupancy = tail - head
    BY <1>2 DEF IInv, TypeOK, RingInvariant, Slot
  <2> QED
    BY <1>2, <2>1 DEF Scanned, IInv, TypeOK, Age
<1>3. CASE tail < head
  <2>1. occupancy = tail - head + SIZE
    BY <1>3 DEF IInv, TypeOK, RingInvariant, Slot
  <2> QED
    BY <1>3, <2>1 DEF Scanned, IInv, TypeOK, Age
<1>4. CASE head = tail /\ occupancy # 0
  <2>1. occupancy = SIZE
    BY <1>4 DEF IInv, TypeOK, RingInvariant, Slot
  <2> QED
    BY <1>4, <2>1 DEF Scanned, IInv, TypeOK, Age
<1> QED
  BY <1>1, <1>2, <1>3, <1>4 DEF IInv, TypeOK

(***************************************************************************)
(* A packet at position k of Contents is the one in the slot of age k - 1. *)
(***************************************************************************)
LEMMA PositionSlot ==
  ASSUME IInv, NEW a \in Addr
  PROVE  /\ \A k \in 1 .. occupancy :
               /\ Slot(k - 1) \in Scanned
               /\ Age(Slot(k - 1)) = k - 1
               /\ Contents[k] = entry[Slot(k - 1)]
         /\ \A i \in Scanned :
               /\ Age(i) + 1 \in 1 .. occupancy
               /\ Slot(Age(i)) = i
               /\ Contents[Age(i) + 1] = entry[i]
<1>1. head \in Slots /\ occupancy \in 0 .. SIZE
  BY DEF IInv, TypeOK
<1>2. ASSUME NEW k \in 1 .. occupancy
      PROVE  /\ Slot(k - 1) \in Scanned
             /\ Age(Slot(k - 1)) = k - 1
             /\ Contents[k] = entry[Slot(k - 1)]
  <2>1. k - 1 \in 0 .. SIZE - 1 /\ k - 1 < occupancy
    BY <1>1
  <2> QED
    BY <1>1, <2>1, SlotAge, ScannedInUse DEF Contents
<1>3. ASSUME NEW i \in Scanned
      PROVE  /\ Age(i) + 1 \in 1 .. occupancy
             /\ Slot(Age(i)) = i
             /\ Contents[Age(i) + 1] = entry[i]
  <2>1. i \in Slots /\ Age(i) \in 0 .. SIZE - 1 /\ Age(i) < occupancy /\ Slot(Age(i)) = i
    BY <1>1, <1>3, SlotAge, ScannedInUse
  <2>2. Age(i) + 1 \in 1 .. occupancy /\ Age(i) + 1 - 1 = Age(i)
    BY <1>1, <2>1
  <2> QED
    BY <2>1, <2>2 DEF Contents
<1> QED
  BY <1>2, <1>3

(***************************************************************************)
(* The result of check_queue: -1 exactly when no scanned slot holds the    *)
(* address, otherwise the scanned slot of least age that does.             *)
(***************************************************************************)
LEMMA CheckQueueResult ==
  ASSUME IInv, NEW a \in Addr
  PROVE  \/ /\ \A i \in Scanned : entry[i] # a
            /\ check_queue(a) = -1
         \/ /\ check_queue(a) \in Scanned
            /\ entry[check_queue(a)] = a
            /\ \A j \in Scanned : entry[j] = a => Age(check_queue(a)) <= Age(j)
<1> DEFINE found == {i \in Scanned : entry[i] = a}
<1>1. CASE found = {}
  BY <1>1 DEF check_queue
<1>2. CASE found # {}
  <2> DEFINE Ages == {Age(i) : i \in found}
  <2>1. Ages \in SUBSET Nat /\ Ages # {}
    <3>1. \A i \in found : Age(i) \in Nat
      BY ScannedInUse, SlotAge, SMTT(40) DEF IInv, TypeOK
    <3> QED
      BY <1>2, <3>1
  <2>2. PICK n \in Ages : \A m \in Ages : n <= m
    <3> HIDE DEF Ages
    <3> QED
      BY <2>1, NatLeast
  <2>3. PICK i \in found : Age(i) = n
    BY <2>2
  <2>4. \E k \in found : \A j \in found : Age(k) <= Age(j)
    BY <2>2, <2>3
  <2>5. check_queue(a) = CHOOSE k \in found : \A j \in found : Age(k) <= Age(j)
    BY <1>2 DEF check_queue
  <2>6. /\ check_queue(a) \in found
        /\ \A j \in found : Age(check_queue(a)) <= Age(j)
    <3> HIDE DEF found
    <3> QED
      BY <2>4, <2>5
  <2> QED
    BY <2>6
<1> QED
  BY <1>1, <1>2

(***************************************************************************)
(* The invariant makes check_queue exact.                                  *)
(***************************************************************************)
LEMMA CheckQueueIsExact == IInv => CheckQueueExact
<1> SUFFICES ASSUME IInv, NEW a \in Addr
             PROVE  LET positions == {k \in 1 .. occupancy : Contents[k] = a}
                    IN  IF positions = {}
                        THEN check_queue(a) = -1
                        ELSE \E k \in positions :
                               /\ \A l \in positions : k <= l
                               /\ check_queue(a) = Slot(k - 1)
  BY DEF CheckQueueExact
<1> DEFINE positions == {k \in 1 .. occupancy : Contents[k] = a}
<1>1. CASE /\ \A i \in Scanned : entry[i] # a
           /\ check_queue(a) = -1
  <2>1. positions = {}
    BY <1>1, PositionSlot
  <2> QED
    BY <1>1, <2>1
<1>2. CASE /\ check_queue(a) \in Scanned
           /\ entry[check_queue(a)] = a
           /\ \A j \in Scanned : entry[j] = a => Age(check_queue(a)) <= Age(j)
  <2> DEFINE k == Age(check_queue(a)) + 1
  <2>1. k \in positions /\ check_queue(a) = Slot(Age(check_queue(a)))
    BY <1>2, PositionSlot
  <2>2. Age(check_queue(a)) \in Nat /\ k - 1 = Age(check_queue(a))
    <3>1. head \in Slots /\ check_queue(a) \in Slots
      BY <1>2, ScannedInUse DEF IInv, TypeOK
    <3>2. Age(check_queue(a)) \in 0 .. SIZE - 1
      BY <3>1, SlotAge
    <3> QED
      BY <3>2
  <2>3. ASSUME NEW l \in positions
        PROVE  k <= l
    <3>1. Slot(l - 1) \in Scanned /\ Age(Slot(l - 1)) = l - 1 /\ entry[Slot(l - 1)] = a
      BY <2>3, PositionSlot
    <3>2. Age(check_queue(a)) <= l - 1
      BY <1>2, <3>1
    <3>3. l \in Int
      BY <2>3 DEF IInv, TypeOK
    <3> QED
      BY <2>2, <3>2, <3>3
  <2>4. check_queue(a) = Slot(k - 1)
    BY <2>1, <2>2
  <2> HIDE DEF k
  <2> QED
    BY <2>1, <2>3, <2>4
<1> QED
  BY <1>1, <1>2, CheckQueueResult

(***************************************************************************)
(* In every reachable state check_queue finds the oldest packet about an   *)
(* address when there is one, and reports -1 when there is none.           *)
(***************************************************************************)
THEOREM CheckQueueCorrect == Spec => []CheckQueueExact
BY RingCorrect, CheckQueueIsExact, PTL DEF IInv
-----------------------------------------------------------------------------
(***************************************************************************)
(* Distinct slots in use hold distinct addresses: the slot-level form of   *)
(* NoDuplicateRequest, which is inductive.                                 *)
(***************************************************************************)
DistinctSlots ==
  usage = "request" =>
    \A i, j \in Slots : entry[i] # NoAddr /\ entry[i] = entry[j] => i = j

(***************************************************************************)
(* A step of add_rq inserts an address that no slot in use holds, because  *)
(* check_queue has just scanned all of them, so distinctness is kept.      *)
(***************************************************************************)
LEMMA DistinctStep ==
  IInv /\ DistinctSlots /\ [Next]_vars => DistinctSlots'
<1> SUFFICES ASSUME IInv, DistinctSlots, [Next]_vars
             PROVE  DistinctSlots'
  OBVIOUS
<1>1. ASSUME NEW a \in Addr, add_queue(a)
      PROVE  DistinctSlots'
  BY <1>1 DEF add_queue, Insert, DistinctSlots
<1>2. ASSUME NEW a \in Addr, add_rq(a)
      PROVE  DistinctSlots'
  <2>1. \A i \in Scanned : entry[i] # a
    <3>1. -1 \notin Scanned
      BY ScannedInUse
    <3> QED
      BY <1>2, <3>1, CheckQueueResult DEF add_rq
  <2>2. \A i \in Slots : entry[i] # a
    BY <2>1, ScannedInUse DEF IInv, RingInvariant
  <2> QED
    BY <1>2, <2>2 DEF add_rq, Insert, DistinctSlots, IInv, TypeOK
<1>3. CASE remove_queue
  BY <1>3 DEF remove_queue, DistinctSlots, IInv, TypeOK
<1>4. CASE UNCHANGED vars
  BY <1>4 DEF vars, DistinctSlots
<1> QED
  BY <1>1, <1>2, <1>3, <1>4 DEF Next

(***************************************************************************)
(* Distinct slots in use give distinct positions of the queue.             *)
(***************************************************************************)
LEMMA DistinctPositions == IInv /\ DistinctSlots => NoDuplicateRequest
<1> SUFFICES ASSUME IInv, DistinctSlots, usage = "request",
                    NEW k \in 1 .. occupancy, NEW l \in 1 .. occupancy,
                    Contents[k] = Contents[l]
             PROVE  k = l
  BY DEF NoDuplicateRequest
<1>1. \A m \in 1 .. occupancy :
        /\ Slot(m - 1) \in Slots
        /\ entry[Slot(m - 1)] # NoAddr
        /\ Age(Slot(m - 1)) = m - 1
        /\ Contents[m] = entry[Slot(m - 1)]
  <2> SUFFICES ASSUME NEW m \in 1 .. occupancy
               PROVE  /\ Slot(m - 1) \in Slots
                      /\ entry[Slot(m - 1)] # NoAddr
                      /\ Age(Slot(m - 1)) = m - 1
                      /\ Contents[m] = entry[Slot(m - 1)]
    OBVIOUS
  <2>1. m - 1 \in 0 .. SIZE - 1 /\ m - 1 < occupancy
    BY DEF IInv, TypeOK
  <2>2. Slot(m - 1) \in Slots /\ Age(Slot(m - 1)) = m - 1
    BY <2>1, SlotAge DEF IInv, TypeOK
  <2> QED
    BY <2>1, <2>2 DEF IInv, RingInvariant, Contents
<1>2. Slot(k - 1) = Slot(l - 1)
  BY <1>1 DEF DistinctSlots
<1>3. k - 1 = l - 1
  BY <1>1, <1>2
<1> QED
  BY <1>3 DEF IInv, TypeOK

(***************************************************************************)
(* A request queue never holds two packets about one address, however the  *)
(* ring has wrapped.                                                       *)
(***************************************************************************)
THEOREM MergingCorrect == Spec => []NoDuplicateRequest
<1>1. Init => DistinctSlots
  BY DEF Init, DistinctSlots
<1> QED
  BY <1>1, RingCorrect, DistinctStep, DistinctPositions, PTL DEF Spec, IInv
-----------------------------------------------------------------------------
(***************************************************************************)
(* Refinement: the ring of slots behaves as the sequence of its packets,   *)
(* whose length is the occupancy counter.                                  *)
(***************************************************************************)
LEMMA ContentsType ==
  ASSUME IInv
  PROVE  /\ Contents \in Seq(Addr \cup {NoAddr})
         /\ Len(Contents) = occupancy
<1>1. occupancy \in Nat
  BY DEF IInv, TypeOK
<1>2. \A k \in 1 .. occupancy : entry[Slot(k - 1)] \in Addr \cup {NoAddr}
  BY DEF IInv, TypeOK, Slot
<1> QED
  BY <1>1, <1>2 DEF Contents

(***************************************************************************)
(* An insertion appends the packet to the sequence of queued packets.      *)
(***************************************************************************)
LEMMA InsertAppends ==
  ASSUME IInv, NEW a \in Addr, occupancy < SIZE, Insert(a)
  PROVE  Contents' = Append(Contents, a)
<1> DEFINE Packets == Addr \cup {NoAddr}
           Longer == [k \in 1 .. occupancy + 1 |->
                        IF k <= occupancy THEN Contents[k] ELSE a]
<1>1. occupancy \in Nat /\ Contents \in Seq(Packets) /\ Len(Contents) = occupancy
  BY ContentsType DEF IInv, TypeOK
<1>2. /\ \A k \in 1 .. occupancy : entry'[Slot(k - 1)] = entry[Slot(k - 1)]
      /\ entry'[Slot(occupancy)] = a
  BY DEF IInv, TypeOK, RingInvariant, Insert, Slot
<1>3. Contents' = [k \in 1 .. occupancy + 1 |-> entry'[Slot(k - 1)]]
  BY DEF Contents, Insert, Slot
<1>4. ASSUME NEW k \in 1 .. occupancy + 1
      PROVE  entry'[Slot(k - 1)] = Longer[k]
  <2>1. CASE k <= occupancy
    BY <1>1, <1>2, <2>1 DEF Contents
  <2>2. CASE k > occupancy
    <3>1. k - 1 = occupancy
      BY <1>1, <2>2
    <3> QED
      BY <1>1, <1>2, <2>2, <3>1
  <2> QED
    BY <1>1, <2>1, <2>2
<1>5. Contents' = Longer
  BY <1>3, <1>4
<1>6. Append(Contents, a) = Longer
  <2>1. Longer \in Seq(Packets) /\ Len(Longer) = occupancy + 1
    <3>1. \A k \in 1 .. occupancy : Contents[k] \in Packets
      BY <1>1, ElementOfSeq
    <3> QED
      BY <1>1, <3>1
  <2>2. /\ Append(Contents, a) \in Seq(Packets)
        /\ Len(Append(Contents, a)) = occupancy + 1
        /\ \A k \in 1 .. occupancy + 1 :
             Append(Contents, a)[k] = IF k <= occupancy THEN Contents[k] ELSE a
    BY <1>1, AppendProperties
  <2>3. \A k \in 1 .. occupancy + 1 : Append(Contents, a)[k] = Longer[k]
    BY <2>2
  <2> HIDE DEF Longer
  <2> QED
    BY <1>1, <2>1, <2>2, <2>3, SeqEqual
<1> QED
  BY <1>5, <1>6

(***************************************************************************)
(* A removal takes the oldest packet off the sequence of queued packets.   *)
(***************************************************************************)
LEMMA RemoveTails ==
  ASSUME IInv, remove_queue
  PROVE  Contents # << >> /\ Contents' = Tail(Contents)
<1> DEFINE Packets == Addr \cup {NoAddr}
           Shorter == [k \in 1 .. occupancy - 1 |-> Contents[k + 1]]
<1>1. occupancy \in Nat \ {0} /\ Contents \in Seq(Packets) /\ Len(Contents) = occupancy
  BY ContentsType DEF IInv, TypeOK, remove_queue
<1>2. ASSUME NEW k \in 1 .. occupancy - 1
      PROVE  entry'[Slot(k - 1)'] = Contents[k + 1]
  <2>1. Slot(k - 1)' = Slot(k) /\ Slot(k) \in Slots /\ Slot(k) # head
    BY <1>1 DEF IInv, TypeOK, remove_queue, Advance, Slot
  <2>2. Contents[k + 1] = entry[Slot(k)]
    <3>1. k + 1 \in 1 .. occupancy /\ k + 1 - 1 = k
      BY <1>1
    <3> QED
      BY <3>1 DEF Contents
  <2> QED
    BY <2>1, <2>2 DEF IInv, TypeOK, remove_queue
<1>3. Contents' = [k \in 1 .. occupancy - 1 |-> entry'[Slot(k - 1)']]
  BY DEF Contents, remove_queue
<1>4. Contents' = Shorter
  BY <1>2, <1>3
<1>5. Contents # << >>
  BY <1>1, EmptySeq
<1>6. Tail(Contents) = Shorter
  <2>1. Shorter \in Seq(Packets) /\ Len(Shorter) = occupancy - 1
    <3>1. \A k \in 1 .. occupancy - 1 : Contents[k + 1] \in Packets
      BY <1>1, ElementOfSeq
    <3> QED
      BY <1>1, <3>1
  <2>2. /\ Tail(Contents) \in Seq(Packets)
        /\ Len(Tail(Contents)) = occupancy - 1
        /\ \A k \in 1 .. occupancy - 1 : Tail(Contents)[k] = Contents[k + 1]
    BY <1>1, <1>5, HeadTailProperties
  <2>3. \A k \in 1 .. occupancy - 1 : Tail(Contents)[k] = Shorter[k]
    BY <2>2
  <2> HIDE DEF Shorter
  <2> QED
    BY <1>1, <2>1, <2>2, <2>3, SeqEqual
<1> QED
  BY <1>4, <1>5, <1>6

(***************************************************************************)
(* The ring implements a first-in first-out queue of capacity SIZE: the    *)
(* empty ring is the empty queue, add_queue and an unmerged add_rq append  *)
(* at the back, remove_queue takes the oldest packet, and nothing else     *)
(* changes the sequence of packets.                                        *)
(***************************************************************************)
THEOREM RingIsFifo == Spec => ImplementsFifo
<1>1. Init => Fifo!Init
  BY DEF Init, Fifo!Init, Contents
<1>2. IInv /\ [Next]_vars => [Fifo!Next]_Contents
  <2> SUFFICES ASSUME IInv, [Next]_vars
               PROVE  [Fifo!Next]_Contents
    OBVIOUS
  <2>1. Len(Contents) = occupancy
    BY DEF Contents, IInv, TypeOK
  <2>2. ASSUME NEW a \in Addr, add_queue(a)
        PROVE  Fifo!Next
    BY <2>1, <2>2, InsertAppends DEF add_queue, Fifo!Next, Fifo!Enqueue
  <2>3. ASSUME NEW a \in Addr, add_rq(a)
        PROVE  Fifo!Next
    <3>1. occupancy < SIZE
      BY <2>3 DEF add_rq, IInv, TypeOK
    <3> QED
      BY <2>1, <2>3, <3>1, InsertAppends DEF add_rq, Fifo!Next, Fifo!Enqueue
  <2>4. CASE remove_queue
    BY <2>4, RemoveTails DEF Fifo!Next, Fifo!Dequeue
  <2>5. CASE UNCHANGED vars
    BY <2>5 DEF vars, Contents, Slot
  <2> QED
    BY <2>2, <2>3, <2>4, <2>5 DEF Next
<1> QED
  BY <1>1, <1>2, RingCorrect, PTL DEF Spec, IInv, ImplementsFifo, Fifo!Spec
-----------------------------------------------------------------------------
(***************************************************************************)
(* The set of blocks.                                                      *)
(***************************************************************************)
USE WayAssumption DEF Ways

(***************************************************************************)
(* check_hit returns -1 or a valid way that holds the address.             *)
(***************************************************************************)
LEMMA CheckHitResult ==
  ASSUME BlocksTypeOK, NEW t \in Tags, check_hit(t) # -1
  PROVE  check_hit(t) \in Ways /\ valid[check_hit(t)] /\ tag[check_hit(t)] = t
<1>1. Matching(t) # {} /\ Matching(t) \in SUBSET Nat
  BY DEF check_hit, Matching
<1>2. \E way \in Matching(t) : \A other \in Matching(t) : way <= other
  BY <1>1, NatLeast
<1>3. check_hit(t) \in Matching(t)
  BY <1>1, <1>2 DEF check_hit
<1> QED
  BY <1>3 DEF Matching
-----------------------------------------------------------------------------
SetInv == BlocksTypeOK /\ Ranking

(***************************************************************************)
(* The victim of this set: an invalid way, or the least recent one of a     *)
(* full set.                                                               *)
(***************************************************************************)
LEMMA VictimOfSet ==
  ASSUME SetInv
  PROVE  LET victim == lru_victim(NUM_WAY, valid, lru)
         IN  /\ victim \in Ways
             /\ \/ ~valid[victim]
                \/ lru[victim] = NUM_WAY - 1 /\ \A way \in Ways : valid[way]
BY VictimExists DEF SetInv, BlocksTypeOK, Ranking

(***************************************************************************)
(* Promotion in this set.                                                  *)
(***************************************************************************)
LEMMA PromotionPreserves ==
  ASSUME SetInv, NEW way \in Ways, lru' = lru_update(NUM_WAY, lru, way)
  PROVE  Ranking' /\ lru' \in [Ways -> Ways]
<1>1. IsRanking(NUM_WAY, lru')
  BY UpdateRanking DEF SetInv, Ranking
<1> QED
  BY <1>1 DEF Ranking, IsRanking

(***************************************************************************)
(* In every reachable state the counters of a set are a ranking of its     *)
(* ways.                                                                   *)
(***************************************************************************)
THEOREM LruCorrect == SetSpec => [](BlocksTypeOK /\ Ranking)
<1>1. InitSet => SetInv
  BY DEF InitSet, SetInv, BlocksTypeOK, Ranking, IsRanking
<1>2. SetInv /\ [NextSet]_set_vars => SetInv'
  <2> SUFFICES ASSUME SetInv, [NextSet]_set_vars
               PROVE  SetInv'
    OBVIOUS
  <2>1. ASSUME NEW t \in Tags, Hit(t)
        PROVE  SetInv'
    <3>1. check_hit(t) \in Ways
      BY <2>1, CheckHitResult DEF Hit, SetInv
    <3> QED
      BY <2>1, <3>1, PromotionPreserves DEF Hit, SetInv, BlocksTypeOK
  <2>2. ASSUME NEW t \in Tags, Fill(t)
        PROVE  SetInv'
    BY <2>2, VictimOfSet, PromotionPreserves DEF Fill, fill_cache, SetInv, BlocksTypeOK
  <2>3. ASSUME NEW t \in Tags, PrefetchFill(t)
        PROVE  SetInv'
    BY <2>3, VictimOfSet DEF PrefetchFill, fill_cache, SetInv, BlocksTypeOK, Ranking
  <2>4. ASSUME NEW t \in Tags, invalidate_entry(t)
        PROVE  SetInv'
    BY <2>4 DEF invalidate_entry, SetInv, BlocksTypeOK, Ranking
  <2>5. ASSUME NEW way \in Ways, StaleHit(way)
        PROVE  SetInv'
    BY <2>5, PromotionPreserves DEF StaleHit, SetInv, BlocksTypeOK
  <2>6. CASE UNCHANGED set_vars
    BY <2>6 DEF set_vars, SetInv, BlocksTypeOK, Ranking
  <2> QED
    BY <2>1, <2>2, <2>3, <2>4, <2>5, <2>6 DEF NextSet
<1> QED
  BY <1>1, <1>2, PTL DEF SetSpec, SetInv

(***************************************************************************)
(* The blocks and counters of a set of any associativity keep their types: *)
(* no counter leaves the ranks, though lru_update only ever adds one.      *)
(***************************************************************************)
THEOREM LruTypeOK == SetSpec => []BlocksTypeOK
BY LruCorrect, PTL
-----------------------------------------------------------------------------
(***************************************************************************)
(* A ranking can be read both ways: each rank has one way.                 *)
(***************************************************************************)
LEMMA RankInverse ==
  ASSUME NEW counters, IsRanking(NUM_WAY, counters)
  PROVE  LET inverse == [rank \in Ways |-> CHOOSE way \in Ways : counters[way] = rank]
         IN  /\ \A rank \in Ways : inverse[rank] \in Ways /\ counters[inverse[rank]] = rank
             /\ \A way \in Ways : counters[way] \in Ways /\ inverse[counters[way]] = way
<1>1. ASSUME NEW rank \in Ways
      PROVE  LET way == CHOOSE w \in Ways : counters[w] = rank
             IN  way \in Ways /\ counters[way] = rank
  <2>1. \E w \in Ways : counters[w] = rank
    BY DEF IsRanking
  <2> QED
    BY <2>1
<1>2. ASSUME NEW way \in Ways
      PROVE  counters[way] \in Ways
  BY DEF IsRanking
<1>3. ASSUME NEW way \in Ways
      PROVE  (CHOOSE w \in Ways : counters[w] = counters[way]) = way
  BY DEF IsRanking
<1> QED
  BY <1>1, <1>2, <1>3

(***************************************************************************)
(* Promoting a way moves it to the front of the recency list and leaves    *)
(* the relative order of the others alone.                                 *)
(***************************************************************************)
LEMMA PromotionMoves ==
  ASSUME SetInv, NEW way \in Ways, lru' = lru_update(NUM_WAY, lru, way)
  PROVE  Order' = Recency!MoveToFront(lru[way])
<1>1. /\ \A rank \in Ways : Order[rank] \in Ways /\ lru[Order[rank]] = rank
      /\ \A w \in Ways : lru[w] \in Ways /\ Order[lru[w]] = w
  BY RankInverse DEF SetInv, Ranking, Order
<1>2. IsRanking(NUM_WAY, lru')
  BY UpdateRanking DEF SetInv, Ranking
<1>3. \A w \in Ways : Order'[lru'[w]] = w
  BY <1>2, RankInverse DEF Order
<1>4. ASSUME NEW i \in Ways
      PROVE  Order'[i] = Recency!MoveToFront(lru[way])[i]
  <2>1. CASE i = 0
    <3>1. lru'[way] = 0
      BY DEF lru_update
    <3> QED
      BY <1>1, <1>3, <2>1, <3>1 DEF Recency!MoveToFront, Recency!Ranks
  <2>2. CASE i # 0 /\ i <= lru[way]
    <3> DEFINE w == Order[i - 1]
    <3>1. i - 1 \in Ways
      BY <2>2
    <3>2. w \in Ways /\ lru[w] = i - 1
      BY <1>1, <3>1
    <3>3. w # way /\ lru[w] < lru[way]
      BY <1>1, <2>2, <3>2
    <3>4. lru'[w] = i
      BY <3>2, <3>3 DEF lru_update
    <3>5. Order'[i] = w
      BY <1>3, <3>2, <3>4
    <3> QED
      BY <2>2, <3>5 DEF Recency!MoveToFront, Recency!Ranks
  <2>3. CASE i > lru[way]
    <3> DEFINE w == Order[i]
    <3>1. w \in Ways /\ lru[w] = i
      BY <1>1
    <3>2. w # way /\ ~(lru[w] < lru[way])
      BY <1>1, <2>3, <3>1
    <3>3. lru'[w] = i
      BY <3>1, <3>2 DEF lru_update
    <3>4. Order'[i] = w
      BY <1>3, <3>1, <3>3
    <3>5. lru[way] \in Ways
      BY <1>1
    <3> QED
      BY <2>3, <3>4, <3>5 DEF Recency!MoveToFront, Recency!Ranks
  <2>4. lru[way] \in Ways
    BY <1>1
  <2> QED
    BY <2>1, <2>2, <2>3, <2>4
<1>5. Order' = [i \in Ways |-> Order'[i]]
  BY DEF Order
<1>6. Recency!MoveToFront(lru[way]) = [i \in Ways |-> Recency!MoveToFront(lru[way])[i]]
  BY DEF Recency!MoveToFront, Recency!Ranks
<1> QED
  BY <1>4, <1>5, <1>6

(***************************************************************************)
(* The victim is a way the recency list allows to be replaced.             *)
(***************************************************************************)
LEMMA VictimReplaceable ==
  ASSUME SetInv
  PROVE  LET way == lru_victim(NUM_WAY, valid, lru)
         IN  /\ way \in Ways
             /\ lru[way] \in Ways
             /\ Order[lru[way]] = way
             /\ Recency!Replaceable(lru[way])
<1> DEFINE way == lru_victim(NUM_WAY, valid, lru)
<1>1. way \in Ways /\ (~valid[way] \/ (lru[way] = NUM_WAY - 1 /\ \A w \in Ways : valid[w]))
  BY VictimOfSet
<1>2. lru[way] \in Ways /\ Order[lru[way]] = way
  BY <1>1, RankInverse DEF SetInv, Ranking, Order
<1> HIDE DEF way
<1>3. Recency!Replaceable(lru[way])
  BY <1>1, <1>2 DEF Recency!Replaceable, Recency!Ranks, Full
<1> QED
  BY <1>1, <1>2, <1>3 DEF way

(***************************************************************************)
(* The counters implement least-recently-used replacement: every hit is a  *)
(* use of the list, every fill replaces an empty way or the back of the    *)
(* list, and a prefetch or an invalidation leaves the order alone.         *)
(***************************************************************************)
THEOREM LruIsRecencyList == SetSpec => ImplementsRecencyList
<1>1. InitSet => Recency!Init
  <2> SUFFICES ASSUME InitSet
               PROVE  Recency!Init
    OBVIOUS
  <2>1. Order = [rank \in Ways |-> rank]
    BY DEF InitSet, Order
  <2>2. Full = {}
    BY DEF InitSet, Full
  <2> QED
    BY <2>1, <2>2 DEF InitSet, Recency!Init, Recency!Ranks
<1>2. SetInv /\ [NextSet]_set_vars => [Recency!Next]_<<Order, Full, tag>>
  <2> SUFFICES ASSUME SetInv, [NextSet]_set_vars
               PROVE  [Recency!Next]_<<Order, Full, tag>>
    OBVIOUS
  <2>1. ASSUME NEW way \in Ways, lru' = lru_update(NUM_WAY, lru, way), UNCHANGED <<valid, tag>>
        PROVE  Recency!Next
    <3>1. lru[way] \in Ways /\ Order' = Recency!MoveToFront(lru[way])
      BY <2>1, PromotionMoves DEF SetInv, BlocksTypeOK
    <3>2. Full' = Full
      BY <2>1 DEF Full
    <3> QED
      BY <2>1, <3>1, <3>2 DEF Recency!Next, Recency!Use, Recency!Ranks
  <2>2. ASSUME NEW t \in Tags, Hit(t)
        PROVE  Recency!Next
    BY <2>1, <2>2, CheckHitResult DEF Hit, SetInv
  <2>3. ASSUME NEW way \in Ways, StaleHit(way)
        PROVE  Recency!Next
    BY <2>1, <2>3 DEF StaleHit
  <2>4. ASSUME NEW t \in Tags, Fill(t)
        PROVE  Recency!Next
    <3> DEFINE way == lru_victim(NUM_WAY, valid, lru)
    <3>1. /\ way \in Ways /\ lru[way] \in Ways
          /\ Order[lru[way]] = way /\ Recency!Replaceable(lru[way])
      BY VictimReplaceable
    <3>2. fill_cache(way, t) /\ lru' = lru_update(NUM_WAY, lru, way)
      BY <2>4 DEF Fill
    <3> HIDE DEF way
    <3>3. Order' = Recency!MoveToFront(lru[way])
      BY <3>1, <3>2, PromotionMoves
    <3>4. Full' = Full \cup {way}
      BY <3>1, <3>2 DEF Full, fill_cache, SetInv, BlocksTypeOK
    <3>5. Recency!Fill(t)
      BY <3>1, <3>2, <3>3, <3>4 DEF fill_cache, Recency!Fill, Recency!Ranks
    <3> QED
      BY <3>5 DEF Recency!Next
  <2>5. ASSUME NEW t \in Tags, PrefetchFill(t)
        PROVE  Recency!Next
    <3> DEFINE way == lru_victim(NUM_WAY, valid, lru)
    <3>1. /\ way \in Ways /\ lru[way] \in Ways
          /\ Order[lru[way]] = way /\ Recency!Replaceable(lru[way])
      BY VictimReplaceable
    <3>2. fill_cache(way, t) /\ UNCHANGED lru
      BY <2>5 DEF PrefetchFill
    <3> HIDE DEF way
    <3>3. Order' = Order
      BY <3>2 DEF Order
    <3>4. Full' = Full \cup {way}
      BY <3>1, <3>2 DEF Full, fill_cache, SetInv, BlocksTypeOK
    <3>5. Recency!Prefetch(t)
      BY <3>1, <3>2, <3>3, <3>4 DEF fill_cache, Recency!Prefetch, Recency!Ranks
    <3> QED
      BY <3>5 DEF Recency!Next
  <2>6. ASSUME NEW t \in Tags, invalidate_entry(t)
        PROVE  Recency!Next
    <3>1. check_hit(t) \in Full
      BY <2>6, CheckHitResult DEF invalidate_entry, SetInv, Full
    <3>2. Full' = Full \ {check_hit(t)}
      BY <2>6, <3>1 DEF invalidate_entry, Full, SetInv, BlocksTypeOK
    <3>3. Order' = Order /\ tag' = tag
      BY <2>6 DEF invalidate_entry, Order
    <3> QED
      BY <3>1, <3>2, <3>3 DEF Recency!Next, Recency!Drop
  <2>7. CASE UNCHANGED set_vars
    BY <2>7 DEF set_vars, Order, Full
  <2> QED
    BY <2>2, <2>3, <2>4, <2>5, <2>6, <2>7 DEF NextSet
<1> QED
  BY <1>1, <1>2, LruCorrect, PTL DEF SetSpec, SetInv, ImplementsRecencyList, Recency!Spec

=============================================================================
