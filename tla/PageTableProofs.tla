-------------------------- MODULE PageTableProofs --------------------------
(***************************************************************************)
(* Proofs about va_to_pa for every set of pages, every amount of memory    *)
(* and every run length.  The inductive invariant adds to the checked      *)
(* invariants where the frame allocated last can lie: at most as far into  *)
(* a run as pages have been allocated.                                     *)
(***************************************************************************)
EXTENDS PageTable, FiniteSetTheorems, SequenceTheorems, CommonLemmas

USE PagesAssumption, DramAssumption, RunAssumption, FrameAssumption

\* The last frame lies in a run that began at a random frame.
LastFrame ==
  /\ allocated_pages > 0 =>
       \E frame \in RandomFrames, k \in 0 .. allocated_pages - 1 :
         previous_ppage = frame + k
  /\ num_adjacent_page > 0 => allocated_pages > 0

IInv ==
  /\ TypeOK
  /\ MutualInverse
  /\ IsFiniteSet(DOMAIN page_table)
  /\ Accounting
  /\ LastFrame

(***************************************************************************)
(* When memory is full there is a page to swap out.                        *)
(***************************************************************************)
LEMMA VictimMapped ==
  ASSUME IInv, allocated_pages >= DRAM_PAGES
  PROVE  NRU_vpage(page_table) \in DOMAIN page_table
<1>1. DOMAIN page_table # {}
  BY FS_EmptySet DEF IInv, Accounting
<1>2. DOMAIN page_table \in SUBSET Nat
  BY DEF IInv, TypeOK
<1>3. \E page \in DOMAIN page_table : \A other \in DOMAIN page_table : page <= other
  BY <1>1, <1>2, NatLeast
<1> QED
  BY <1>3 DEF NRU_vpage

(***************************************************************************)
(* The frame an allocation takes is one memory may have, and is not in use.*)
(***************************************************************************)
LEMMA FrameAllowed ==
  ASSUME IInv, allocated_pages < DRAM_PAGES,
         NEW frame \in IF Successor THEN {previous_ppage + 1} ELSE RandomFrames
  PROVE  /\ frame \in Frames
         /\ frame \in Nat
         /\ \E start \in RandomFrames, k \in 0 .. allocated_pages : frame = start + k
<1>1. allocated_pages \in Nat
  BY DEF IInv, TypeOK
<1>2. \E start \in RandomFrames, k \in 0 .. allocated_pages : frame = start + k
  <2>1. CASE Successor
    <3>1. num_adjacent_page > 0 /\ allocated_pages > 0
      BY <2>1 DEF Successor, IInv, LastFrame
    <3>2. PICK start \in RandomFrames, k \in 0 .. allocated_pages - 1 :
                 previous_ppage = start + k
      BY <3>1 DEF IInv, LastFrame
    <3>3. k + 1 \in 0 .. allocated_pages /\ frame = start + (k + 1)
      BY <1>1, <2>1, <3>2
    <3> QED
      BY <3>3
  <2>2. CASE ~Successor
    <3>1. frame = frame + 0 /\ 0 \in 0 .. allocated_pages
      BY <1>1, <2>2
    <3> QED
      BY <2>2, <3>1
  <2> QED
    BY <2>1, <2>2
<1> QED
  BY <1>1, <1>2

(***************************************************************************)
(* A new run is within the range of the counter, and a continued run gets  *)
(* shorter.                                                                *)
(***************************************************************************)
LEMMA RunStep ==
  ASSUME IInv, NEW run \in num_adjacent_pageNext
  PROVE  /\ run \in 0 .. Modulus - 1
         /\ run = 0 \/ \E other \in Runs : run <= other
<1>1. CASE Successor
  <2>1. num_adjacent_page \in 1 .. Modulus - 1
    BY <1>1 DEF Successor, IInv, TypeOK
  <2>2. run = num_adjacent_page - 1
    BY <1>1, <2>1 DEF num_adjacent_pageNext
  <2>3. PICK other \in Runs : num_adjacent_page <= other
    BY <2>1 DEF IInv, Accounting, RunBounded
  <2> QED
    BY <2>1, <2>2, <2>3
<1>2. CASE ~Successor
  BY <1>2 DEF num_adjacent_pageNext
<1> QED
  BY <1>1, <1>2

(***************************************************************************)
(* Allocating a frame for a page preserves the invariant.                  *)
(***************************************************************************)
LEMMA AllocatePreserves ==
  ASSUME IInv, NEW page \in Pages, Allocate(page)
  PROVE  IInv'
<1>1. PICK frame \in IF Successor THEN {previous_ppage + 1} ELSE RandomFrames :
        /\ Free(frame)
        /\ page_table' = Mapped(page_table, page, frame)
        /\ inverse_table' = Mapped(inverse_table, frame, page)
        /\ previous_ppage' = frame
  BY DEF Allocate
<1>2. /\ frame \in Frames
      /\ frame \in Nat
      /\ \E start \in RandomFrames, k \in 0 .. allocated_pages : frame = start + k
  <2>1. allocated_pages < DRAM_PAGES
    BY DEF Allocate
  <2> QED
    BY <2>1, FrameAllowed
<1>3. page \notin DOMAIN page_table /\ frame \notin DOMAIN inverse_table
  BY <1>1 DEF Allocate, Free
<1>4. /\ DOMAIN page_table' = DOMAIN page_table \cup {page}
      /\ DOMAIN inverse_table' = DOMAIN inverse_table \cup {frame}
      /\ page_table'[page] = frame
      /\ \A q \in DOMAIN page_table : page_table'[q] = page_table[q]
      /\ inverse_table'[frame] = page
      /\ \A f \in DOMAIN inverse_table : inverse_table'[f] = inverse_table[f]
  BY <1>1, <1>3 DEF Mapped
<1>5. allocated_pages \in Nat /\ allocated_pages' = allocated_pages + 1
  BY DEF Allocate, IInv, TypeOK
<1>6. page_queue' \in Seq(Pages) /\ Len(page_queue') = Len(page_queue) + 1
  BY AppendProperties DEF Allocate, IInv, TypeOK
<1>7. num_adjacent_page' \in 0 .. Modulus - 1 /\ RunBounded'
  BY RunStep DEF Allocate, RunBounded
<1>8. TypeOK'
  <2>1. InUse(page_table)' \subseteq Frames /\ InUse(inverse_table)' \subseteq Pages
    BY <1>2, <1>4 DEF InUse, IInv, TypeOK
  <2> QED
    BY <1>1, <1>2, <1>4, <1>5, <1>6, <1>7, <2>1 DEF IInv, TypeOK
<1>9. MutualInverse'
  BY <1>3, <1>4 DEF IInv, MutualInverse
<1>10. /\ IsFiniteSet(DOMAIN page_table)'
       /\ Cardinality(DOMAIN page_table)' = Cardinality(DOMAIN page_table) + 1
  BY <1>3, <1>4, FS_AddElement DEF IInv
<1>11. Accounting'
  BY <1>5, <1>6, <1>7, <1>10 DEF Accounting, IInv, Allocate, TypeOK
<1>12. LastFrame'
  BY <1>1, <1>2, <1>5 DEF LastFrame
<1> QED
  BY <1>8, <1>9, <1>10, <1>11, <1>12 DEF IInv

(***************************************************************************)
(* Moving the frame of the page that is swapped out to the page that       *)
(* faults preserves the invariant.                                         *)
(***************************************************************************)
LEMMA SwapPreserves ==
  ASSUME IInv, NEW page \in Pages, Swap(page)
  PROVE  IInv'
<1> DEFINE victim == NRU_vpage(page_table)
           frame == page_table[victim]
<1>1. victim \in DOMAIN page_table /\ page \notin DOMAIN page_table
  BY VictimMapped DEF Swap
<1>2. frame \in DOMAIN inverse_table /\ inverse_table[frame] = victim
  BY <1>1 DEF IInv, MutualInverse
<1>3. /\ DOMAIN page_table' = (DOMAIN page_table \ {victim}) \cup {page}
      /\ page_table'[page] = frame
      /\ \A q \in DOMAIN page_table \ {victim} : page_table'[q] = page_table[q]
  BY <1>1 DEF Swap, Swapped, Moved
<1>4. /\ DOMAIN inverse_table' = DOMAIN inverse_table
      /\ inverse_table'[frame] = page
      /\ \A f \in DOMAIN inverse_table \ {frame} : inverse_table'[f] = inverse_table[f]
  BY <1>2 DEF Swap
<1> HIDE DEF victim, frame
<1>5. frame = page_table[victim]
  BY DEF frame
<1>6. TypeOK'
  <2>1. page_queue' \in Seq(Pages)
    <3>1. page_queue # << >>
      BY EmptySeq DEF Swap, IInv, Accounting, TypeOK
    <3>2. Tail(page_queue) \in Seq(Pages)
      BY <3>1, HeadTailProperties DEF IInv, TypeOK
    <3> QED
      BY <3>2, AppendProperties DEF Swap
  <2>2. InUse(page_table)' \subseteq Frames
    BY <1>1, <1>3, <1>5 DEF InUse, IInv, TypeOK
  <2>3. InUse(inverse_table)' \subseteq Pages
    BY <1>2, <1>4 DEF InUse, IInv, TypeOK
  <2> QED
    BY <1>1, <1>3, <1>4, <2>1, <2>2, <2>3 DEF IInv, TypeOK, Swap
<1>7. MutualInverse'
  BY <1>1, <1>2, <1>3, <1>4, <1>5 DEF IInv, MutualInverse
<1>8. /\ IsFiniteSet(DOMAIN page_table)'
      /\ Cardinality(DOMAIN page_table)' = Cardinality(DOMAIN page_table)
  <2> DEFINE rest == DOMAIN page_table \ {victim}
  <2>1. IsFiniteSet(rest) /\ Cardinality(rest) = Cardinality(DOMAIN page_table) - 1
    BY <1>1, FS_RemoveElement DEF IInv
  <2>2. page \notin rest /\ DOMAIN page_table' = rest \cup {page}
    BY <1>1, <1>3
  <2>3. /\ IsFiniteSet(rest \cup {page})
        /\ Cardinality(rest \cup {page}) = Cardinality(rest) + 1
    <3> HIDE DEF rest
    <3> QED
      BY <2>1, <2>2, FS_AddElement
  <2>4. Cardinality(DOMAIN page_table) \in Nat
    BY FS_CardinalityType DEF IInv
  <2> QED
    BY <2>1, <2>2, <2>3, <2>4
<1>9. Accounting'
  <2>1. page_queue \in Seq(Pages) /\ page_queue # << >>
    BY EmptySeq DEF Swap, IInv, Accounting, TypeOK
  <2>2. Tail(page_queue) \in Seq(Pages) /\ Len(Tail(page_queue)) = Len(page_queue) - 1
    BY <2>1, HeadTailProperties
  <2>3. Len(page_queue') = Len(page_queue)
    BY <2>1, <2>2, AppendProperties, LenProperties DEF Swap
  <2> QED
    BY <1>8, <2>3 DEF IInv, Accounting, RunBounded, Swap
<1>10. LastFrame'
  BY DEF IInv, LastFrame, Swap
<1> QED
  BY <1>6, <1>7, <1>8, <1>9, <1>10 DEF IInv

(***************************************************************************)
(* The invariant is inductive.                                             *)
(***************************************************************************)
LEMMA InvariantStep == IInv /\ [Next]_vars => IInv'
<1> SUFFICES ASSUME IInv, [Next]_vars
             PROVE  IInv'
  OBVIOUS
<1>1. ASSUME NEW page \in Pages, Allocate(page)
      PROVE  IInv'
  BY <1>1, AllocatePreserves
<1>2. ASSUME NEW page \in Pages, Swap(page)
      PROVE  IInv'
  BY <1>2, SwapPreserves
<1>3. CASE UNCHANGED vars
  BY <1>3 DEF vars, IInv, TypeOK, MutualInverse, Accounting, RunBounded, LastFrame
<1> QED
  BY <1>1, <1>2, <1>3 DEF Next, va_to_pa, Found

(***************************************************************************)
(* In every reachable state the two tables are inverse to each other, the  *)
(* counters agree with them, and the run counter has not wrapped.          *)
(***************************************************************************)
THEOREM PageTableCorrect ==
  Spec => [](TypeOK /\ MutualInverse /\ Accounting)
<1>1. Init => IInv
  BY FS_EmptySet, EmptySeq
     DEF Init, IInv, TypeOK, MutualInverse, Accounting, RunBounded, LastFrame, InUse
<1>2. IInv => TypeOK /\ MutualInverse /\ Accounting
  BY DEF IInv
<1> QED
  BY <1>1, <1>2, InvariantStep, PTL DEF Spec

(***************************************************************************)
(* allocated_pages counts the mapped pages and the queue of pages, never   *)
(* exceeds the memory, and the unsigned count of pages left in a run is    *)
(* never decremented below 0.                                              *)
(***************************************************************************)
THEOREM PageTableAccounting == Spec => []Accounting
BY PageTableCorrect, PTL

(***************************************************************************)
(* Pages are mapped to numbers in Frames only, however far a run of        *)
(* adjacent frames reaches.                                                *)
(***************************************************************************)
THEOREM PageTableTypeOK == Spec => []TypeOK
BY PageTableCorrect, PTL

(***************************************************************************)
(* The instance of the abstract map has the operators of this module.      *)
(***************************************************************************)
LEMMA SameGrants ==
  \A page \in Pages : Map!Grants(page_table, page) = Grants(page_table, page)
<1>1. Map!Cardinality(DOMAIN page_table) = Cardinality(DOMAIN page_table)
  BY DEF Map!Cardinality, Cardinality
<1>2. Map!Full(page_table) = Full(page_table)
  BY <1>1 DEF Map!Full, Full
<1>3. Map!InUse(page_table) = InUse(page_table)
  BY DEF Map!InUse, InUse
<1>4. ASSUME NEW page \in Pages
      PROVE  /\ \A victim \in DOMAIN page_table :
                  Map!Moved(page_table, victim, page) = Moved(page_table, victim, page)
             /\ \A frame \in Frames :
                  Map!Mapped(page_table, page, frame) = Mapped(page_table, page, frame)
  BY DEF Map!Moved, Moved, Map!Mapped, Mapped
<1> QED
  BY <1>2, <1>3, <1>4 DEF Map!Grants, Grants

(***************************************************************************)
(* va_to_pa implements the abstract translation: what it enters into       *)
(* page_table is a table that Grants allows.                               *)
(***************************************************************************)
THEOREM PageTableImplementsMap == Spec => ImplementsAddressMap
<1>1. Init => Map!Init
  BY DEF Init, Map!Init
<1>2. Init => IInv
  BY FS_EmptySet, EmptySeq
     DEF Init, IInv, TypeOK, MutualInverse, Accounting, RunBounded, LastFrame, InUse
<1>3. IInv /\ [Next]_vars => [Map!Next]_page_table
  <2> SUFFICES ASSUME IInv, [Next]_vars
               PROVE  [Map!Next]_page_table
    OBVIOUS
  <2>1. ASSUME NEW page \in Pages, Allocate(page)
        PROVE  Map!Next
    <3>1. PICK frame \in IF Successor THEN {previous_ppage + 1} ELSE RandomFrames :
            Free(frame) /\ page_table' = Mapped(page_table, page, frame)
      BY <2>1 DEF Allocate
    <3>2. allocated_pages < DRAM_PAGES /\ page \notin DOMAIN page_table
      BY <2>1 DEF Allocate
    <3>3. frame \in Frames
      BY <3>2, FrameAllowed
    <3>4. frame \notin InUse(page_table)
      BY <3>1 DEF Free, InUse, IInv, MutualInverse
    <3>5. ~Full(page_table)
      BY <3>2 DEF Full, IInv, Accounting, TypeOK
    <3>6. page_table' \in Grants(page_table, page)
      BY <3>1, <3>2, <3>3, <3>4, <3>5 DEF Grants
    <3> QED
      BY <3>6, SameGrants DEF Map!Next, Map!Translate
  <2>2. ASSUME NEW page \in Pages, Swap(page)
        PROVE  Map!Next
    <3>1. Full(page_table)
      BY <2>2 DEF Swap, Full, IInv, Accounting
    <3>2. NRU_vpage(page_table) \in DOMAIN page_table
      BY <2>2, VictimMapped DEF Swap
    <3>3. page_table' \in Grants(page_table, page)
      BY <2>2, <3>1, <3>2 DEF Swap, Swapped, Grants
    <3> QED
      BY <3>3, SameGrants DEF Map!Next, Map!Translate
  <2>3. CASE UNCHANGED vars
    BY <2>3 DEF vars
  <2> QED
    BY <2>1, <2>2, <2>3 DEF Next, va_to_pa, Found, vars
<1> QED
  BY <1>1, <1>2, <1>3, InvariantStep, PTL DEF Spec, ImplementsAddressMap, Map!Spec

=============================================================================
