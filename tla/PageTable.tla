----------------------------- MODULE PageTable -----------------------------
(***************************************************************************)
(* va_to_pa (main.cc): the page table, its inverse, the queue of pages and *)
(* the allocation of frames in runs of adjacent numbers that start at      *)
(* random places.  The footprint and fault statistics are left out.        *)
(***************************************************************************)
EXTENDS Translation, Sequences

CONSTANTS
  RandomFrames,  \* what champsim_rand.draw_rand may return
  Runs,          \* the run lengths 1 << (rand() % 10)
  Modulus        \* num_adjacent_page is an unsigned integer modulo this, 2^64

ASSUME RunAssumption == Modulus \in Nat \ {0} /\ Runs \subseteq 1 .. Modulus - 1
\* A frame is drawn at random or lies in a run that starts at such a frame.
ASSUME FrameAssumption ==
  /\ RandomFrames \subseteq Nat
  /\ \A frame \in RandomFrames, k \in 0 .. DRAM_PAGES : frame + k \in Frames

VARIABLES
  page_table,
  inverse_table,
  page_queue,         \* the pages in the order they were entered
  previous_ppage,     \* the frame allocated last
  num_adjacent_page,  \* what is left of the current run
  allocated_pages

vars == <<page_table, inverse_table, page_queue, previous_ppage,
          num_adjacent_page, allocated_pages>>

TypeOK ==
  /\ DOMAIN page_table \subseteq Pages
  /\ InUse(page_table) \subseteq Frames
  /\ DOMAIN inverse_table \subseteq Frames
  /\ InUse(inverse_table) \subseteq Pages
  /\ page_queue \in Seq(Pages)
  /\ previous_ppage \in Nat
  /\ num_adjacent_page \in 0 .. Modulus - 1
  /\ allocated_pages \in Nat
-----------------------------------------------------------------------------
Init ==
  /\ page_table = << >>
  /\ inverse_table = << >>
  /\ page_queue = << >>
  /\ previous_ppage = 0
  /\ num_adjacent_page = 0
  /\ allocated_pages = 0

Free(frame) == frame \notin DOMAIN inverse_table

\* The frame tried first continues the run, if there is one.
Successor == num_adjacent_page > 0 /\ Free(previous_ppage + 1)

\* Mutant: a page at a random place does not set fragmented.
num_adjacent_pageWraps ==
  IF num_adjacent_page = 0 \/ Successor
  THEN {(num_adjacent_page - 1) % Modulus}
  ELSE Runs

\* Mutant: the same with a signed counter.
num_adjacent_pageSigned ==
  IF num_adjacent_page = 0 \/ Successor
  THEN {num_adjacent_page - 1}
  ELSE Runs

\* num_adjacent_page--, then a new run when the page did not continue the old one.
num_adjacent_pageNext ==
  IF Successor
  THEN {(num_adjacent_page - 1) % Modulus}
  ELSE Runs

\* Mutant: one page too many is allocated.
AllocateLate(page) ==
  /\ page \notin DOMAIN page_table
  /\ allocated_pages <= DRAM_PAGES
  /\ \E frame \in IF Successor THEN {previous_ppage + 1} ELSE RandomFrames :
       /\ Free(frame)
       /\ page_table' = Mapped(page_table, page, frame)
       /\ inverse_table' = Mapped(inverse_table, frame, page)
       /\ previous_ppage' = frame
  /\ num_adjacent_page' \in num_adjacent_pageNext
  /\ page_queue' = Append(page_queue, page)
  /\ allocated_pages' = allocated_pages + 1

\* Mutant: the second draw is not looked up in inverse_table.
AllocateUnchecked(page) ==
  /\ page \notin DOMAIN page_table
  /\ allocated_pages < DRAM_PAGES
  /\ \E frame \in IF Successor THEN {previous_ppage + 1} ELSE RandomFrames :
       /\ page_table' = Mapped(page_table, page, frame)
       /\ inverse_table' = Mapped(inverse_table, frame, page)
       /\ previous_ppage' = frame
  /\ num_adjacent_page' \in num_adjacent_pageNext
  /\ page_queue' = Append(page_queue, page)
  /\ allocated_pages' = allocated_pages + 1

\* No translation found, memory left: "try to allocate pages contiguously".
Allocate(page) ==
  /\ page \notin DOMAIN page_table
  /\ allocated_pages < DRAM_PAGES
  /\ \E frame \in IF Successor THEN {previous_ppage + 1} ELSE RandomFrames :
       /\ Free(frame)
       /\ page_table' = Mapped(page_table, page, frame)
       /\ inverse_table' = Mapped(inverse_table, frame, page)
       /\ previous_ppage' = frame
  /\ num_adjacent_page' \in num_adjacent_pageNext
  /\ page_queue' = Append(page_queue, page)
  /\ allocated_pages' = allocated_pages + 1

\* Mutant: the inverse table keeps naming the page that was swapped out.
SwapOneWay(page) ==
  /\ page \notin DOMAIN page_table
  /\ allocated_pages >= DRAM_PAGES
  /\ page_table' = Swapped(page_table, page)
  /\ page_queue' = Append(Tail(page_queue), page)
  /\ UNCHANGED <<inverse_table, previous_ppage, num_adjacent_page, allocated_pages>>

\* No translation found, memory full: the victim's frame changes hands.
Swap(page) ==
  /\ page \notin DOMAIN page_table
  /\ allocated_pages >= DRAM_PAGES
  /\ page_table' = Swapped(page_table, page)
  /\ inverse_table' = [inverse_table EXCEPT ![page_table[NRU_vpage(page_table)]] = page]
  /\ page_queue' = Append(Tail(page_queue), page)
  /\ UNCHANGED <<previous_ppage, num_adjacent_page, allocated_pages>>

\* A translation of a page that is mapped changes nothing.
Found(page) ==
  /\ page \in DOMAIN page_table
  /\ UNCHANGED vars

va_to_pa(page) == Allocate(page) \/ Swap(page) \/ Found(page)

Next == \E page \in Pages : va_to_pa(page)

Spec == Init /\ [][Next]_vars
-----------------------------------------------------------------------------
(***************************************************************************)
(* page_table and inverse_table are inverse to each other, so that no two  *)
(* pages share a frame and the search for a free frame, which looks at     *)
(* inverse_table only, sees every frame in use, across runs, collisions    *)
(* and swaps.                                                              *)
(***************************************************************************)
MutualInverse ==
  /\ \A page \in DOMAIN page_table :
       /\ page_table[page] \in DOMAIN inverse_table
       /\ inverse_table[page_table[page]] = page
  /\ \A frame \in DOMAIN inverse_table :
       /\ inverse_table[frame] \in DOMAIN page_table
       /\ page_table[inverse_table[frame]] = frame

\* num_adjacent_page is decremented even when it is 0; because a new run is then drawn
\* at once, no wrapped value is ever left behind to make every later page contiguous.
RunBounded == num_adjacent_page = 0 \/ \E run \in Runs : num_adjacent_page <= run

(***************************************************************************)
(* The counters va_to_pa decides by are right: allocated_pages, which      *)
(* chooses between allocation and swap, counts the mapped pages and stays  *)
(* within memory, page_queue is as long, and num_adjacent_page, which      *)
(* keeps frames contiguous, never exceeds the run that was drawn.          *)
(***************************************************************************)
Accounting ==
  /\ Cardinality(DOMAIN page_table) = allocated_pages
  /\ Len(page_queue) = allocated_pages
  /\ allocated_pages <= DRAM_PAGES
  /\ RunBounded

(***************************************************************************)
(* va_to_pa implements the abstract translation.                           *)
(***************************************************************************)
Map == INSTANCE AddressMap

ImplementsAddressMap == Map!Spec

=============================================================================
