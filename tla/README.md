# TLA+ models of the TLB-Prefetcher simulator

This directory specifies the parts of the simulator (ChampSim extended with a
shared second-level TLB and TLB prefetchers) in which ordering, sharing and
replacement decide whether a simulation is right: the packet queues, the LRU
policy, virtual memory, the TLB hierarchy with its prefetchers, the data caches, the
memory controller and the out-of-order core. TLC checks the models on small instances;
TLAPS proves the theorems of section 5 for every size. Source paths below are relative to `src/`.

## 1. The system

One call of the loop in `src/main.cc` advances every core by a cycle. A core that
is not stalled fetches, schedules, executes its load and store queues, operates
its caches, completes and retires. Everything runs in one thread: concurrency is
that of the simulated machine, in which requests of many instructions are in
flight in queues and registers and are merged, answered and replaced in the order
the cycle loop, the latencies and the prefetchers produce.

| Component | State | Operations | Talks to |
|---|---|---|---|
| `PACKET_QUEUE` (`inc/block.h`, `src/block.cc`) | ring of slots, `head`, `tail`, `occupancy` | `check_queue`, `add_queue`, `remove_queue`; `CACHE::add_rq/add_wq/add_pq` insert by hand | embedded in every cache |
| LRU policy (`replacement/base_replacement.cc`) | `lru` counter of each block | `lru_victim`, `lru_update` | called by fills, hits, prefetchers |
| Virtual memory (`va_to_pa`, `src/main.cc`) | `page_table`, `inverse_table`, `page_queue`, `previous_ppage`, `num_adjacent_page`, `allocated_pages` | translate: find, allocate, swap | called by the STLB and its prefetcher; invalidates blocks in all caches; stalls the core |
| TLBs (`src/cache.cc`) | blocks, `RQ`, `MSHR`, `PROCESSED` | `add_rq`, `handle_fill`, `handle_read`, `return_data`, `invalidate_entry` | core above, page table below, prefetcher callback |
| TLB prefetchers (`prefetcher/*.tlb_pref` and their headers) | correlation tables, divergence tables, footprints | `tlb_prefetcher_operate`, update and lookup of tables | read and fill the STLB, call `va_to_pa` |
| Data caches (`src/cache.cc`, `src/uncore.cc`) | as the TLBs, with `WQ`, `PQ`, dirty bits | also `handle_writeback`, `handle_prefetch`, `add_wq`, `add_pq`, `prefetch_line` | each other, DRAM |
| LLC replacement (`replacement/*.llc_repl`) | counters, predictors | victim, update | LLC |
| Memory controller (`src/dram_controller.cc`) | read and write queue per channel, bank state, `write_mode` | `schedule`, `process`, `operate`, `add_rq`, `add_wq` | LLC |
| Core (`src/ooo_cpu.cc`) | ROB, LQ, SQ, RTE/RTL/RTS rings | fetch, schedule, execute, forward, complete, retire | ITLB, DTLB, L1I, L1D |
| `fastset` (`inc/set.h`) | 12 sorted members or a bit set, in the same memory | insert, join, search | dependence lists of packets |
| Branch predictors (`branch/`) | weight tables | predict, train | core |

What makes these correct, component by component:

* *Packet queue*: the cursors agree, unused slots are blank, a search finds exactly
  what is queued, requests for one address are merged, packets leave in order.
* *LRU*: the counters of a set are always a permutation of the ranks; otherwise the
  search for a victim fails and the simulation stops.
* *Virtual memory*: the two tables are inverse to each other and the page count is exact
  through runs, collisions and swaps.
* *TLB hierarchy*: a return always finds the miss it answers; a miss always has a
  request that will answer it; no client is lost or answered twice by merging; a client
  is answered with its page's frame; every client is answered; blocks agree with
  the page table.
* *Data caches*: misses and answers match; what a store has modified stays modified
  somewhere until it is written below; every load is answered although fills wait for
  room in the write queues below them.
* *Memory controller*: no miss is dropped or returned twice, bank reservations and
  scheduled requests match through every change of mode, cached indices are never
  stale, neither reads nor writes starve.
* *Correlation lists*: a list predicts distinct pages, its counters rank them, and a full
  list gives up the page that has waited longest.
* *fastset*: it is a set, in either representation and across the change.
* *Core*: loads get data from the youngest older store, every memory operation is
  counted down once, an instruction whose operations are done is completed, rings do
  not overrun, the trace retires.

The hard behaviours are listed with their lines under `hazards` in `PROJECT.json`:
merging of requests of different kinds, callbacks that change a set between its
lookup and its use, swaps that race with translations in flight, counters and rings
at their limits, and answers that must come eventually.

## 2. Modules

| Module | Role |
|---|---|
| `BoundedFifo` | abstract: a bounded first-in first-out buffer |
| `PacketQueue` | the ring buffer; implements `BoundedFifo` |
| `LruPolicy` | `lru_victim` and `lru_update` as operators on one set |
| `RecencyList` | abstract: what least-recently-used replacement promises |
| `LruSet` | one set under every operation of a cache that touches it; implements `RecencyList` |
| `ContainerProofs` | the theorems of `PacketQueue` and `LruSet` |
| `Translation` | one call of `va_to_pa` as an operator on page tables |
| `AddressMap` | abstract: a page table changed by translations only, whichever page a swap takes the frame of |
| `PageTable` | `va_to_pa` with both tables, the queue and the runs; implements `AddressMap` |
| `PageTableProofs` | its theorems |
| `CommonLemmas` | least elements, sizes of images and rankings of ways, as several proofs need them |
| `TranslationService` | abstract: clients ask for pages and get their frames |
| `TlbHierarchy` | ITLB, DTLB and STLB over the page table, with prefetcher callbacks, stalls and the cycle loop; implements `TranslationService`: its safety if memory holds all pages, its liveness also without the shared pages of section 4 |
| `TlbHierarchyProofs` | its theorems |
| `CorrelationTable` | the address-correlating prefetchers GAC and PLAC |
| `CorrelationHistory` | what really followed each page, beside `CorrelationTable` |
| `CorrelationProofs` | the theorems of both |
| `MCCorrelation` | the instance of both |
| `MCTlb` | constants of the instances of `TlbHierarchy` |
| `DataCache` | L1D over L2C: loads, stores, prefetches, misses, write-backs |
| `DataCacheProofs` | its theorems |
| `MCDataCache` | constants of its instance |
| `Dram` | one channel of the memory controller |
| `DramProofs` | its theorems |
| `ReorderBuffer` | reorder buffer, register dependencies, load and store queue |
| `ReorderBufferProofs` | its theorems |
| `MCReorderBuffer` | its traces |
| `IndexSets` | abstract: sets of queue indices |
| `FastSet` | `fastset` in its two representations; implements `IndexSets` |
| `MCContainers` | instances of `PacketQueue`, `LruSet` and `FastSet`, each exercised alone |

The components meet at narrow interfaces: the core asks the DTLB and L1D, each cache asks
the one below by `add_rq`, `add_wq`, `add_pq` and is answered by `return_data`. Each
model has the other side of its interfaces as an environment: `ReorderBuffer` lets
the DTLB and L1D answer at any time, which `EveryRequestAnswered` and
`EveryLoadAnswered` justify; `DataCache` has a core that loads and stores anything and an
LLC that answers; `Dram` has an LLC with as many misses as it has registers.

`TlbHierarchy` composes the operators of `LruPolicy` and `Translation`; it uses
sequences for the request queues, which `PacketQueue` shows the rings to be.

### PacketQueue

`head`, `tail`, `occupancy` and `entry` are the fields of the class. A packet is the
address it is about. `usage` distinguishes the queues filled through
`add_rq/add_wq/add_pq`, which merge, from `PROCESSED`, filled through `add_queue`.
A merge leaves the ring alone and a refusal does too, so neither is a step. The
queue `L1D_WQ` compares `full_addr` where the others compare `address`; this changes
the key and nothing else. Removal is modelled at the head, where every caller
removes; the MSHR, which is indexed and not a ring, is part of `TlbHierarchy`.

### LruSet

`valid`, `tag` and `lru` of one set. The actions are the hit, the fill of a returned
miss, the fill by a prefetcher (which does not touch the counters), the
invalidation by a swap, and `StaleHit`: `handle_read` finds a way, calls the prefetcher,
which may replace or invalidate that block, and then promotes the way it found.

### PageTable

The draw of a frame is a choice in `RandomFrames`, the length of a run a choice in
`Runs`, and `num_adjacent_page` is unsigned modulo `Modulus`: it is decremented
at 0 in the code too. The loop that draws until the frame is free is one choice of
a free frame. Swaps pick the smallest key, because nothing ever enters
`recent_page`. Footprint and fault counters are left out.

`AddressMap` and `TranslationService` use `Grants`, in which a swap may take the frame of
any mapped page; `PageTable` and `TlbHierarchy` use `Walks`, in which it is that of the
smallest. So what is refined says nothing about the choice, on which the code and its
comment disagree (section 4).

### TlbHierarchy

*Clients* are the entries of the core that wait for a translation: ROB entries
(`Fetchers`, code pages) and load and store queue entries (`Loads`, `Stores`, data
pages). The sets of dependent entries of a packet (`rob_index_depend_on_me`,
`lq_...`, `sq_...`, and the packet's own index) are one set `waiters`.

*The cycle* is the variable `phase`: `issue` (requests of the core, in any order),
then `fill` and `read` of ITLB, DTLB and STLB in the order of `operate_cache`, then
`complete` (`update_rob`) and `tick`. While the core is stalled by a page walk only
`tick` happens, as in the loop of `main`.

*Calls out of a handler*: `tlb_prefetcher_operate` is called in the middle of
`handle_read` of the STLB. The phase `callback` lets it predict up to
`MaxPredictions` arbitrary pages, one `PrefetchFill` each; what `handle_read` holds
in locals meanwhile is in `lookup`. The predictors themselves decide which
page; the model allows any.

*Time* is relative to `current_core_cycle`. An `event` is how far in the future a
packet is due; of returned misses that are overdue only the order is kept, because
`update_fill_cycle` takes the earliest.

*Left out*: the write and prefetch queues of the TLBs (nothing is ever added to
them), statistics, other cores, and the change of the latencies at the end of
warmup: instances have constant latencies, zero or not. Frame 0 is excluded: `draw_rand` may
return it with probability 2^-36, and `fill_cache` stops at an assert if it does.

### CorrelationTable

`corr_map` gives each page the list of the pages that followed it, `find_prefetch_addrs`
is one access. PLAC has a table for every instruction address; GAC is the case of
a single one. Counters only grow between resets and are compared with `S - 1` only, so
values from `S` on are one value; this abstraction loses nothing.

`CorrelationHistory` adds two history variables, which never look at a list. `followers` holds
the last `S` distinct pages that followed each page, newest first; `orderly` is true until
one of these follows again although another has waited longer.

### DataCache

Each cache has `RQ`, `WQ`, `PQ`, its registers `MSHR` as a function of the line in
flight, its blocks with dirty bits and its `lru` counters; `returned` lists the registers
whose data has come back, in order. The actions are the branches of `handle_fill`,
`handle_writeback`, `handle_read` and `handle_prefetch`, with every call into the next
cache made inside the action (`RequestBelow`, `WriteBelow`, `Prefetching`).

*Left out*: latencies (a packet may be ready any time after it was added; of two that are
due in one cycle the order of return decides), statistics with `read_occupancy`, the
L1I, `invalidate_entry`, and the queue `PROCESSED` of the L1D: a load is done when its
line is. The prefetchers of both caches are steps of their own that ask for any pair in
`Prefetched`; `kpc_prefetch_line` adds the same packet. The read and prefetch queues of
the LLC always accept, because each has a slot for every
register of the L2C (`LLC_RQ_SIZE` and `LLC_PQ_SIZE` are `NUM_CPUS*L2C_MSHR_SIZE`).

*External*: `LLCReturns` and `LLCWrites`. The LLC answers every read and takes every
write-back; a write-back that is still queued there answers a read at once, as
`CACHE::add_rq` does.

### Dram

One channel. `queue` holds both rings, in which the code searches from slot 0;
`next_schedule_index` and `next_process_index` are the fields of the same name, with
the size as "none"; the cached cycles are those of the slots they name. A cycle is the
variable `phase`: the LLC adds requests, `operate` may switch its mode, schedules at most
one request, processes at most one, and the cycle counter advances. Times are relative to
`current_core_cycle`; of requests that are overdue only the order matters, so `Aged`
keeps ranks. `waiting` is the set of lines the LLC has asked for and not got back: it
stands for the registers of the LLC, and `EveryMissQueued` compares it with the queue.

`CHANNEL_SPAN` is 2 with a single channel because `LOG2_DRAM_CHANNELS` is 1 while
`DRAM_CHANNELS` is 1: a bit of the address is skipped. *Left out*: statistics,
`row_buffer_hit`, which is only counted, and the immediate replies during warm-up.
`Window` bounds how many requests arrive while a read waits: behind a waiting load
the reorder buffer fills up. Without it row hits could overtake a read for ever.

### ReorderBuffer

An instruction is named by its place in the trace, which also stands for `rob_index`:
the entry of a retired instruction is `Blank`, and a reused entry is another instruction.
Each handler works on the oldest of its list, so that what a cycle handles depends on
widths and latencies only; these are left out and any handler that can do something may
be next. Fetching (ITLB, L1I) is a delay before `do_scheduling`. `check_and_add_lsq` is
one step that adds all operands that find room, one after the other. Instructions that
`complete_execution` makes ready enter `RTE0` in the order of their entries in the ring, as
the loop over the dependence bits finds them.

`seen` records which store each load has taken its value from: the one that forwards,
or the last one retired to the address when the L1D answers. Requests that the DTLB
or L1D merge are answered one by one, in any order. `SQ.head` is never used, the WAR reset
does nothing, and neither is modelled. The assert of `execute_store`, that a load it releases
waits for this store, is a guard (`OwnDependents`): if it fails the program stops. An address
appears once in an instruction's list, and the queues hold the stores of any one
instruction (`TraceAssumption`): with the same store address twice, `execute_store` would
find the loads of the second one forwarded already and stop at its assert.

### FastSet

`set` holds two `fastset` objects as records of `card`, the sorted `values` and the `bits`;
the memory the latter two share is modelled by leaving the one not in use empty, since
`smalltobit` copies and clears it and nothing else changes `card` across `SMALL_SIZE`.
`insert`, `join`, `search` (linear, by bisection, by bit) and `expand` are operators; the
actions are their uses: a request merged in a queue inserts an index, one merged into a
miss joins its sets, a packet is copied or its slot emptied. `n` is the size of the queue
the indices belong to, chosen at the start. `Words` keeps the rounding of `join`, "the next
multiple of 64" even for a multiple: with `ROB_SIZE` it reads and writes one word too
many, which is the member `card` laid out behind the bits. The values there are or-ed;
both are `SMALL_SIZE`, so that nothing changes as long as the compiler keeps that layout.
The other modules use sets where the code uses `fastset`, which `ImplementsSets` justifies.

## 3. Runs

| Run | Instance | Shows |
|---|---|---|
| `containers` | a queue of 3 slots over 4 addresses, in both usages; or a set of 3 ways over 4 addresses; or 2 sets of indices below 5 or 6, with words of 2 bits, a bit set from 5 members, bisection from 2 | cursors and blanks agree, `check_queue` is exact, requests merge, the ring is a FIFO; counters stay a ranking and implement the recency list; search and iteration see exactly what was inserted and joined |
| `page_table` | 5 pages, 3 frames of memory, runs of 1 and 2 | tables inverse, count exact, runs bounded, implements the abstract map |
| `tlb_service` | 3 clients, 3 pages, memory for all, code and data pages differ | blocks agree with the page table, every client is answered, with its page's frame |
| `tlb_swap` | 3 clients, 3 pages, 2 frames, a page shared by code and data, queues of one slot | returns always expected, no miss without its request, merging loses no client, upper tags unique, STLB misses always new, types and rankings |
| `data_cache` | 2 loads, 2 lines, 1 block in each cache, queues of 1 and 2 slots, 2 registers | misses and answers match, loads are neither lost nor answered twice, modifications are kept, every load is answered |
| `dram` | 3 lines on 2 banks, two of them in different rows of one bank, read queue of 2 slots, write queue of 3, watermarks 2 and 3 | reservations match, cached indices fresh, every miss queued once, reads are answered, writes drain |
| `reorder_buffer` | 4 traces of 5 instructions, ROB 4, LQ 2, SQ 2, write queue 2 | operations and executions counted, slots tracked, loads see the youngest older store, a store releases its own loads only, traces retire |
| `reorder_buffer_twins` | a trace of 3 instructions, ROB 4, LQ 2, SQ 3, write queue 2 | *violated*: a store reaches a load that waits for another store |
| `correlation` | 2 instructions, a page with 3 successors, 2 slots | predictions distinct, counters apart; while its history is orderly, a list holds the last two successors in their ranks and has a victim when full |
| `correlation_evict` | 1 instruction, the same | *violated*: a full list has no victim |
| `tlb_shared_page` | 2 clients, a shared page | *violated*: a client waits forever |
| `tlb_stale` | 2 clients, swaps | *violated*: a TLB holds another page's frame |

**Bounds.** Three slots let a ring be empty, full and wrapped with a window that
covers both ends; four addresses let every slot differ with one more to refuse.
Three ways have a most recent, a middle and a least recent block; four addresses
force evictions. Five pages over three frames fill memory, then swap; frames 0 to 3
drawn with runs of two collide with frames already taken. In the TLB instances one
set with one or two ways makes every eviction happen, two or three clients meet in
queues and registers, an ITLB request queue of one slot refuses, and the STLB has
three queue slots for the 1+2 registers above it: as in the code (32 slots, 8+8
registers) every miss above fits. `PROCESSED` has at least as many slots as a side has
clients, as in the code, where it has `ROB_SIZE`. `MAX_READ` is that of the
code: 1, 2 and 1. `MaxPredictions` is 1 (0 in `tlb_shared_page`, where it is not
needed). Swaps happen in `tlb_swap` and not in `tlb_service`,
whose larger state space has the liveness. Frames are symmetric in the runs without liveness, since they are only
compared.

In `data_cache` two lines compete for the only block of each cache, so that every
fill has a victim and dirty victims meet a full write queue in both levels; the core may
do one thing while a load waits (`Window`). Two loads meet in queues and registers;
prefetches are of line 1 into either level. In `dram` two of three lines conflict in a bank
and the third is elsewhere, a full write queue is the high watermark, and requests
arrive with two different ages. The traces of `reorder_buffer` cover forwarding from a
store in the queue, from one that executes later, and from memory after retirement;
instructions with two loads or two stores that find room for one only; a misprediction
that stalls reading; and the block described in section 4. Each has one instruction more
than the reorder buffer has entries. The trace of `reorder_buffer_twins` is the smallest in which
the producers of an instruction's loads share an address.

For the sets of `containers` a queue fills a word boundary (6) or does not (5); arrays of two to four
members are bisected, and bit sets of five or six members join each other and smaller sets.

The correlation instance has more successors than slots for one page, so that its list
overflows; `Follows` makes every other page lead back to it, which leaves out nothing
that matters since lists do not interact.

**Fairness.** `WF_vars(Next)`: the loop of `main` runs as long as the simulation
does, so some step is always taken. This says nothing about which client
issues a request; the next phases of a cycle have no choice but to end, and clients
are finite, so time passes. Nothing is assumed of prefetchers, replacement or the
order of requests. In `DataCache` and `ReorderBuffer` too only `WF_vars(Next)` is
assumed: what could go on for ever beside a waiting load, the core's further requests, is
bounded by the reorder buffer (`Window`) or by the trace, so that in the end only the
handlers are left, which the loop calls in every cycle. In `Dram` the phases of
a cycle follow each other and each must end.

`reorder_buffer` and `reorder_buffer_twins` alone do not check for deadlock: a trace ends, while
the program reads it again from the start. That the end is reached is `EveryInstructionRetires`.

**Mutants.** Beside each mapped definition that a property depends on stands a variant
with a plausible mistake (a guard dropped, a reset missing, an off-by-one, a value
read too late). Under each the property it is listed with is violated.

## 4. Disagreements met

* `tlb_shared_page`: the STLB's read queue merges an ITLB and a DTLB request for one
  page by address. The merged packet keeps one `instruction` flag, and the
  translation is returned to that side only. The other side's miss stays in flight
  until the deadlock check of `main` stops the simulation. The L2C has the same
  structure for L1I and L1D.
* `tlb_stale`: the comment in `va_to_pa` says a swap invalidates the page in the cache
  hierarchy. Translations that have returned to a miss register but are not yet
  filled are not reached, and are installed after the swap.
* `correlation_evict`: the lists of GAC and PLAC are meant to be managed with LRU, but
  every update increments all counters, so the value `S - 1` that `lru_evict` looks
  for can be skipped. Then nothing is replaced, the first entry is promoted, and
  the new page is forgotten, although it is the one that followed last. Once it happens it
  can last: counters beyond `S - 1` come back only when their entry is used again. How far
  LRU does hold is `ManagedWithLru`: until one of a list's pages follows again that has not
  waited longest.
* `reorder_buffer_twins`: `execute_store` asserts that the `producer_id` of each load it
  releases does "match to the store instr_id". It finds them by the dependence bits, which name
  instructions and not loads, and by the address. An instruction that loads `a` and `b` after
  a store of both and a younger store of `b` is marked with the older store for `a`; when
  that store executes its part of `b`, it reaches the load of `b`, which waits for the younger
  one, and the program stops at the assert.

Met while modelling, without a line in the repository that says otherwise, or
with one that stands under a TODO, and therefore no run of its own:

* `PageTable`: the comment at `main.cc:313-314` says that with memory full "ChampSim randomly
  selects a page that is not recently used", out of the "32K recently accessed pages" it
  tracks. Nothing is random here and nothing is tracked: `recent_page` is searched but never
  filled, so the victim is always the first key of `page_table`, the smallest page number,
  even if it was entered or used last. The comment stands under "TODO: elaborate page
  replacement algorithm" and `NRU_vpage` is marked "implement it", so it states an intention;
  `NRU_vpage` in `Translation` does what the code does, and the abstract modules leave the
  choice open.
* `ReorderBuffer`: loads that wait for a store hold slots of the load queue. If the
  store waits for a register that an older load writes, and that load finds no slot,
  nothing moves any more and `main` stops at its deadlock check. The trace `Blocking`
  reaches this; `EveryInstructionRetires` names it as the only exception.
* `ReorderBuffer`: dependence bits of an instruction on later loads are not cleared when a
  load is forwarded (the statement under "clear dependency bit" inserts again). Harmless:
  retirement blanks the entry, and `WorkConserved` holds.
* `ReorderBuffer`: `reg_dependency` skips completed writers, so an instruction may wait for
  an older unfinished writer of a register although the youngest writer is done. This
  delays and does not change what is read.
* `DataCache`: a store that finds the miss of a load in flight is dropped; the block is
  not dirty after the fill, since only a register of type RFO makes it so. The model
  does this in `StoreMiss`; `ModificationKept` therefore starts at the read for
  ownership.
* `DataCache`: a write-back that misses the L2C fills a way at once, also while a miss of
  the line is in flight, which later fills a second way. A search finds the first.
* `Dram`: `add_wq` leaves a queued write as it is when another to its line comes, and
  `add_rq` and `add_wq` drop a packet if no slot is free. Neither matters to the LLC,
  which has fewer registers than the read queue has slots and looks at the occupancy of
  the write queue: `EveryMissQueued`.

`tlb_service` therefore keeps code and data pages apart and has memory for all pages.
`tlb_swap` has neither restriction; its `EveryMissAnsweredOnce` asks for a request only of misses of pages that are not both.

## 5. Proofs

`SizeAssumption`, `AddrAssumption`, `WayAssumption`, `TagAssumption`,
`PagesAssumption`, `DramAssumption`, `SlotsAssumption`, `PageAssumption`, `RunAssumption`,
`FrameAssumption`, and for `Dram` `AddressAssumption`, `GeometryAssumption`,
`TimeAssumption` and `MissesFit` are the assumptions; each says that a size is positive (a
time not negative), that the blank value is not a real one, (frames) that a run does not
leave the set of frame numbers, or (`MissesFit`) that the LLC has at most as many miss
registers as the read queue has slots, which is all that keeps `add_rq` from dropping one.
`DataCache` has an `AddressAssumption`, a `GeometryAssumption`, a `BoundAssumption` and a
`MissesFit` of the same kinds (the last is about L1D's registers and the read queue of the
L2C, 8 and 32 in `cache.h`), and `PrefetchAssumption`: a prefetch names the level it
is to fill, its own cache or the one below.
`TlbHierarchy` has a `ClientPagesAssumption` (the pages asked for are pages, 0 is none) and a
`GeometryAssumption` of the usual kind, and two about sizes. `MissesFit`: the read queue
of the STLB has room for all misses of the two TLBs above it (32 for 8+8 in `inc/cache.h`).
`ClientsFit`: an entry of the core asks the ITLB or the DTLB, not both, and `PROCESSED`, of
`ROB_SIZE` slots, has room for all of a side (256 for a reorder buffer of 256 entries, or
for 72 loads and 56 stores).
`ReorderBuffer` has a `SizeAssumption`, and the `TraceAssumption` of section 2.

`CommonLemmas` holds what several proofs need of numbers, images and lru ranks.

* **ContainerProofs**, `PacketQueue`. The inductive invariant is `TypeOK /\ RingInvariant`: a slot is
  nonblank exactly if its distance behind the head is less than the occupancy.
  `RingCorrect` proves it; `CheckQueueCorrect` derives that the scan finds the oldest
  match (the scanned slots contain the window, blanks never match, and
  positions in the window are slots in scan order); `MergingCorrect` strengthens it
  with "slots in use differ"; `RingIsFifo` maps insertion to `Append` and removal to `Tail`.
* **ContainerProofs**, `LruSet`. `IsRanking` (one-to-one and onto the ranks) is inductive:
  `UpdateRanking` shows an update permutes the ranks, `VictimExists` that a full set has
  a victim (both in `CommonLemmas`: the data caches rest on them too). `LruIsRecencyList` maps an update at a way to a move to the front.
* **PageTableProofs.** `MutualInverse /\ Accounting /\ RunBounded` with the types,
  the previous frame and the bound on what is left of a run: a frame is always in
  `Frames` only because a run started at a random one and is limited. Allocation
  adds a pair to both tables, a swap moves one; the frame tried is absent from
  `inverse_table`, hence from `page_table`. `PageTableImplementsMap` then maps each
  call to `Grants`; a full table is not empty, so there is a page to swap out.
* **CorrelationProofs.** Each list is within its slots, injective in addresses,
  free of its own page, with one counter at 0 and no two equal below `S`. Promotion,
  push and replacement each preserve this; an update orders a list even if the promoted
  entry was out of order, which is what a push needs. `CorrelationRecency` reads the order
  off the same invariant. `CorrelationManaged` adds to it that while a history is orderly each
  counter is the rank of its entry's page in it, and every rank has an entry. A promotion
  of the entry that has waited longest, a push and a replacement each move the new page
  to rank 0 and the others up by one (`PromotionRanks`); a full list has an entry of
  rank `S - 1`, which is the victim. When a page follows early, nothing more is claimed
  of its list.
* **DramProofs.** `IInv` splits into types, `Indices`, `Counters`, `Reservations` and
  `EveryMissQueued`, one lemma per part. `BankReservation` carries the counters: a switch
  counts banks, and as the bank of each scheduled request names its index, no two share
  one. `Indices` survives a cycle because the ages of past times keep their order
  (`AgedKeepsOrder`: the earlier of two has strictly more distinct times up to now); this
  also justifies keeping times as ranks. A miss finds a slot since the lines of the read
  queue differ and so are as many as the misses (`RoomForMiss`).

* **DataCacheProofs.** `IInv` has a part for types, one for the registers (each about its
  own line, no more than there are), one for storage (in each set the lru values
  are a ranking), and the accounting: `MissesOfL1D` says that each L1D miss not yet
  answered is at exactly one of four places below it (read queue, prefetch queue, a
  register of the L2C, an answer on its way). That is why an answer finds a register
  (`DataCacheMissesAnswered`), and with `LoadsPlaced`, which counts each load once, why no
  load is lost or answered twice. The lines in the L2C's read queue are L1D misses and
  differ, so there are never more than registers (`RoomBelow`): the answer of `add_rq`,
  which `handle_read` ignores, is never a refusal. `Kept` is carried through each action
  for `DataCacheKeepsModifications`: a dirty line leaves a block only to a write queue.
  There is one lemma per action. TLC had confirmed `IInv` on the instance of the run
  `data_cache` before it was proved.

* **TlbHierarchyProofs.** `IInv` has types, tags, clients and misses. The types include that
  no page is twice in a queue or in the registers of a TLB, and that during a callback the
  read it is about is still at the head of the STLB's queue. *Tags*: those of an upper set
  differ, and a page for which a register waits has no block in its set; this second
  part makes the first inductive, since a fill does not look for its page. *Clients*
  (`Placed`): a waiting client is in one packet of its queue, its registers or its answers,
  and no packet is without clients; hence the answers are never more than the clients of a
  side, and `Answered` never drops one (`AnswersFit`). *Misses*: `StlbOnce` says that a
  request of a TLB is in the STLB's queue or in a register of it, not both, except for the
  oldest while its miss is handled. So one return ends all the STLB holds of
  a miss, which is what `EveryMissAnsweredOnce` needs to be kept by `FinishHit` and by a fill.
  As the packets in the STLB's queue are of different misses, they are fewer than registers
  above while one of these is free, and `add_rq`, whose refusal `handle_read` ignores, accepts
  (`RoomInStlb`). There is one lemma per action; TLC had confirmed `IInv` on the
  instances of `tlb_swap`, `tlb_service`, `tlb_stale` and `tlb_shared_page` before.

  `TlbBlocksCoherent` and `TlbImplementsService` have a hypothesis, `MemoryForAll`: there are
  no more pages than frames of memory. Without it they are false (section 4,
  `tlb_stale`). The invariant `AllTrue` says that blocks, returned misses, answers and what
  `handle_read` keeps across the callback all hold the frame of the table. A walk only adds to
  the table (`WalkGrows`), so what is true stays true; each hit, return and fill copies a
  true translation. For the refinement a request is a request there, a
  walk for a miss or a prediction is `Map`, `update_rob` is one `Answer` to the clients
  of both oldest answers, and everything else is a stutter.

* **ReorderBufferProofs.** `WorkConserved` is far from inductive: that the right load is found
  by the right store rests on how the reorder buffer, the two queues, five lists and the
  requests in flight name each other. The parts of `IInv` are:
  * `Progress`: how far an instruction has come. Entries outside the reorder buffer are blank,
    those not scheduled hold nothing but their count of operations, dependents are younger and
    scheduled, and who executes waits for no register.
  * `LoadsHeld` and `StoresHeld`: slots and the indices that instructions keep of them agree.
    A load that waits is marked at its producer, which is the store it has to read
    (`Source`), and which has not executed its store to that address; one that does not
    wait had no older store in the reorder buffer.
  * `InOrder`: the slots in use of the store queue are the newest ones before its tail, their
    ages are in program order, and the `STA` continues them. Stores enter at the tail
    without a look at whether that slot is free; that it is follows from this part and from
    the order of retirement.
  * `LoadsTracked`, `StoresTracked`, `RequestsNamed`: a slot on its way is in exactly one list
    or request, and the request still names the instruction that holds the slot.
  * `Counted`, the counters of executions, `RegistersCounted` and `ReadyToExecute`: operations
    and registers still to come, counted from both sides, so that nothing is woken twice.
  * `RightlySeen`: what was read came from `Source`.

  `check_and_add_lsq` changes nine variables in a sequence of additions within one action.
  The parts therefore take entries and queues as arguments, and `LsqInv` is shown to be kept by each
  addition (an induction over the operands of one instruction, whose predicate is written
  out). A load that is answered by the L1D had no store in the reorder buffer that is older,
  and none can enter; so what was retired last is its `Source`. There is one lemma per
  action. TLC had confirmed `IInv` on the instance of the run `reorder_buffer` before.

  `ReorderBufferReleases` is the only theorem with a hypothesis on the trace, `OneProducer`:
  what a store has written for an instruction, that instruction reads from no other store.
  The trace of `reorder_buffer_twins` violates it, and there `ForwardsToItsLoads` fails. Its
  own invariant, `LoadsFound`, is conditional on `OneProducer` as well and has two parts:
  `Marked`, a dependence mark has a load that reads from the store that holds the mark, and
  `Waiting`, an added load keeps its slot until the store it reads is executed. Every step
  keeps both. As a store names an address only once, and so does a list of loads, what
  `execute_store` finds through its marks are exactly the loads that wait for it. The other
  theorems hold for every trace: where the assert fails the program stops, and so does the
  model (guard `OwnDependents`).

Only model-checked: liveness (`EveryRequestAnswered`, `EveryLoadAnswered`,
`EveryReadAnswered`, `WritesDrain`, `EveryInstructionRetires`), which is out of the prover's
reach, `ImplementsSets` (bisection is recursive), and `StlbMissIsNew`, which depends on how
the latencies and `MAX_READ` space the reads of one page in time and not on the state alone. No
theorem needs it: they cover the branch of `StlbMiss` that joins a register as well.

## 6. Not modelled, and what is planned

What a next step would take up: the footprint predictor `TLBR` and the deltas of `Delta` and
`PC_HISTORY` (which also erases entries). `TlbHierarchy` lets a prefetcher predict any page.

Left aside: the LLC with its replacement policies and the L1I, which run the code of
`DataCache` under another victim search and another consumer; invalidations of the data
caches by a swap; several cores, which share the LLC and memory only; trace reading,
statistics and scripts (input and output); branch predictors (arithmetic that affects
timing only); `inc/kpcp.h`, which nothing defines or uses.
