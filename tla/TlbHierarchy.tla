---------------------------- MODULE TlbHierarchy ----------------------------
(***************************************************************************)
(* The translation path of one core: ITLB and DTLB over a shared STLB over *)
(* the page table, driven by the cycle loop of main.cc.  In every cycle    *)
(* the core issues requests, then operate_cache runs ITLB, DTLB and STLB   *)
(* in this order (each handles one fill and up to MAX_READ reads), then    *)
(* update_rob takes one finished translation from the ITLB and one from    *)
(* the DTLB, and the cycle ends.                                           *)
(*                                                                         *)
(* Clients are the entries of the core that wait for a translation:        *)
(* reorder-buffer entries (instruction pages), load-queue and store-queue  *)
(* entries (data pages).  Times are relative to current_core_cycle.        *)
(***************************************************************************)
EXTENDS Translation, LruPolicy, Sequences

CONSTANTS
  Fetchers, Loads, Stores,  \* the clients
  CodePages, DataPages,     \* the pages each side asks for
  NUM_SET, NUM_WAY,         \* geometry, latency and capacity of each TLB
  LATENCY, MAX_READ,
  RQ_SIZE, MSHR_SIZE,
  PROCESSED_SIZE,           \* ROB_SIZE
  PAGE_TABLE_LATENCY, SWAP_LATENCY,
  MaxPredictions            \* bound: prefetches per prefetcher callback

Clients == Fetchers \cup Loads \cup Stores
TLBs == {"ITLB", "DTLB", "STLB"}
Upper == {"ITLB", "DTLB"}

\* No page has number 0: the address 0 marks an empty slot.
ASSUME ClientPagesAssumption ==
  CodePages \cup DataPages \subseteq Pages /\ 0 \notin Pages
ASSUME GeometryAssumption ==
  /\ \A t \in TLBs : /\ NUM_SET[t] \in Nat \ {0} /\ NUM_WAY[t] \in Nat \ {0}
                     /\ RQ_SIZE[t] \in Nat \ {0} /\ MSHR_SIZE[t] \in Nat \ {0}
                     /\ LATENCY[t] \in Nat /\ MAX_READ[t] \in Nat \ {0}
  /\ PAGE_TABLE_LATENCY \in Nat /\ SWAP_LATENCY \in Nat
  /\ MaxPredictions \in Nat /\ PROCESSED_SIZE \in Nat

\* A client is an entry of one queue of the core, and PROCESSED, of ROB_SIZE, has room
\* for all of a side: the reorder buffer, or the load and the store queue together.
ASSUME ClientsFit ==
  /\ Fetchers \cap (Loads \cup Stores) = {} /\ IsFiniteSet(Fetchers \cup Loads \cup Stores)
  /\ Cardinality(Fetchers) <= PROCESSED_SIZE
  /\ Cardinality(Loads \cup Stores) <= PROCESSED_SIZE
\* The read queue of the STLB has room for all misses of the ITLB and the DTLB.
ASSUME MissesFit == MSHR_SIZE["ITLB"] + MSHR_SIZE["DTLB"] <= RQ_SIZE["STLB"]

VARIABLES
  page_table,
  stall,      \* stall_cycle minus current_core_cycle, while positive
  client,     \* what each client is doing
  RQ,         \* TLB -> its read queue, oldest packet first
  MSHR,       \* TLB -> its miss status registers
  PROCESSED,  \* upper TLB -> its finished translations, oldest first
  block,      \* TLB -> set -> way -> the block there
  lru,        \* TLB -> set -> way -> its lru counter
  phase,      \* what the cycle does next
  reads,      \* reads the current handle_read may still do
  lookup      \* the STLB read whose prefetcher callback runs

vars == <<page_table, stall, client, RQ, MSHR, PROCESSED, block, lru, phase,
          reads, lookup>>

Empty == [page |-> 0]        \* an unused MSHR entry
NoBlock == [tag |-> 0]       \* an invalid block
NoLookup == [kind |-> "none"]

Sets(t) == 0 .. NUM_SET[t] - 1
WaysOf(t) == 0 .. NUM_WAY[t] - 1
Slots(t) == 0 .. MSHR_SIZE[t] - 1
-----------------------------------------------------------------------------
\* Searching a TLB: sets, blocks and miss status registers.

get_set(t, page) == page % NUM_SET[t]

\* A search from the lowest index finds the first match.
First(found) == IF found = {} THEN -1 ELSE CHOOSE i \in found : \A j \in found : i <= j

check_hit(blocks, t, page) ==
  First({way \in WaysOf(t) : blocks[t][get_set(t, page)][way].tag = page})

check_mshr(t, page) == First({i \in Slots(t) : MSHR[t][i].page = page})

Occupancy(t) == Cardinality({i \in Slots(t) : MSHR[t][i] # Empty})

Victim(blocks, t, page) ==
  LET set == get_set(t, page)
  IN  lru_victim(NUM_WAY[t], [way \in WaysOf(t) |-> blocks[t][set][way] # NoBlock], lru[t][set])

\* Mutant: a way that held a valid block keeps its data.
fill_cacheKeeps(blocks, t, page, way, data) ==
  LET old == blocks[t][get_set(t, page)][way]
  IN  [blocks EXCEPT ![t][get_set(t, page)][way] =
         [tag |-> page, data |-> IF old = NoBlock THEN data ELSE old.data]]

fill_cache(blocks, t, page, way, data) ==
  [blocks EXCEPT ![t][get_set(t, page)][way] = [tag |-> page, data |-> data]]

\* update_replacement_state for anything but a writeback hit.
Promote(t, set, way) == [lru EXCEPT ![t][set] = lru_update(NUM_WAY[t], @, way)]

\* The TLB a packet came from.
Above(packet) == IF packet.instruction THEN "ITLB" ELSE "DTLB"

\* CACHE::return_data.  A caller without a matching entry stops at its assert.
Returned(mshr, t, page, data) ==
  LET index == First({i \in Slots(t) : mshr[t][i].page = page})
  IN  [mshr EXCEPT ![t][index].returned = TRUE,
                   ![t][index].data = data,
                   ![t][index].event = LATENCY[t]]

\* add_mshr: the packet takes the first free entry, in flight.
Allocated(t, packet) ==
  [MSHR EXCEPT ![t][First({i \in Slots(t) : MSHR[t][i] = Empty})] =
     [page |-> packet.page, instruction |-> packet.instruction, type |-> packet.type,
      waiters |-> packet.waiters, returned |-> FALSE, data |-> 0, event |-> 0]]

\* Mutant: the occupancy of the queue is not checked.
QueuedUnbounded(t, packet) ==
  IF \E i \in 1 .. Len(RQ[t]) : RQ[t][i].page = packet.page
  THEN [RQ EXCEPT ![t] =
          [i \in 1 .. Len(RQ[t]) |->
             IF RQ[t][i].page = packet.page
             THEN [RQ[t][i] EXCEPT !.waiters = @ \cup packet.waiters]
             ELSE RQ[t][i]]]
  ELSE [RQ EXCEPT ![t] = Append(@, [packet EXCEPT !.event = LATENCY[t]])]

\* Mutant: a request that is added keeps its event_cycle.
QueuedAtOnce(t, packet) ==
  IF \E i \in 1 .. Len(RQ[t]) : RQ[t][i].page = packet.page
  THEN [RQ EXCEPT ![t] =
          [i \in 1 .. Len(RQ[t]) |->
             IF RQ[t][i].page = packet.page
             THEN [RQ[t][i] EXCEPT !.waiters = @ \cup packet.waiters]
             ELSE RQ[t][i]]]
  ELSE IF Len(RQ[t]) = RQ_SIZE[t]
       THEN RQ
       ELSE [RQ EXCEPT ![t] = Append(@, packet)]

\* CACHE::add_rq: a queued request for the page is shared, a full queue refuses.
Queued(t, packet) ==
  IF \E i \in 1 .. Len(RQ[t]) : RQ[t][i].page = packet.page
  THEN [RQ EXCEPT ![t] =
          [i \in 1 .. Len(RQ[t]) |->
             IF RQ[t][i].page = packet.page
             THEN [RQ[t][i] EXCEPT !.waiters = @ \cup packet.waiters]
             ELSE RQ[t][i]]]
  ELSE IF Len(RQ[t]) = RQ_SIZE[t]
       THEN RQ
       ELSE [RQ EXCEPT ![t] = Append(@, [packet EXCEPT !.event = LATENCY[t]])]

\* The oldest packet of the read queue, once its latency has passed.
HeadReady(t) == RQ[t] # << >> /\ Head(RQ[t]).event <= 0

\* update_fill_cycle: the completed miss that is due first, the lowest index first.
Completed(t) == {i \in Slots(t) : MSHR[t][i] # Empty /\ MSHR[t][i].returned}

next_fill_index(t) ==
  First({i \in Completed(t) :
           \A j \in Completed(t) : MSHR[t][i].event <= MSHR[t][j].event})

FillReady(t) ==
  Completed(t) # {} /\ MSHR[t][next_fill_index(t)].event <= 0

\* handle_read or handle_fill of an upper TLB answers the waiting entries, which
\* update_rob will see; a full PROCESSED queue drops the answer.
Answered(t, packet, data) ==
  IF Len(PROCESSED[t]) < PROCESSED_SIZE
  THEN [PROCESSED EXCEPT ![t] =
          Append(@, [page |-> packet.page, pa |-> data, waiters |-> packet.waiters])]
  ELSE PROCESSED

\* va_to_pa on a swap: invalidate_entry of the victim page in each TLB drops the
\* first block that matches.
Invalidated(page) ==
  [t \in TLBs |->
     LET way == check_hit(block, t, page)
     IN  IF way = -1
         THEN block[t]
         ELSE [block[t] EXCEPT ![get_set(t, page)][way] = NoBlock]]

BlocksAfterWalk(page) ==
  IF page \notin DOMAIN page_table /\ Full(page_table)
  THEN Invalidated(NRU_vpage(page_table))
  ELSE block

\* A demand walk stalls the core: for long if it swapped, else for the walk.
StallAfterWalk(page) ==
  IF page \notin DOMAIN page_table /\ Full(page_table)
  THEN SWAP_LATENCY
  ELSE PAGE_TABLE_LATENCY
-----------------------------------------------------------------------------
Init ==
  /\ page_table = << >>
  /\ stall = 0
  /\ client = [c \in Clients |-> [state |-> "idle"]]
  /\ RQ = [t \in TLBs |-> << >>]
  /\ MSHR = [t \in TLBs |-> [i \in Slots(t) |-> Empty]]
  /\ PROCESSED = [t \in Upper |-> << >>]
  /\ block = [t \in TLBs |-> [set \in Sets(t) |-> [way \in WaysOf(t) |-> NoBlock]]]
  /\ lru = [t \in TLBs |-> [set \in Sets(t) |-> [way \in WaysOf(t) |-> way]]]
  /\ phase = <<"issue", "ITLB">>
  /\ reads = 0
  /\ lookup = NoLookup

\* A client whose entry holds a new instruction asks its TLB.  A refused client
\* asks again in a later cycle.
Request(c, t, type, page) ==
  LET packet == [page |-> page, instruction |-> t = "ITLB", type |-> type,
                 waiters |-> {c}, event |-> 0]
  IN  /\ phase[1] = "issue"
      /\ client[c].state # "waiting"
      /\ Queued(t, packet) # RQ
      /\ RQ' = Queued(t, packet)
      /\ client' = [client EXCEPT ![c] = [state |-> "waiting", page |-> page]]
      /\ UNCHANGED <<page_table, stall, MSHR, PROCESSED, block, lru, phase, reads, lookup>>

fetch_instruction == \E c \in Fetchers, page \in CodePages : Request(c, "ITLB", "LOAD", page)

operate_lsq ==
  \E page \in DataPages : \/ \E c \in Stores : Request(c, "DTLB", "RFO", page)
                          \/ \E c \in Loads : Request(c, "DTLB", "LOAD", page)

EndIssue ==
  /\ phase[1] = "issue"
  /\ phase' = <<"fill", "ITLB">>
  /\ UNCHANGED <<page_table, stall, client, RQ, MSHR, PROCESSED, block, lru, reads, lookup>>

\* What operate_cache does after a TLB has handled its fill, or its last read.
StartReads(t) == phase' = <<"read", t>> /\ reads' = MAX_READ[t]

NextTlb(t) ==
  CASE t = "ITLB" -> <<"fill", "DTLB">>
    [] t = "DTLB" -> <<"fill", "STLB">>
    [] t = "STLB" -> <<"complete", "ITLB">>

\* handle_fill: the miss due first leaves its register, its block replaces the
\* victim, and the TLB above, or the waiting clients, get the translation.
handle_fill(t) ==
  LET index == next_fill_index(t)
      packet == MSHR[t][index]
      way == Victim(block, t, packet.page)
      freed == [MSHR EXCEPT ![t][index] = Empty]
  IN  /\ phase = <<"fill", t>>
      /\ FillReady(t)
      /\ block' = fill_cache(block, t, packet.page, way, packet.data)
      /\ lru' = Promote(t, get_set(t, packet.page), way)
      /\ IF t = "STLB"
         THEN /\ MSHR' = Returned(freed, Above(packet), packet.page, packet.data)
              /\ UNCHANGED PROCESSED
         ELSE /\ MSHR' = freed
              /\ PROCESSED' = Answered(t, packet, packet.data)
      /\ StartReads(t)
      /\ UNCHANGED <<page_table, stall, client, RQ, lookup>>

NoFill(t) ==
  /\ phase = <<"fill", t>>
  /\ ~FillReady(t)
  /\ StartReads(t)
  /\ UNCHANGED <<page_table, stall, client, RQ, MSHR, PROCESSED, block, lru, lookup>>

\* One more read has been handled.
ReadDone(t) ==
  /\ RQ' = [RQ EXCEPT ![t] = Tail(@)]
  /\ reads' = reads - 1

\* handle_read on a hit in the ITLB or DTLB: the clients are answered.
ReadHit(t) ==
  LET packet == Head(RQ[t])
      set == get_set(t, packet.page)
      way == check_hit(block, t, packet.page)
  IN  /\ phase = <<"read", t>> /\ t \in Upper /\ reads > 0
      /\ HeadReady(t)
      /\ way # -1
      /\ PROCESSED' = Answered(t, packet, block[t][set][way].data)
      /\ lru' = Promote(t, set, way)
      /\ ReadDone(t)
      /\ UNCHANGED <<page_table, stall, client, MSHR, block, phase, lookup>>

\* Mutant: a miss does not look for one in flight.
ReadMissUnchecked(t) ==
  LET packet == Head(RQ[t])
  IN  /\ phase = <<"read", t>> /\ t \in Upper /\ reads > 0
      /\ HeadReady(t)
      /\ check_hit(block, t, packet.page) = -1
      /\ Occupancy(t) < MSHR_SIZE[t]
      /\ MSHR' = Allocated(t, packet)
      /\ RQ' = [Queued("STLB", [packet EXCEPT !.waiters = {}]) EXCEPT ![t] = Tail(RQ[t])]
      /\ reads' = reads - 1
      /\ UNCHANGED <<page_table, stall, client, PROCESSED, block, lru, phase, lookup>>

\* handle_read on a new miss in the ITLB or DTLB: a register is taken and the
\* request goes to the STLB, whatever its add_rq answers.  The copy's own list of
\* waiting clients is never read.
ReadMiss(t) ==
  LET packet == Head(RQ[t])
  IN  /\ phase = <<"read", t>> /\ t \in Upper /\ reads > 0
      /\ HeadReady(t)
      /\ check_hit(block, t, packet.page) = -1
      /\ check_mshr(t, packet.page) = -1
      /\ Occupancy(t) < MSHR_SIZE[t]
      /\ MSHR' = Allocated(t, packet)
      /\ RQ' = [Queued("STLB", [packet EXCEPT !.waiters = {}]) EXCEPT ![t] = Tail(RQ[t])]
      /\ reads' = reads - 1
      /\ UNCHANGED <<page_table, stall, client, PROCESSED, block, lru, phase, lookup>>

\* Mutant: the waiting clients of the request are not passed on.
ReadMergedForgetful(t) ==
  LET packet == Head(RQ[t])
      index == check_mshr(t, packet.page)
  IN  /\ phase = <<"read", t>> /\ t \in Upper /\ reads > 0
      /\ HeadReady(t)
      /\ check_hit(block, t, packet.page) = -1
      /\ index # -1
      /\ ReadDone(t)
      /\ UNCHANGED <<page_table, stall, client, MSHR, PROCESSED, block, lru, phase, lookup>>

\* Mutant: the merged request goes to the STLB as well.
ReadMergedForward(t) ==
  LET packet == Head(RQ[t])
      index == check_mshr(t, packet.page)
  IN  /\ phase = <<"read", t>> /\ t \in Upper /\ reads > 0
      /\ HeadReady(t)
      /\ check_hit(block, t, packet.page) = -1
      /\ index # -1
      /\ MSHR' = [MSHR EXCEPT ![t][index].waiters = @ \cup packet.waiters]
      /\ RQ' = [Queued("STLB", [packet EXCEPT !.waiters = {}]) EXCEPT ![t] = Tail(RQ[t])]
      /\ reads' = reads - 1
      /\ UNCHANGED <<page_table, stall, client, PROCESSED, block, lru, phase, lookup>>

\* handle_read on a page whose miss is in flight: "mark merged consumer".
ReadMerged(t) ==
  LET packet == Head(RQ[t])
      index == check_mshr(t, packet.page)
  IN  /\ phase = <<"read", t>> /\ t \in Upper /\ reads > 0
      /\ HeadReady(t)
      /\ check_hit(block, t, packet.page) = -1
      /\ index # -1
      /\ MSHR' = [MSHR EXCEPT ![t][index].waiters = @ \cup packet.waiters]
      /\ ReadDone(t)
      /\ UNCHANGED <<page_table, stall, client, PROCESSED, block, lru, phase, lookup>>

\* The read loop of a TLB ends: the bound is reached, the oldest packet is not
\* ready, or it misses while every register is taken.
NoRead(t) ==
  /\ phase = <<"read", t>>
  /\ \/ reads = 0
     \/ ~HeadReady(t)
     \/ /\ HeadReady(t)
        /\ check_hit(block, t, Head(RQ[t]).page) = -1
        /\ check_mshr(t, Head(RQ[t]).page) = -1
        /\ Occupancy(t) = MSHR_SIZE[t]
  /\ phase' = NextTlb(t)
  /\ reads' = 0
  /\ UNCHANGED <<page_table, stall, client, RQ, MSHR, PROCESSED, block, lru, lookup>>
-----------------------------------------------------------------------------
\* handle_read of the STLB, where the TLB prefetcher's tlb_prefetcher_operate is
\* called on every load.  What was found before the call is kept in lookup, with
\* the number of prefetches the call may still make.

Calls(packet) == IF packet.type = "LOAD" THEN MaxPredictions ELSE 0

\* The start of a hit: the way and its data are read.
StlbHit ==
  LET packet == Head(RQ["STLB"])
      set == get_set("STLB", packet.page)
      way == check_hit(block, "STLB", packet.page)
  IN  /\ phase = <<"read", "STLB">> /\ reads > 0
      /\ HeadReady("STLB")
      /\ way # -1
      /\ lookup' = [kind |-> "hit", set |-> set, way |-> way,
                    data |-> block["STLB"][set][way].data, budget |-> Calls(packet)]
      /\ phase' = <<"callback", "STLB">>
      /\ UNCHANGED <<page_table, stall, client, RQ, MSHR, PROCESSED, block, lru, reads>>

\* A miss.  A new one takes a register; the page table is walked at once and the
\* walk's result comes back to this TLB's own register.  One that is in flight
\* adds nothing to the register it joins.
StlbMiss ==
  LET packet == Head(RQ["STLB"])
      new == check_mshr("STLB", packet.page) = -1
  IN  /\ phase = <<"read", "STLB">> /\ reads > 0
      /\ HeadReady("STLB")
      /\ check_hit(block, "STLB", packet.page) = -1
      /\ new => Occupancy("STLB") < MSHR_SIZE["STLB"]
      /\ IF new
         THEN /\ page_table' \in Walks(page_table, packet.page)
              /\ stall' = StallAfterWalk(packet.page)
              /\ block' = BlocksAfterWalk(packet.page)
              /\ MSHR' = Returned(Allocated("STLB", packet), "STLB", packet.page,
                                  page_table'[packet.page])
         ELSE UNCHANGED <<page_table, stall, block, MSHR>>
      /\ lookup' = [kind |-> "miss", budget |-> Calls(packet)]
      /\ phase' = <<"callback", "STLB">>
      /\ UNCHANGED <<client, RQ, PROCESSED, lru, reads>>

\* tlb_prefetcher_operate fills a predicted page that is not resident: without a
\* look at the MSHR, without a stall, without an lru update.
PrefetchFill(page) ==
  /\ phase[1] = "callback"
  /\ lookup.budget > 0
  /\ check_hit(block, "STLB", page) = -1
  /\ page_table' \in Walks(page_table, page)
  /\ LET blocks == BlocksAfterWalk(page)
     IN  block' = fill_cache(blocks, "STLB", page, Victim(blocks, "STLB", page),
                             page_table'[page])
  /\ lookup' = [lookup EXCEPT !.budget = @ - 1]
  /\ UNCHANGED <<stall, client, RQ, MSHR, PROCESSED, lru, phase, reads>>

\* Mutant: the data are read after the call.
FinishHitLate ==
  LET packet == Head(RQ["STLB"])
  IN  /\ phase[1] = "callback"
      /\ lookup.kind = "hit"
      /\ lru' = Promote("STLB", lookup.set, lookup.way)
      /\ MSHR' = Returned(MSHR, Above(packet), packet.page,
                          block["STLB"][lookup.set][lookup.way].data)
      /\ ReadDone("STLB")
      /\ lookup' = NoLookup
      /\ phase' = <<"read", "STLB">>
      /\ UNCHANGED <<page_table, stall, client, PROCESSED, block>>

\* The end of a hit: the way found before the call becomes the most recent, and
\* the TLB above gets the data read before the call.
FinishHit ==
  LET packet == Head(RQ["STLB"])
  IN  /\ phase[1] = "callback"
      /\ lookup.kind = "hit"
      /\ lru' = Promote("STLB", lookup.set, lookup.way)
      /\ MSHR' = Returned(MSHR, Above(packet), packet.page, lookup.data)
      /\ ReadDone("STLB")
      /\ lookup' = NoLookup
      /\ phase' = <<"read", "STLB">>
      /\ UNCHANGED <<page_table, stall, client, PROCESSED, block>>

\* The end of a miss.
FinishMiss ==
  /\ phase[1] = "callback"
  /\ lookup.kind = "miss"
  /\ ReadDone("STLB")
  /\ lookup' = NoLookup
  /\ phase' = <<"read", "STLB">>
  /\ UNCHANGED <<page_table, stall, client, MSHR, PROCESSED, block, lru>>
-----------------------------------------------------------------------------
\* What becomes of a client when the oldest finished translation of its TLB is
\* handed to everyone who waits for it.
handle_merged_translation(c, t) ==
  IF PROCESSED[t] # << >> /\ c \in Head(PROCESSED[t]).waiters
  THEN [state |-> "translated", page |-> client[c].page, pa |-> Head(PROCESSED[t]).pa]
  ELSE client[c]

complete_instr_fetch(c) == handle_merged_translation(c, "ITLB")

\* Mutant: the stores that were merged with a load are not looked at.
complete_data_fetchLoadsOnly(c) ==
  IF /\ c \in Stores /\ PROCESSED["DTLB"] # << >>
     /\ ~ Head(PROCESSED["DTLB"]).waiters \subseteq Stores
  THEN client[c]
  ELSE handle_merged_translation(c, "DTLB")

complete_data_fetch(c) == handle_merged_translation(c, "DTLB")

\* update_rob: one translation of each TLB is completed.
update_rob ==
  /\ phase[1] = "complete"
  /\ client' = [c \in Clients |->
       IF c \in Fetchers THEN complete_instr_fetch(c) ELSE complete_data_fetch(c)]
  /\ PROCESSED' = [t \in Upper |->
       IF PROCESSED[t] = << >> THEN << >> ELSE Tail(PROCESSED[t])]
  /\ phase' = <<"tick", "ITLB">>
  /\ UNCHANGED <<page_table, stall, RQ, MSHR, block, lru, reads, lookup>>

\* A due time one cycle later.  Past times of returned misses keep only their order,
\* and 0 stays the present.
Later(t, i) ==
  LET event == MSHR[t][i].event
      past == {MSHR[t][j].event : j \in Completed(t)}
  IN  IF event > 0 THEN event - 1
      ELSE -1 - Cardinality({e \in past : event < e /\ e <= 0})

\* current_core_cycle advances; the core runs again once its stall is over.
Tick ==
  /\ phase[1] = "tick"
  /\ stall' = IF stall > 0 THEN stall - 1 ELSE 0
  /\ RQ' = [t \in TLBs |->
       [i \in 1 .. Len(RQ[t]) |->
          [RQ[t][i] EXCEPT !.event = IF @ > 0 THEN @ - 1 ELSE 0]]]
  /\ MSHR' = [t \in TLBs |->
       [i \in Slots(t) |->
          IF i \in Completed(t)
          THEN [MSHR[t][i] EXCEPT !.event = Later(t, i)]
          ELSE MSHR[t][i]]]
  /\ phase' = IF stall' = 0 THEN <<"issue", "ITLB">> ELSE phase
  /\ UNCHANGED <<page_table, client, PROCESSED, block, lru, reads, lookup>>

Next ==
  \/ fetch_instruction \/ operate_lsq \/ EndIssue
  \/ \E t \in TLBs : handle_fill(t) \/ NoFill(t) \/ NoRead(t)
  \/ \E t \in Upper : ReadHit(t) \/ ReadMiss(t) \/ ReadMerged(t)
  \/ StlbHit \/ StlbMiss
  \/ \E page \in Pages : PrefetchFill(page)
  \/ FinishHit \/ FinishMiss
  \/ update_rob
  \/ Tick

\* The loop of main.cc runs until the simulation ends.
Fairness == WF_vars(Next)

Spec == Init /\ [][Next]_vars /\ Fairness
-----------------------------------------------------------------------------
Side(t) == IF t = "ITLB" THEN Fetchers ELSE IF t = "DTLB" THEN Loads \cup Stores ELSE {}

Packets(t) == [page : CodePages \cup DataPages, instruction : BOOLEAN, type : {"LOAD", "RFO"},
               waiters : SUBSET Side(t), event : 0 .. LATENCY[t]]

(***************************************************************************)
(* Types, with the queues within their sizes and the lru counters of every *)
(* set a ranking, so that lru_victim finds a way.                          *)
(***************************************************************************)
TypeOK ==
  /\ DOMAIN page_table \subseteq Pages
  /\ \A page \in DOMAIN page_table : page_table[page] \in Frames
  /\ stall \in Nat
  /\ \A c \in Clients : client[c].state \in {"idle", "waiting", "translated"}
  /\ \A t \in TLBs :
       /\ Len(RQ[t]) <= RQ_SIZE[t]
       /\ \A i \in 1 .. Len(RQ[t]) : RQ[t][i] \in Packets(t)
       /\ \A i \in Slots(t) : MSHR[t][i] = Empty \/ MSHR[t][i].page \in CodePages \cup DataPages
       /\ \A set \in Sets(t), way \in WaysOf(t) :
            block[t][set][way] = NoBlock \/ block[t][set][way].tag \in Pages
       /\ \A set \in Sets(t) : IsRanking(NUM_WAY[t], lru[t][set])
  /\ phase[1] \in {"issue", "fill", "read", "callback", "complete", "tick"}
  /\ (phase[1] = "callback") = (lookup # NoLookup)
  /\ reads \in Nat

\* Where the STLB holds a request of an upper TLB for a page.
InStlb(t, page) ==
  \/ \E i \in 1 .. Len(RQ["STLB"]) :
       RQ["STLB"][i].page = page /\ Above(RQ["STLB"][i]) = t
  \/ \E i \in Slots("STLB") :
       /\ MSHR["STLB"][i] # Empty
       /\ MSHR["STLB"][i].page = page
       /\ Above(MSHR["STLB"][i]) = t

InFlight(t, page) ==
  \E i \in Slots(t) : MSHR[t][i] # Empty /\ MSHR[t][i].page = page /\ ~MSHR[t][i].returned

\* Whatever the STLB still has to answer is expected by the TLB it came from.
ReturnExpected ==
  \A t \in Upper, page \in Pages : InStlb(t, page) => InFlight(t, page)

\* Not so for a page that is both code and data, whose two requests the STLB may
\* merge into one of a single side.
NoOrphanedMiss ==
  \A t \in Upper, page \in Pages \ (CodePages \cap DataPages) :
    InFlight(t, page) => InStlb(t, page)

(***************************************************************************)
(* Misses of the ITLB and the DTLB and requests in the STLB match.  So     *)
(* return_data, which stops the program when it "cannot find a matching    *)
(* entry", finds one, and no miss waits in vain: the STLB's read queue,    *)
(* whose refusal handle_read ignores, never refuses one.                   *)
(***************************************************************************)
EveryMissAnsweredOnce == ReturnExpected /\ NoOrphanedMiss

\* The packets of an upper TLB that carry a client.
Carriers(t, c) ==
  {<<"RQ", i>> : i \in {j \in 1 .. Len(RQ[t]) :
                          c \in RQ[t][j].waiters /\ RQ[t][j].page = client[c].page}}
  \cup {<<"MSHR", i>> : i \in {j \in Slots(t) : /\ MSHR[t][j] # Empty
                                                /\ c \in MSHR[t][j].waiters
                                                /\ MSHR[t][j].page = client[c].page}}
  \cup {<<"PROCESSED", i>> : i \in {j \in 1 .. Len(PROCESSED[t]) :
                                      /\ c \in PROCESSED[t][j].waiters
                                      /\ PROCESSED[t][j].page = client[c].page}}

(***************************************************************************)
(* Merging, filling and answering never lose or double a client: one that  *)
(* waits is carried by exactly one packet of its TLB, for its own page.    *)
(***************************************************************************)
ConsumerConservation ==
  \A t \in Upper : \A c \in Side(t) :
    client[c].state = "waiting" => Cardinality(Carriers(t, c)) = 1

(***************************************************************************)
(* With one read and one fill a cycle, and the latency paid once in the    *)
(* queue and once in the register, a miss the STLB reads is always new and *)
(* finds a register: its requests can only be merged in its read queue.    *)
(***************************************************************************)
StlbMissIsNew ==
  /\ phase = <<"read", "STLB">> /\ reads > 0
  /\ HeadReady("STLB")
  /\ check_hit(block, "STLB", Head(RQ["STLB"]).page) = -1
  => /\ check_mshr("STLB", Head(RQ["STLB"]).page) = -1
     /\ Occupancy("STLB") < MSHR_SIZE["STLB"]

(***************************************************************************)
(* The pages of the valid blocks of a set of the ITLB or DTLB differ, so   *)
(* that invalidate_entry, which stops at the first match, drops them all.  *)
(***************************************************************************)
UpperTagsUnique ==
  \A t \in Upper : \A set \in Sets(t) : \A v, w \in WaysOf(t) :
    block[t][set][v] # NoBlock /\ block[t][set][v].tag = block[t][set][w].tag => v = w

(***************************************************************************)
(* Every block of a TLB holds the frame the page table gives its page.     *)
(***************************************************************************)
TlbCoherent ==
  \A t \in TLBs : \A set \in Sets(t) : \A way \in WaysOf(t) :
    block[t][set][way] # NoBlock =>
      /\ block[t][set][way].tag \in DOMAIN page_table
      /\ block[t][set][way].data = page_table[block[t][set][way].tag]

(***************************************************************************)
(* The TLBs keep the promise of TranslationService.                        *)
(***************************************************************************)
Service == INSTANCE TranslationService

ImplementsService == Service!Spec

(***************************************************************************)
(* A client that waits for a translation gets it.                          *)
(***************************************************************************)
EveryRequestAnswered ==
  \A c \in Clients : client[c].state = "waiting" ~> client[c].state = "translated"

=============================================================================
