----------------------------- MODULE DataCache -----------------------------
(***************************************************************************)
(* CACHE (cache.cc) as data cache: the L1D over the L2C of one core, with  *)
(* their read, write and prefetch queues, miss registers and dirty blocks, *)
(* between the core, which loads and retires stores, and the last-level    *)
(* cache below.                                                            *)
(*                                                                         *)
(* Latencies are left out: a packet may be ready any time after it was     *)
(* added, so that every handler takes its next packet at its own pace.     *)
(* Queues keep their order, and returned misses are filled in the order    *)
(* they returned.  A prefetcher only adds to the prefetch queue of its own *)
(* cache, so its calls are steps of their own (prefetch_line).             *)
(***************************************************************************)
EXTENDS LruPolicy, Sequences, FiniteSets

CONSTANTS
  Loads,                               \* load-queue entries
  Addresses, WORDS,                    \* addresses, and how many are in a line
  NUM_SET, NUM_WAY,                    \* of each cache
  RQ_SIZE, WQ_SIZE, PQ_SIZE, MSHR_SIZE,
  LLC_WQ_SIZE,
  Prefetched,                          \* what the prefetcher of a cache may ask for
  Window                               \* bound: what the core does while a load waits

Caches == {"L1D", "L2C"}
fill_level == [L1D |-> 1, L2C |-> 2]   \* FILL_L1, FILL_L2
LineOf(a) == a \div WORDS
Lines == {LineOf(a) : a \in Addresses}
None == -1

ASSUME AddressAssumption == WORDS \in Nat \ {0} /\ Addresses \subseteq Nat
ASSUME GeometryAssumption ==
  \A c \in Caches :
    /\ {NUM_SET[c], NUM_WAY[c], RQ_SIZE[c], WQ_SIZE[c], MSHR_SIZE[c]} \subseteq Nat \ {0}
    /\ PQ_SIZE[c] \in Nat
\* The misses of the L1D never find the read queue below full.
ASSUME MissesFit == MSHR_SIZE["L1D"] <= RQ_SIZE["L2C"]
\* prefetch_line is given an address and the level to fill.
ASSUME PrefetchAssumption ==
  \A c \in Caches : Prefetched[c] \subseteq
                     Addresses \X {level \in {1, 2} : fill_level[c] <= level}
ASSUME BoundAssumption == {LLC_WQ_SIZE, Window} \subseteq Nat \ {0}

VARIABLES
  load,      \* load -> whether it waits, and what happened since it began to
  RQ, PQ,    \* cache -> the queue of its packets, oldest first
  WQ,        \* L1D: addresses of retired stores; L2C: lines written back
  MSHR,      \* cache -> line in flight -> the packet that waits for it
  returned,  \* cache -> lines that have returned, in the order to fill them
  block,     \* cache -> set -> way -> the block there
  lru,       \* cache -> set -> way -> its lru counter
  LLC        \* the cache below: lines in its write queue, lines being read

vars == <<load, RQ, PQ, WQ, MSHR, returned, block, lru, LLC>>

NoBlock == [line |-> None, dirty |-> FALSE]
Sets(c) == 0 .. NUM_SET[c] - 1
Ways(c) == 0 .. NUM_WAY[c] - 1
-----------------------------------------------------------------------------
\* Searching a cache.

get_set(c, line) == line % NUM_SET[c]

Hits(c, line) ==
  {way \in Ways(c) : block[c][get_set(c, line)][way].line = line}

\* check_hit: the first way that holds the line.
HitWay(c, line) == CHOOSE way \in Hits(c, line) : \A other \in Hits(c, line) : way <= other

Victim(c, line) ==
  LET set == get_set(c, line)
  IN  lru_victim(NUM_WAY[c], [way \in Ways(c) |-> block[c][set][way] # NoBlock], lru[c][set])

VictimBlock(c, line) == block[c][get_set(c, line)][Victim(c, line)]

Promoted(c, line, way) ==
  [lru EXCEPT ![c][get_set(c, line)] = lru_update(NUM_WAY[c], @, way)]

\* Mutant: a miss that has returned is no longer found.
InFlightUnreturned(c, line) ==
  line \in DOMAIN MSHR[c] /\ \A i \in DOMAIN returned[c] : returned[c][i] # line

\* check_mshr
InFlight(c, line) == line \in DOMAIN MSHR[c]

MshrFull(c) == Cardinality(DOMAIN MSHR[c]) = MSHR_SIZE[c]

\* add_mshr, or a register taken over by another packet.
WithRegister(c, packet) ==
  [MSHR EXCEPT ![c] = [line \in DOMAIN @ \cup {packet.line} |->
                         IF line = packet.line THEN packet ELSE @[line]]]

WithoutRegister(c, line) ==
  [MSHR EXCEPT ![c] = [other \in DOMAIN @ \ {line} |-> @[other]]]

Lowest(x, y) == IF x < y THEN x ELSE y

\* Where a line stands in a queue of packets, 0 if nowhere.
Position(queue, line) ==
  IF \E i \in DOMAIN queue : queue[i].line = line
  THEN CHOOSE i \in DOMAIN queue : queue[i].line = line
  ELSE 0
-----------------------------------------------------------------------------
\* The interface a cache offers to the one above it.

\* WQ.check_queue in the cache below c: a write-back of the line is waiting.
WrittenBackBelow(c, line) ==
  IF c = "L1D" THEN \E i \in DOMAIN WQ["L2C"] : WQ["L2C"][i] = line
  ELSE line \in LLC.WQ

\* lower_level->get_occupancy(2) = get_size(2)
WqFullBelow(c) ==
  IF c = "L1D" THEN Len(WQ["L2C"]) = WQ_SIZE["L2C"] ELSE Cardinality(LLC.WQ) = LLC_WQ_SIZE

\* A read queue after add_rq of the L2C: merged, refused or added.
QueuedBelow(queue, packet) ==
  IF Position(queue, packet.line) # 0 \/ Len(queue) = RQ_SIZE["L2C"] THEN queue
  ELSE Append(queue, packet)

\* lower_level->add_rq: a line that is being written back returns at once.
RequestBelow(c, packet, rq) ==
  IF WrittenBackBelow(c, packet.line)
  THEN /\ returned' = [returned EXCEPT ![c] = Append(@, packet.line)]
       /\ RQ' = rq /\ UNCHANGED LLC
  ELSE /\ UNCHANGED returned
       /\ IF c = "L1D"
          THEN RQ' = [rq EXCEPT !["L2C"] = QueuedBelow(@, packet)] /\ UNCHANGED LLC
          ELSE RQ' = rq /\ LLC' = [LLC EXCEPT !.reading = @ \cup {packet.line}]

\* lower_level->add_wq for the dirty block that is replaced: merged or added.
WriteBelow(c, line, wq) ==
  IF c = "L1D"
  THEN /\ WQ' = IF \E i \in DOMAIN wq["L2C"] : wq["L2C"][i] = line THEN wq
                ELSE [wq EXCEPT !["L2C"] = Append(@, line)]
       /\ UNCHANGED LLC
  ELSE WQ' = wq /\ LLC' = [LLC EXCEPT !.WQ = @ \cup {line}]

\* fill_cache, with the dirty bit set afterwards if the caller does.
Filled(c, line, way, dirty) ==
  [block EXCEPT ![c][get_set(c, line)][way] = [line |-> line, dirty |-> dirty]]

Idle == [waiting |-> FALSE, overtaken |-> 0]
Waiting == {d \in Loads : load[d].waiting}

\* The loads in waiters have their data.
Completed(waiters) == [d \in Loads |-> IF d \in waiters THEN Idle ELSE load[d]]

Init ==
  /\ load = [d \in Loads |-> Idle]
  /\ RQ = [c \in Caches |-> << >>]
  /\ PQ = [c \in Caches |-> << >>]
  /\ WQ = [c \in Caches |-> << >>]
  /\ MSHR = [c \in Caches |-> << >>]
  /\ returned = [c \in Caches |-> << >>]
  /\ block = [c \in Caches |-> [set \in Sets(c) |-> [way \in Ways(c) |-> NoBlock]]]
  /\ lru = [c \in Caches |-> [set \in Sets(c) |-> [way \in Ways(c) |-> way]]]
  /\ LLC = [WQ |-> {}, reading |-> {}]
-----------------------------------------------------------------------------
\* The core and the prefetchers.

\* What the core does while a load waits is bounded: the reorder buffer fills up
\* behind it.
Paced == \A d \in Loads : load[d].overtaken < Window

Overtaken == [d \in Loads |-> IF load[d].waiting
                              THEN [load[d] EXCEPT !.overtaken = @ + 1] ELSE load[d]]

\* execute_load, as far as add_rq of the L1D accepts it: a retired store to the
\* address answers it, a queued load of the line takes it along, or it is added.
execute_load(d, a) ==
  LET at == Position(RQ["L1D"], LineOf(a)) IN
  /\ Paced /\ ~load[d].waiting
  /\ \/ /\ \E i \in DOMAIN WQ["L1D"] : WQ["L1D"][i] = a
        /\ load' = Overtaken
        /\ UNCHANGED RQ
     \/ /\ \A i \in DOMAIN WQ["L1D"] : WQ["L1D"][i] # a
        /\ load' = [Overtaken EXCEPT ![d].waiting = TRUE]
        /\ \/ /\ at # 0
              /\ RQ' = [RQ EXCEPT !["L1D"][at].waiters = @ \cup {d}]
           \/ /\ at = 0 /\ Len(RQ["L1D"]) < RQ_SIZE["L1D"]
              /\ RQ' = [RQ EXCEPT !["L1D"] = Append(@,
                          [line |-> LineOf(a), type |-> "LOAD", fill |-> 1,
                           waiters |-> {d}])]
  /\ UNCHANGED <<PQ, WQ, MSHR, returned, block, lru, LLC>>

\* Mutant: retire_rob does not look at the occupancy of the write queue.
retire_storeUnbounded(a) ==
  /\ Paced
  /\ load' = Overtaken
  /\ WQ' = IF \E i \in DOMAIN WQ["L1D"] : WQ["L1D"][i] = a THEN WQ
           ELSE [WQ EXCEPT !["L1D"] = Append(@, a)]
  /\ UNCHANGED <<RQ, PQ, MSHR, returned, block, lru, LLC>>

\* retire_rob hands a store over: add_wq merges it with one to the same address.
retire_store(a) ==
  /\ Paced
  /\ Len(WQ["L1D"]) < WQ_SIZE["L1D"]
  /\ load' = Overtaken
  /\ WQ' = IF \E i \in DOMAIN WQ["L1D"] : WQ["L1D"][i] = a THEN WQ
           ELSE [WQ EXCEPT !["L1D"] = Append(@, a)]
  /\ UNCHANGED <<RQ, PQ, MSHR, returned, block, lru, LLC>>

\* A prefetch queue after add_pq, unless a write-back answered it.
Prefetching(queue, packet) ==
  LET at == Position(queue, packet.line) IN
  IF at = 0 THEN Append(queue, packet)
  ELSE [queue EXCEPT ![at].fill = Lowest(@, packet.fill)]

\* prefetch_line with add_pq: dropped if the cache has a store to the address.
prefetch_line(c, a, fill) ==
  /\ Paced
  /\ Len(PQ[c]) < PQ_SIZE[c]
  /\ \A i \in DOMAIN WQ[c] : WQ[c][i] # (IF c = "L1D" THEN a ELSE LineOf(a))
  /\ load' = Overtaken
  /\ PQ' = [PQ EXCEPT ![c] = Prefetching(@,
              [line |-> LineOf(a), type |-> "PREFETCH", fill |-> fill, waiters |-> {}])]
  /\ UNCHANGED <<RQ, WQ, MSHR, returned, block, lru, LLC>>

-----------------------------------------------------------------------------
\* The handlers of a cache.

\* A miss that has returned is filled, unless its dirty victim finds no room in
\* the write queue below; an RFO marks the L1D block dirty; a miss of the cache
\* above is passed on, the loads of the L1D are done.
handle_fill(c) ==
  /\ returned[c] # << >>
  /\ LET line == Head(returned[c])
         packet == MSHR[c][line]
         way == Victim(c, line)
         old == VictimBlock(c, line)
     IN  /\ old.dirty => ~WqFullBelow(c)
         /\ IF old.dirty THEN WriteBelow(c, old.line, WQ) ELSE UNCHANGED <<WQ, LLC>>
         /\ block' = Filled(c, line, way, c = "L1D" /\ packet.type = "RFO")
         /\ lru' = Promoted(c, line, way)
         /\ MSHR' = WithoutRegister(c, line)
         /\ returned' = IF packet.fill < fill_level[c]
                        THEN [returned EXCEPT ![c] = Tail(@), !["L1D"] = Append(@, line)]
                        ELSE [returned EXCEPT ![c] = Tail(@)]
         /\ load' = IF c = "L1D" THEN Completed(packet.waiters) ELSE load
  /\ UNCHANGED <<RQ, PQ>>

\* Mutant: the packet stays in the write queue.
handle_writebackHitKept(c) ==
  /\ WQ[c] # << >>
  /\ LET line == IF c = "L1D" THEN LineOf(Head(WQ[c])) ELSE Head(WQ[c])
         way == HitWay(c, line)
     IN  /\ Hits(c, line) # {}
         /\ block' = [block EXCEPT ![c][get_set(c, line)][way].dirty = TRUE]
         /\ lru' = IF c = "L1D" THEN Promoted(c, line, way) ELSE lru
  /\ UNCHANGED <<load, RQ, PQ, WQ, MSHR, returned, LLC>>

\* A store or a write-back hits: the block is dirty; only a store promotes it.
handle_writebackHit(c) ==
  /\ WQ[c] # << >>
  /\ LET line == IF c = "L1D" THEN LineOf(Head(WQ[c])) ELSE Head(WQ[c])
         way == HitWay(c, line)
     IN  /\ Hits(c, line) # {}
         /\ block' = [block EXCEPT ![c][get_set(c, line)][way].dirty = TRUE]
         /\ lru' = IF c = "L1D" THEN Promoted(c, line, way) ELSE lru
  /\ WQ' = [WQ EXCEPT ![c] = Tail(@)]
  /\ UNCHANGED <<load, RQ, PQ, MSHR, returned, LLC>>

\* A store misses the L1D: it becomes a read for ownership, or is left to the miss
\* in flight; a prefetch in flight turns into the store's miss.
StoreMiss ==
  /\ WQ["L1D"] # << >>
  /\ LET line == LineOf(Head(WQ["L1D"]))
         packet == [line |-> line, type |-> "RFO", fill |-> 1, waiters |-> {}]
     IN  /\ Hits("L1D", line) = {}
         /\ \/ /\ ~InFlight("L1D", line) /\ ~MshrFull("L1D")
               /\ MSHR' = WithRegister("L1D", packet)
               /\ RequestBelow("L1D", packet, RQ)
            \/ /\ InFlight("L1D", line)
               /\ MSHR' = WithRegister("L1D",
                    IF MSHR["L1D"][line].type = "PREFETCH" THEN packet
                    ELSE MSHR["L1D"][line])
               /\ UNCHANGED <<RQ, returned, LLC>>
  /\ WQ' = [WQ EXCEPT !["L1D"] = Tail(@)]
  /\ UNCHANGED <<load, PQ, block, lru>>

\* A write-back misses the L2C: it replaces a block at once, dirty.
WritebackMiss ==
  /\ WQ["L2C"] # << >>
  /\ LET line == Head(WQ["L2C"])
         way == Victim("L2C", line)
         old == VictimBlock("L2C", line)
         rest == [WQ EXCEPT !["L2C"] = Tail(@)]
     IN  /\ Hits("L2C", line) = {}
         /\ old.dirty => ~WqFullBelow("L2C")
         /\ IF old.dirty THEN WriteBelow("L2C", old.line, rest)
                         ELSE WQ' = rest /\ UNCHANGED LLC
         /\ block' = Filled("L2C", line, way, TRUE)
         /\ lru' = Promoted("L2C", line, way)
  /\ UNCHANGED <<load, RQ, PQ, MSHR, returned>>

\* A read hits: the loads of the L1D are done, the cache above gets the line.
handle_readHit(c) ==
  /\ RQ[c] # << >>
  /\ LET packet == Head(RQ[c])
     IN  /\ Hits(c, packet.line) # {}
         /\ lru' = Promoted(c, packet.line, HitWay(c, packet.line))
         /\ returned' = IF packet.fill < fill_level[c]
                        THEN [returned EXCEPT !["L1D"] = Append(@, packet.line)]
                        ELSE returned
         /\ load' = IF c = "L1D" THEN Completed(packet.waiters) ELSE load
  /\ RQ' = [RQ EXCEPT ![c] = Tail(@)]
  /\ UNCHANGED <<PQ, WQ, MSHR, block, LLC>>

\* What the cache below sees of a packet.
Below(packet) == [packet EXCEPT !.waiters = {}]

\* Mutant: a demand read that meets a prefetch in flight leaves it as it is.
JoinedPrefetch(register, packet) ==
  [register EXCEPT !.waiters = @ \cup packet.waiters]

\* Mutant: the loads that join a register are forgotten.
JoinedAlone(register, packet) ==
  IF register.type = "PREFETCH" THEN packet
  ELSE [register EXCEPT !.fill = Lowest(@, packet.fill)]

\* Mutant: every register is taken over, not only a prefetch.
JoinedOver(register, packet) ==
  [packet EXCEPT !.waiters = @ \cup register.waiters]

\* A register that packet finds in flight: a prefetch is taken over, any other
\* register takes the loads along.
Joined(register, packet) ==
  IF register.type = "PREFETCH" THEN packet
  ELSE [register EXCEPT !.fill = Lowest(@, packet.fill),
                        !.waiters = @ \cup packet.waiters]

\* A read misses: it takes a register and asks below, or joins the one in flight.
handle_readMiss(c) ==
  /\ RQ[c] # << >>
  /\ LET packet == Head(RQ[c])
         rest == [RQ EXCEPT ![c] = Tail(@)]
     IN  /\ Hits(c, packet.line) = {}
         /\ \/ /\ ~InFlight(c, packet.line) /\ ~MshrFull(c)
               /\ MSHR' = WithRegister(c, packet)
               /\ RequestBelow(c, Below(packet), rest)
            \/ /\ InFlight(c, packet.line)
               /\ MSHR' = WithRegister(c, Joined(MSHR[c][packet.line], packet))
               /\ RQ' = rest
               /\ UNCHANGED <<returned, LLC>>
  /\ UNCHANGED <<load, PQ, WQ, block, lru>>

\* Prefetches are handled only when no read is queued.
MayPrefetch(c) == PQ[c] # << >> /\ RQ[c] = << >>

handle_prefetchHit(c) ==
  /\ MayPrefetch(c)
  /\ LET packet == Head(PQ[c])
     IN  /\ Hits(c, packet.line) # {}
         /\ lru' = Promoted(c, packet.line, HitWay(c, packet.line))
         /\ returned' = IF packet.fill < fill_level[c]
                        THEN [returned EXCEPT !["L1D"] = Append(@, packet.line)]
                        ELSE returned
  /\ PQ' = [PQ EXCEPT ![c] = Tail(@)]
  /\ UNCHANGED <<load, RQ, WQ, MSHR, block, LLC>>

\* The L1D passes a prefetch on to the L2C, with a register only if the line is to
\* fill the L1D.  A write-back waiting there answers it.
PrefetchMissL1D ==
  /\ MayPrefetch("L1D")
  /\ LET packet == Head(PQ["L1D"])
         here == packet.fill <= fill_level["L1D"]
         rest == [PQ EXCEPT !["L1D"] = Tail(@)]
     IN  /\ Hits("L1D", packet.line) = {}
         /\ ~InFlight("L1D", packet.line) /\ ~MshrFull("L1D")
         /\ Len(PQ["L2C"]) < PQ_SIZE["L2C"]
         /\ MSHR' = IF here THEN WithRegister("L1D", packet) ELSE MSHR
         /\ IF WrittenBackBelow("L1D", packet.line)
            THEN /\ PQ' = rest
                 /\ returned' = IF here
                                THEN [returned EXCEPT !["L1D"] = Append(@, packet.line)]
                                ELSE returned
            ELSE /\ PQ' = [rest EXCEPT !["L2C"] = Prefetching(@, packet)]
                 /\ UNCHANGED returned
  /\ UNCHANGED <<load, RQ, WQ, block, lru, LLC>>

\* The L2C asks the LLC.
PrefetchMissL2C ==
  /\ MayPrefetch("L2C")
  /\ LET packet == Head(PQ["L2C"])
     IN  /\ Hits("L2C", packet.line) = {}
         /\ ~InFlight("L2C", packet.line) /\ ~MshrFull("L2C")
         /\ MSHR' = WithRegister("L2C", packet)
         /\ RequestBelow("L2C", packet, RQ)
  /\ PQ' = [PQ EXCEPT !["L2C"] = Tail(@)]
  /\ UNCHANGED <<load, WQ, block, lru>>

\* A prefetch of a line in flight may only lower the level it fills.
PrefetchJoins(c) ==
  /\ MayPrefetch(c)
  /\ LET packet == Head(PQ[c])
     IN  /\ Hits(c, packet.line) = {} /\ InFlight(c, packet.line)
         /\ MSHR' = [MSHR EXCEPT ![c][packet.line].fill = Lowest(@, packet.fill)]
  /\ PQ' = [PQ EXCEPT ![c] = Tail(@)]
  /\ UNCHANGED <<load, RQ, WQ, returned, block, lru, LLC>>
-----------------------------------------------------------------------------
\* The LLC, seen from above: it returns what is read and writes what is written.

LLCReturns(line) ==
  /\ line \in LLC.reading
  /\ LLC' = [LLC EXCEPT !.reading = @ \ {line}]
  /\ returned' = [returned EXCEPT !["L2C"] = Append(@, line)]
  /\ UNCHANGED <<load, RQ, PQ, WQ, MSHR, block, lru>>

LLCWrites(line) ==
  /\ line \in LLC.WQ
  /\ LLC' = [LLC EXCEPT !.WQ = @ \ {line}]
  /\ UNCHANGED <<load, RQ, PQ, WQ, MSHR, returned, block, lru>>

Core ==
  \/ \E d \in Loads, a \in Addresses : execute_load(d, a)
  \/ \E a \in Addresses : retire_store(a)
  \/ \E c \in Caches : \E request \in Prefetched[c] : prefetch_line(c, request[1], request[2])

handle_writeback(c) ==
  \/ handle_writebackHit(c)
  \/ c = "L1D" /\ StoreMiss
  \/ c = "L2C" /\ WritebackMiss

handle_read(c) == handle_readHit(c) \/ handle_readMiss(c)

handle_prefetch(c) ==
  \/ handle_prefetchHit(c) \/ PrefetchJoins(c)
  \/ c = "L1D" /\ PrefetchMissL1D
  \/ c = "L2C" /\ PrefetchMissL2C

Handler(c) ==
  handle_fill(c) \/ handle_writeback(c) \/ handle_read(c) \/ handle_prefetch(c)

LLCAnswers(line) == LLCReturns(line) \/ LLCWrites(line)

Next ==
  \/ Core
  \/ \E c \in Caches : Handler(c)
  \/ \E line \in Lines : LLCAnswers(line)

\* The simulation loop keeps turning: in every cycle operate() runs the handlers of
\* every cache.
Spec == Init /\ [][Next]_vars /\ WF_vars(Next)
-----------------------------------------------------------------------------
Packet == [line : Lines, type : {"LOAD", "RFO", "PREFETCH"}, fill : {1, 2},
           waiters : SUBSET Loads]

Elements(seq) == {seq[i] : i \in DOMAIN seq}

(***************************************************************************)
(* The type of the state; no queue outgrows its size, although add_wq of   *)
(* the caches refuses nothing and stops at an assert.                      *)
(***************************************************************************)
TypeOK ==
  /\ load \in [Loads -> [waiting : BOOLEAN, overtaken : 0 .. Window]]
  /\ \A c \in Caches :
       /\ Elements(RQ[c]) \cup Elements(PQ[c]) \subseteq Packet
       /\ Len(RQ[c]) <= RQ_SIZE[c] /\ Len(PQ[c]) <= PQ_SIZE[c]
       /\ Elements(WQ[c]) \subseteq (IF c = "L1D" THEN Addresses ELSE Lines)
       /\ Len(WQ[c]) <= WQ_SIZE[c]
       /\ \A line \in DOMAIN MSHR[c] : MSHR[c][line] \in Packet
       /\ Cardinality(DOMAIN MSHR[c]) <= MSHR_SIZE[c]
       /\ Elements(returned[c]) \subseteq Lines
       /\ \A set \in Sets(c), way \in Ways(c) :
            block[c][set][way] \in
              [line : Lines \cup {None}, dirty : BOOLEAN]
       /\ \A set \in Sets(c) : IsRanking(NUM_WAY[c], lru[c][set])
  /\ LLC.WQ \subseteq Lines /\ LLC.reading \subseteq Lines
  /\ Cardinality(LLC.WQ) <= LLC_WQ_SIZE

DirtyIn(c) ==
  {block[c][p[1]][p[2]].line : p \in {q \in Sets(c) \X Ways(c) : block[c][q[1]][q[2]].dirty}}

\* The lines that a store has taken a miss for, or whose modification some cache or
\* write queue holds.
Modified ==
  {line \in DOMAIN MSHR["L1D"] : MSHR["L1D"][line].type = "RFO"}
    \cup DirtyIn("L1D") \cup Elements(WQ["L2C"]) \cup DirtyIn("L2C") \cup LLC.WQ

(***************************************************************************)
(* A line that a store has taken a miss for or modified stays modified     *)
(* somewhere until the LLC has written it: no load or prefetch that joins  *)
(* the miss, no fill, write-back or merge in a write queue loses it.       *)
(***************************************************************************)
ModificationKept ==
  [][Modified \ Modified' \subseteq LLC.WQ \ LLC.WQ']_vars

\* Every line that returns is waited for and returns once, whether a read, a prefetch or
\* a write-back that was in the way answered it.
ReturnExpected ==
  \A c \in Caches :
    /\ Elements(returned[c]) \subseteq DOMAIN MSHR[c]
    /\ Cardinality(Elements(returned[c])) = Len(returned[c])

\* Every miss of the L1D has a request below that will be answered upwards, a read, a
\* prefetch to level 1 or a miss of the L2C with that level, and every miss of the L2C
\* is being read, unless they have returned.
NoOrphanedMiss ==
  /\ \A line \in DOMAIN MSHR["L1D"] :
       \/ line \in Elements(returned["L1D"])
       \/ \E packet \in Elements(RQ["L2C"]) \cup Elements(PQ["L2C"]) :
            packet.line = line /\ packet.fill = 1
       \/ InFlight("L2C", line) /\ MSHR["L2C"][line].fill = 1
  /\ \A line \in DOMAIN MSHR["L2C"] :
       line \in Elements(returned["L2C"]) \cup LLC.reading

(***************************************************************************)
(* Misses and answers match.  No line returns that is not waited for, at   *)
(* which return_data stops at its assert, and no miss is left without the  *)
(* request that will answer it, though nobody looks at the answer of       *)
(* add_rq.                                                                 *)
(***************************************************************************)
EveryMissAnsweredOnce == ReturnExpected /\ NoOrphanedMiss

(***************************************************************************)
(* Each waiting load is found in exactly one queued read or miss of the    *)
(* L1D, through merges in the queue, joins in the registers and prefetches *)
(* that a load takes over.                                                 *)
(***************************************************************************)
LoadsConserved ==
  \A d \in Loads :
    Cardinality({i \in DOMAIN RQ["L1D"] : d \in RQ["L1D"][i].waiters})
      + Cardinality({line \in DOMAIN MSHR["L1D"] : d \in MSHR["L1D"][line].waiters})
    = (IF d \in Waiting THEN 1 ELSE 0)

(***************************************************************************)
(* Every load is answered, although misses wait for registers, fills wait  *)
(* for room in the write queues below, level by level, and a prefetch it   *)
(* depends on waits until no read is queued.                               *)
(***************************************************************************)
EveryLoadAnswered == \A d \in Loads : d \in Waiting ~> d \notin Waiting
=============================================================================
